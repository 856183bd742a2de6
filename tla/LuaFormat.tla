------------------------------ MODULE LuaFormat ------------------------------
(***************************************************************************)
(* The argument serializer of l_start_call (src/bindings-lua.c), which     *)
(* walks the object's arg_fmt and the Lua arguments together, checked      *)
(* against the wire layout of spec 4.2 and 6: fields back to back, each    *)
(* integer as wide as its token, an sN. block exactly N bytes, zero-padded *)
(* on the right.                                                           *)
(*                                                                         *)
(* A format is a sequence of characters.  A Lua value is a record        *)
(* [kind, id, len]; bytes are abstract: byte i of value s is <<s.id, i>>, *)
(* and a padding byte is Zero.  Value ids are positive.                   *)
(***************************************************************************)
EXTENDS Naturals, Sequences, SequencesExt

CONSTANTS
  Formats,   \* the arg_fmt strings of the objects, each accepted by the
             \* format engine (valid, num_args = its number of fields)
  IntVals,   \* Lua numbers passed for integer fields: [kind, id, len]
  BinArgs    \* Lua strings and userdata passed for sN. fields

VARIABLES
  fmt,       \* o->arg_fmt of the called object
  args,      \* the Lua arguments 3 .. lua_gettop(L)
  wire       \* serialization: done, ok (no error raised), the buffer's bytes

vars == <<fmt, args, wire>>

(* Token widths in bytes: URPC_U8 "1", S8 "6", U16 "2", S16 "7", U32 "3", *)
(* S32 "8", U64 "4", S64 "9"; URPC_BIN is "s".                            *)
IntWidth == ("1" :> 1) @@ ("6" :> 1) @@ ("2" :> 2) @@ ("7" :> 2)
            @@ ("3" :> 4) @@ ("8" :> 4) @@ ("4" :> 8) @@ ("9" :> 8)
Digit == ("0" :> 0) @@ ("1" :> 1) @@ ("2" :> 2) @@ ("3" :> 3) @@ ("4" :> 4)
         @@ ("5" :> 5) @@ ("6" :> 6) @@ ("7" :> 7) @@ ("8" :> 8) @@ ("9" :> 9)

Zero == <<0, 0>>
ValBytes(s, k) == [i \in 1 .. k |-> <<s.id, i>>]
MinOf(a, b) == IF a < b THEN a ELSE b

(* atoi(fmt): the decimal number at the head of f.                         *)
RECURSIVE AtoiAcc(_, _)
AtoiAcc(f, acc) ==
  IF f # <<>> /\ Head(f) \in DOMAIN Digit
  THEN AtoiAcc(Tail(f), 10 * acc + Digit[Head(f)]) ELSE acc
Atoi(f) == AtoiAcc(f, 0)

(* The skip loop after a block: f after its terminating '.'.             *)
RECURSIVE SkipDot(_)
SkipDot(f) == IF f = <<>> THEN f ELSE IF Head(f) = "." THEN Tail(f) ELSE SkipDot(Tail(f))

(* The fields of a format: an integer token, or "s" with its block length. *)
RECURSIVE Fields(_)
Fields(f) ==
  IF f = <<>> THEN <<>>
  ELSE IF Head(f) = "s"
       THEN <<[tok |-> "s", n |-> Atoi(Tail(f))]>> \o Fields(SkipDot(Tail(f)))
       ELSE <<[tok |-> Head(f), n |-> IntWidth[Head(f)]]>> \o Fields(Tail(f))

-----------------------------------------------------------------------------
(* The loop of l_start_call over the Lua arguments.  An integer is put at  *)
(* its width.  For URPC_BIN, len is strlen of a string and 0 for a        *)
(* userdata, blen = atoi(fmt); blen = 0 raises, len is clamped to blen,   *)
(* len bytes are put and the cursor skips past '.'.  An unknown token is  *)
(* BUG().  Returns [done, ok, bytes].                                            *)
RECURSIVE Serialize(_, _, _)
Serialize(f, a, acc) ==
  IF a = <<>> THEN [done |-> TRUE, ok |-> TRUE, bytes |-> acc]
  ELSE IF Head(f) \in DOMAIN IntWidth
  THEN Serialize(Tail(f), Tail(a), acc \o ValBytes(Head(a), IntWidth[Head(f)]))
  ELSE IF Head(f) = "s"
  THEN LET blen == Atoi(Tail(f))
           len  == IF Head(a).kind = "string" THEN Head(a).len ELSE 0
       IN  IF blen = 0 THEN [done |-> TRUE, ok |-> FALSE, bytes |-> acc]
           ELSE Serialize(SkipDot(Tail(f)), Tail(a),
                          acc \o ValBytes(Head(a), MinOf(blen, len)))
  ELSE [done |-> TRUE, ok |-> FALSE, bytes |-> acc]

l_start_call_serialize(f, a) == Serialize(f, a, <<>>)

(* The layout spec 4.2 and 6 require: each sN. block is the first N bytes  *)
(* of the value, zero-padded to N.                                         *)
RefEncode(f, a) ==
  LET fs == Fields(f)
      enc(i) == IF fs[i].tok = "s"
                THEN ValBytes(a[i], MinOf(fs[i].n, a[i].len))
                     \o [j \in 1 .. fs[i].n - MinOf(fs[i].n, a[i].len) |-> Zero]
                ELSE ValBytes(a[i], fs[i].n)
  IN  FoldLeft(LAMBDA acc, i : acc \o enc(i), <<>>, [i \in 1 .. Len(fs) |-> i])

(* The Lua argument lists l_start_call accepts for f: one per field.      *)
ArgsFor(f) ==
  LET fs == Fields(f)
  IN  {a \in [1 .. Len(fs) -> IntVals \cup BinArgs] :
         \A i \in 1 .. Len(fs) : (fs[i].tok = "s") = (a[i].kind # "number")}

-----------------------------------------------------------------------------
Init ==
  /\ fmt \in Formats
  /\ args \in ArgsFor(fmt)
  /\ wire = [done |-> FALSE, ok |-> FALSE, bytes |-> <<>>]

(* The user calls start_call; the arguments are serialized into the buffer. *)
SerializeArgs ==
  /\ ~wire.done
  /\ wire' = [l_start_call_serialize(fmt, args) EXCEPT !.done = TRUE]
  /\ UNCHANGED <<fmt, args>>

Next == SerializeArgs

Spec == Init /\ [][Next]_vars

TypeOK ==
  /\ fmt \in Formats
  /\ args \in ArgsFor(fmt)
  /\ wire \in [done : BOOLEAN, ok : BOOLEAN, bytes : Seq(Nat \X Nat)]

(* The argument buffer l_start_call sends holds the arguments in the       *)
(* layout of spec 4.2 and 6 (scenario S3: "abc" into s8. is "abc" and five *)
(* zero bytes), for every Lua string or userdata passed for a block.      *)
ArgsEncodedPerLayout ==
  wire.done => wire.ok /\ wire.bytes = RefEncode(fmt, args)

=============================================================================
