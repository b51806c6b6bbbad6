--------------------------- MODULE MC_MethodBuilder ---------------------------
(***************************************************************************)
(* Model values for MethodBuilder.  The method under construction is       *)
(* "Lpkg/Foo;".bar; the .cfg files pick which definitions instantiate it.  *)
(***************************************************************************)
EXTENDS MethodBuilder

mcClass == "Lpkg/Foo;"

\* The method's strings have no embedded NUL.
mcNoNul == <<>>

\* bar(I)I for the label runs, bar(J)V for the call runs: a wide parameter
\* gives calls a register pair to pass.
mcParamsInt == <<"I">>
mcParamsLong == <<"J">>

\* Thirteen int parameters and a long: the long's pair sits at argument words
\* 13 and 14, so with one register it resolves to 14 and 15, the last pair
\* of 4-bit registers, and the last int to 13 + NumRegisters().
mcParamsIntsThenLong == [k \in 1 .. 13 |-> "I"] \o <<"J">>

\* A static sum(III)I on the class, only callable in the range form with
\* three words, and a virtual Foo.size()I taking only the receiver.
mcCallees ==
  { [type |-> mcClass, name |-> "sum", proto |-> Prototype("I", <<"I", "I", "I">>),
     kind |-> "static"],
    [type |-> mcClass, name |-> "size", proto |-> Prototype("I", <<>>), kind |-> "virtual"] }

\* Adds a direct constructor call Foo.<init>()V and an interface call
\* Runnable.run()V, each taking only the receiver.
mcCalleesAllKinds ==
  mcCallees \cup
  { [type |-> mcClass, name |-> "<init>", proto |-> Prototype("V", <<>>), kind |-> "direct"],
    [type |-> "Ljava/lang/Runnable;", name |-> "run", proto |-> Prototype("V", <<>>),
     kind |-> "interface"] }

\* An int and a long primitive, and the long wrapper for unboxing.
mcBoxTypes == {"I", "J", "Ljava/lang/Long;"}

\* Immediates <<hi, lo>> (value hi * 65536 + lo) at the edges of const/4,
\* const/16 and const: 7, 8 and 70000.
mcImmediates == {<<0, 7>>, <<0, 8>>, <<1, 4464>>}

\* Adds 40000, which passes the code's "<= 65535" test for const/16 but
\* lies above the largest signed 16-bit literal, and 2^31, which passes
\* the "<= 4294967295" test for const-wide/32 but lies above the largest
\* signed 32-bit literal.
mcImmediatesSigned == mcImmediates \cup {<<0, 40000>>, <<32768, 0>>}
=============================================================================
