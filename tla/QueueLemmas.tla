----------------------------- MODULE QueueLemmas -----------------------------
(***************************************************************************)
(* What the queues of the parts have in common: messages come in at the     *)
(* end and are taken at the front, and the properties are about the last.   *)
(***************************************************************************)
EXTENDS Integers, Sequences, SequenceTheorems, TLAPS

\* The last message stays the last while the ones before it are read.
LEMMA LastOfTail ==
  ASSUME NEW S, NEW f \in Seq(S), f # <<>>
  PROVE  f[Len(f)] = IF Tail(f) = <<>> THEN Head(f) ELSE Tail(f)[Len(Tail(f))]
<1>1. CASE Tail(f) = <<>>
  <2>1. Len(f) - 1 = 0 /\ Len(f) \in Nat
    BY <1>1, HeadTailProperties, EmptySeq, LenProperties
  <2>2. Len(f) = 1
    BY <2>1
  <2> QED BY <1>1, <2>2
<1>2. CASE Tail(f) # <<>>
  <2>1. PICK k \in Nat \ {0} : k = Len(Tail(f))
    BY <1>2, HeadTailProperties, EmptySeq
  <2>2. Len(f) = k + 1
    BY <2>1
  <2>3. Tail(f)[k] = f[k + 1]
    BY <2>1, HeadTailProperties
  <2> QED BY <1>2, <2>1, <2>2, <2>3
<1> QED BY <1>1, <1>2

=============================================================================
