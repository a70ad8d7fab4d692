------------------------------ MODULE MCResult ------------------------------
(* Results, failures and optionals of one program, at most MaxObjects of   *)
(* them at a time, and the sum type that both classes implement.           *)
EXTENDS Result, FiniteSets

CONSTANTS Opts, MaxObjects

ASSUME ObjectsAssumption == Results \cap Opts = {}

VARIABLE opt

O == INSTANCE Optional

MCConv == [p \in Payload |-> IF p \in {0, 1} THEN 1 - p ELSE p]

Live == Cardinality({x \in Results : Exists(x)})
          + Cardinality({f \in Failures : HasFailure(f)})
          + Cardinality({x \in Opts : O!Exists(x)})

MCInit == Init /\ O!Init /\ op.x = op.y

MCNext == /\ \/ Next /\ UNCHANGED opt
             \/ O!Next /\ UNCHANGED <<obj, failure>>
          /\ Live' <= MaxObjects

MCSpec == MCInit /\ [][MCNext]_<<vars, opt>>

\* Every optional holds a value exactly when its discriminator says so, even
\* after an assignment or a swap that threw: unlike a Result it is then empty.
OptionalAlwaysSound == O!OptionalSound

\* The comparison operators of results, failures and optionals, with each
\* other and with plain values, all agree with one total order per class.
AllComparisonsAgree == ComparisonsAgree /\ O!OptionalComparisonsAgree

\* The slots of the sum type that the objects are.
slots == [x \in Results \cup Opts |-> IF x \in Results THEN Slot(x) ELSE O!Slot(x)]

ST == INSTANCE SumType WITH Slots <- Results \cup Opts, slot <- slots

\* Results and optionals implement the sum type: every call gives the objects
\* it names the content the class promises and leaves the others alone; only
\* an exception may break a result.
ImplementsSumType == ST!Spec
=============================================================================
