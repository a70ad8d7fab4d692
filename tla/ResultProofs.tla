---------------------------- MODULE ResultProofs ----------------------------
(***************************************************************************)
(* What holds of the results, failures and optionals of a program however  *)
(* many there are and whatever their values, their errors and the          *)
(* conversions between them: MCResult's specification, for every value of  *)
(* its constants.                                                          *)
(***************************************************************************)
EXTENDS MCResult, TLAPS

-----------------------------------------------------------------------------
(* Results.                                                                *)

(* What x may hold as its value, or as its error.                          *)
Contents(x, isValue) ==
  (IF isValue THEN ValuesOf(x) ELSE Errors) \cup {Moved}

(* s is the storage of an object of the type of x, alive or not.           *)
Typed(x, s) == s \in Storage /\ s.val \in Contents(x, s.hasValue)

(* There is no object, or it holds what its discriminator says.            *)
Fit(s) == s.alive = "absent" \/ Sound(s)

FailureType == failure \in [Failures -> Errors \cup {Moved, None}]

ResultInv ==
  /\ obj \in [Results -> Storage]
  /\ \A x \in Results : Typed(x, obj[x])
  /\ FailureType
  /\ ub \in BOOLEAN /\ threw \in BOOLEAN
  /\ ~threw => ~ub /\ \A x \in Results : Fit(obj[x])

(* The contents of a result are payloads; a result and its conversion have *)
(* contents of the same kind.                                              *)
LEMMA ContentsFacts ==
  ASSUME NEW x, NEW h \in BOOLEAN
  PROVE  /\ Contents(x, h) \subseteq Payload
         /\ Moved \in Contents(x, h)
         /\ \A p \in Contents(x, h) : Conv[p] \in Contents(x, h)
         /\ \A y : SameType(x, y) => Contents(y, h) = Contents(x, h)
<1>1. Contents(x, h) \subseteq Payload /\ Moved \in Contents(x, h)
  BY DEF Contents, ValuesOf, Payload
<1>2. ASSUME NEW p \in Contents(x, h) PROVE Conv[p] \in Contents(x, h)
  BY <1>2, ResultAssumption DEF Contents, ValuesOf
<1>3. ASSUME NEW y, SameType(x, y) PROVE Contents(y, h) = Contents(x, h)
  BY <1>3 DEF Contents, ValuesOf, SameType
<1> QED
  BY <1>1, <1>2, <1>3

(* The storage that the constructors of ResultAlt leave behind.            *)
LEMMA BuiltTyped ==
  ASSUME NEW x, NEW s \in Storage, NEW m \in {"value", "error"},
         NEW p \in Contents(x, m = "value")
  PROVE  /\ Typed(x, alternative(m, p)) /\ Fit(alternative(m, p))
         /\ Typed(x, construct(s, m, p))
         /\ s.alive = "none" => Fit(construct(s, m, p))
<1>1. p \in Payload
  BY ContentsFacts
<1>2. Typed(x, alternative(m, p)) /\ Fit(alternative(m, p))
  BY <1>1 DEF Typed, Storage, alternative, Fit, Sound, member
<1>3. Typed(x, construct(s, m, p))
  BY <1>1 DEF Typed, Storage, construct
<1>4. s.alive = "none" => Fit(construct(s, m, p))
  BY <1>1 DEF Fit, construct, Sound, member
<1> QED
  BY <1>2, <1>3, <1>4

(* What is read of a member, or is left of it, and what destroy() leaves.  *)
LEMMA ReadTyped ==
  ASSUME NEW x, NEW s, Typed(x, s)
  PROVE  /\ s \in Storage /\ s.hasValue \in BOOLEAN
         /\ payload(s) \in Contents(x, s.hasValue)
         /\ Typed(x, movedFrom(s)) /\ movedFrom(s).hasValue = s.hasValue
         /\ Fit(s) => Fit(movedFrom(s))
         /\ movedFrom(s).alive = s.alive
         /\ Typed(x, destroy(s)) /\ destroy(s).alive = "none"
         /\ \A p \in Contents(x, s.hasValue) :
              /\ Typed(x, [s EXCEPT !.val = p])
              /\ Fit(s) => Fit([s EXCEPT !.val = p])
<1>1. s \in Storage /\ s.hasValue \in BOOLEAN
  BY DEF Typed, Storage
<1>2. Moved \in Contents(x, s.hasValue) /\ Contents(x, s.hasValue) \subseteq Payload
  BY <1>1, ContentsFacts
<1>3. payload(s) \in Contents(x, s.hasValue)
  BY <1>2 DEF payload, Typed
<1>4. ASSUME NEW p \in Contents(x, s.hasValue)
      PROVE  /\ Typed(x, [s EXCEPT !.val = p])
             /\ Fit(s) => Fit([s EXCEPT !.val = p])
  <2>1. p \in Payload
    BY <1>2
  <2>2. Typed(x, [s EXCEPT !.val = p])
    BY <1>1, <2>1 DEF Typed, Storage
  <2>3. Fit(s) => Fit([s EXCEPT !.val = p])
    BY <1>1 DEF Fit, Sound, member, Storage
  <2> QED
    BY <2>2, <2>3
<1>5. /\ Typed(x, movedFrom(s)) /\ movedFrom(s).hasValue = s.hasValue
      /\ Fit(s) => Fit(movedFrom(s))
      /\ movedFrom(s).alive = s.alive
  <2>1. movedFrom(s) = s \/ movedFrom(s) = [s EXCEPT !.val = Moved]
    BY DEF movedFrom
  <2>2. [s EXCEPT !.val = Moved].hasValue = s.hasValue
           /\ [s EXCEPT !.val = Moved].alive = s.alive
    BY <1>1 DEF Storage
  <2> QED
    BY <1>2, <1>4, <2>1, <2>2
<1>6. Typed(x, destroy(s)) /\ destroy(s).alive = "none"
  <2>1. Moved \in Contents(x, FALSE) /\ Moved \in Payload
    BY ContentsFacts DEF Payload
  <2> QED
    BY <1>1, <2>1 DEF Typed, Storage, destroy
<1> QED
  BY <1>1, <1>3, <1>4, <1>5, <1>6

(* What constructFromResult(), assignFromResult() and the operations they  *)
(* are made of leave in s, given the storage r of the other result and the *)
(* payload p that comes from it.                                           *)
LEMMA FromResultTyped ==
  ASSUME NEW x, NEW s, Typed(x, s), NEW r, r.hasValue \in BOOLEAN,
         NEW p \in Contents(x, r.hasValue)
  PROVE  /\ Typed(x, constructFromResult(s, r, p))
         /\ s.alive = "none" => Fit(constructFromResult(s, r, p))
         /\ Typed(x, assignFromResult(s, r, p))
         /\ Fit(s) => Fit(assignFromResult(s, r, p))
         /\ Typed(x, thrownInto(s, r.hasValue))
<1>1. ASSUME NEW t, Typed(x, t)
      PROVE  /\ Typed(x, constructFromResult(t, r, p))
             /\ t.alive = "none" => Fit(constructFromResult(t, r, p))
  <2>1. t \in Storage
    BY <1>1, ReadTyped
  <2>2. CASE r.hasValue
    <3>1. constructFromResult(t, r, p) = construct(t, "value", p)
      BY <2>2 DEF constructFromResult, constructValue
    <3>2. p \in Contents(x, "value" = "value")
      BY <2>2
    <3> QED
      BY <2>1, <3>1, <3>2, BuiltTyped
  <2>3. CASE ~r.hasValue
    <3>1. constructFromResult(t, r, p) = construct(t, "error", p)
      BY <2>3 DEF constructFromResult, constructError
    <3>2. p \in Contents(x, "error" = "value")
      <4>1. r.hasValue = ("error" = "value")
        BY <2>3
      <4> QED
        BY <4>1
    <3> QED
      BY <2>1, <3>1, <3>2, BuiltTyped
  <2> QED
    BY <2>2, <2>3
<1>2. Typed(x, destroy(s)) /\ destroy(s).alive = "none"
  BY ReadTyped
<1>3. CASE s.hasValue # r.hasValue
  <2>1. assignFromResult(s, r, p) = constructFromResult(destroy(s), r, p)
    BY <1>3 DEF assignFromResult
  <2> QED
    BY <1>1, <1>2, <1>3, <2>1 DEF thrownInto
<1>4. CASE s.hasValue = r.hasValue
  <2>1. assignFromResult(s, r, p) = [s EXCEPT !.val = p]
    BY <1>4 DEF assignFromResult
  <2> QED
    BY <1>1, <1>4, <2>1, ReadTyped DEF thrownInto
<1> QED
  BY <1>3, <1>4

(* The same for an assignment of a value, of an error.                     *)
LEMMA PutTyped ==
  ASSUME NEW x, NEW s, Typed(x, s)
  PROVE  /\ \A v \in Contents(x, TRUE) :
              /\ Typed(x, assignValue(s, v))
              /\ Fit(s) => Fit(assignValue(s, v))
         /\ \A e \in Contents(x, FALSE) :
              /\ Typed(x, assignError(s, e))
              /\ Fit(s) => Fit(assignError(s, e))
         /\ \A h \in BOOLEAN : Typed(x, thrownInto(s, h))
<1>1. /\ Typed(x, destroy(s)) /\ destroy(s).alive = "none"
      /\ destroy(s) \in Storage /\ s.hasValue \in BOOLEAN
  <2>1. Typed(x, destroy(s))
    BY ReadTyped
  <2> QED
    BY <2>1, ReadTyped
<1>2. ASSUME NEW v \in Contents(x, TRUE)
      PROVE  Typed(x, assignValue(s, v)) /\ (Fit(s) => Fit(assignValue(s, v)))
  <2>1. CASE s.hasValue
    <3>1. assignValue(s, v) = [s EXCEPT !.val = v] /\ v \in Contents(x, s.hasValue)
      <4>1. s.hasValue = TRUE
        BY <1>1, <2>1
      <4> QED
        BY <2>1, <4>1 DEF assignValue
    <3>2. /\ Typed(x, [s EXCEPT !.val = v])
          /\ Fit(s) => Fit([s EXCEPT !.val = v])
      BY <3>1, ReadTyped
    <3> QED
      BY <3>1, <3>2
  <2>2. CASE ~s.hasValue
    <3>1. assignValue(s, v) = construct(destroy(s), "value", v)
      BY <2>2 DEF assignValue, constructValue
    <3>2. v \in Contents(x, "value" = "value")
      OBVIOUS
    <3> QED
      BY <1>1, <3>1, <3>2, BuiltTyped
  <2> QED
    BY <2>1, <2>2
<1>3. ASSUME NEW e \in Contents(x, FALSE)
      PROVE  Typed(x, assignError(s, e)) /\ (Fit(s) => Fit(assignError(s, e)))
  <2>1. CASE s.hasValue
    <3>1. assignError(s, e) = construct(destroy(s), "error", e)
      BY <2>1 DEF assignError, constructError
    <3>2. e \in Contents(x, "error" = "value")
      <4>1. ("error" = "value") = FALSE
        OBVIOUS
      <4> QED
        BY <4>1
    <3> QED
      BY <1>1, <3>1, <3>2, BuiltTyped
  <2>2. CASE ~s.hasValue
    <3>1. assignError(s, e) = [s EXCEPT !.val = e] /\ e \in Contents(x, s.hasValue)
      <4>1. s.hasValue = FALSE
        BY <1>1, <2>2
      <4> QED
        BY <2>2, <4>1 DEF assignError
    <3>2. /\ Typed(x, [s EXCEPT !.val = e])
          /\ Fit(s) => Fit([s EXCEPT !.val = e])
      BY <3>1, ReadTyped
    <3> QED
      BY <3>1, <3>2
  <2> QED
    BY <2>1, <2>2
<1>4. \A h \in BOOLEAN : Typed(x, thrownInto(s, h))
  BY <1>1 DEF thrownInto
<1> QED
  BY <1>2, <1>3, <1>4

(* A step that writes two results and leaves the others alone, each write  *)
(* typed, and sound and of live members unless something was thrown.       *)
LEMMA TwoWrites ==
  ASSUME ResultInv, NEW x \in Results, NEW y \in Results, NEW a, NEW b,
         Typed(x, a), Typed(y, b),
         obj' = [[obj EXCEPT ![x] = a] EXCEPT ![y] = b],
         FailureType', ub' \in BOOLEAN, threw' \in BOOLEAN, threw => threw',
         ~threw' => ~ub' /\ Fit(a) /\ Fit(b)
  PROVE  ResultInv'
<1>1. a \in Storage /\ b \in Storage
  BY DEF Typed
<1>2. obj' \in [Results -> Storage]
  BY <1>1 DEF ResultInv
<1>3. \A z \in Results : \/ obj'[z] = b /\ z = y
                         \/ obj'[z] = a /\ z = x
                         \/ obj'[z] = obj[z]
  BY DEF ResultInv
<1>4. \A z \in Results : Typed(z, obj'[z])
  BY <1>3 DEF ResultInv
<1>5. ~threw' => \A z \in Results : Fit(obj'[z])
  BY <1>3 DEF ResultInv
<1> QED
  BY <1>2, <1>4, <1>5 DEF ResultInv

LEMMA OneWrite ==
  ASSUME ResultInv, NEW x \in Results, NEW a, Typed(x, a),
         obj' = [obj EXCEPT ![x] = a],
         FailureType', ub' \in BOOLEAN, threw' \in BOOLEAN, threw => threw',
         ~threw' => ~ub' /\ Fit(a)
  PROVE  ResultInv'
<1>1. obj' = [[obj EXCEPT ![x] = a] EXCEPT ![x] = a]
  BY DEF ResultInv
<1> QED
  BY <1>1, TwoWrites

LEMMA NoWrite ==
  ASSUME ResultInv, obj' = obj, FailureType', ub' \in BOOLEAN,
         threw' \in BOOLEAN, threw => threw', ~threw' => ~ub'
  PROVE  ResultInv'
BY DEF ResultInv

(* As long as nothing was thrown, the members that are used are alive.     *)
LEMMA UsesAlive ==
  ASSUME ResultInv, NEW S \in SUBSET Results, Uses(S),
         \A z \in S : Exists(z)
  PROVE  ub' \in BOOLEAN /\ (~threw => ~ub')
<1>1. ub' \in BOOLEAN
  BY DEF Uses, ResultInv
<1>2. ~threw => ~ub'
  BY DEF Uses, ResultInv, Exists, Fit
<1> QED
  BY <1>1, <1>2

(* The steps that construct a result from another one: it has become r.    *)
LEMMA ConstructStep ==
  ASSUME ResultInv, NEW x \in Results, NEW y \in Results, NEW r, NEW mv,
         ~Exists(x), Exists(y), Typed(x, r), Fit(r),
         obj' = [obj EXCEPT ![x] = r, ![y] = IF mv THEN movedFrom(@) ELSE @],
         Uses({y}), failure' = failure, threw' = threw
  PROVE  ResultInv'
<1>1. Typed(y, obj[y]) /\ (~threw => Fit(obj[y]))
  BY DEF ResultInv
<1> DEFINE b == IF mv THEN movedFrom(obj[y]) ELSE obj[y]
<1>2. Typed(y, b) /\ (~threw => Fit(b))
  BY <1>1, ReadTyped
<1>3. obj' = [[obj EXCEPT ![x] = r] EXCEPT ![y] = b]
  <2>1. x # y /\ obj \in [Results -> Storage]
    BY DEF ResultInv
  <2> QED
    BY <2>1
<1>4. ub' \in BOOLEAN /\ (~threw => ~ub')
  BY UsesAlive
<1>5. FailureType' /\ threw' \in BOOLEAN
  BY DEF ResultInv, FailureType
<1> HIDE DEF b
<1> QED
  BY <1>2, <1>3, <1>4, <1>5, TwoWrites

LEMMA InPlaceStep ==
  ASSUME ResultInv, NEW x \in Results, NEW m \in {"value", "error"},
         NEW p \in Contents(x, m = "value"), InPlace(x, m, p)
  PROVE  ResultInv'
<1>1. Typed(x, alternative(m, p)) /\ Fit(alternative(m, p))
  BY BuiltTyped DEF Storage, ResultInv
<1> QED
  BY <1>1, OneWrite DEF InPlace, ResultInv, FailureType

LEMMA ConstructThrowsStep ==
  ASSUME ResultInv, NEW x, NEW y, ConstructThrows(x, y)
  PROVE  ResultInv'
BY NoWrite DEF ConstructThrows, Throws, ResultInv, FailureType

LEMMA AssignFromStep ==
  ASSUME ResultInv, NEW name, NEW x \in Results, NEW y \in Results, NEW mv,
         NEW p \in Contents(x, obj[y].hasValue), AssignFrom(name, x, y, p, mv)
  PROVE  ResultInv'
<1> DEFINE r == assignFromResult(obj[x], obj[y], p)
           a == IF mv /\ x = y THEN movedFrom(r) ELSE r
           b == IF mv THEN movedFrom(obj[y]) ELSE obj[y]
<1>1. Typed(x, obj[x]) /\ (~threw => Fit(obj[x]))
  BY DEF ResultInv
<1>2. Typed(y, obj[y]) /\ (~threw => Fit(obj[y])) /\ obj[y].hasValue \in BOOLEAN
  BY ReadTyped DEF ResultInv
<1>3. Typed(x, r) /\ (~threw => Fit(r))
  BY <1>1, <1>2, FromResultTyped
<1>4. Typed(x, a) /\ (~threw => Fit(a))
  BY <1>3, ReadTyped
<1>5. Typed(y, b) /\ (~threw => Fit(b))
  BY <1>2, ReadTyped
<1>6. obj' = [[obj EXCEPT ![y] = b] EXCEPT ![x] = a]
  BY DEF AssignFrom
<1>7. ub' \in BOOLEAN /\ (~threw => ~ub')
  BY UsesAlive DEF AssignFrom
<1>8. FailureType' /\ threw' \in BOOLEAN /\ threw' = threw
  BY DEF AssignFrom, ResultInv, FailureType
<1> HIDE DEF a, b
<1> QED
  BY <1>4, <1>5, <1>6, <1>7, <1>8, TwoWrites

LEMMA AssignThrowsStep ==
  ASSUME ResultInv, NEW x \in Results, NEW y \in Results, AssignThrows(x, y)
  PROVE  ResultInv'
<1>1. Typed(x, obj[x]) /\ obj[y].hasValue \in BOOLEAN
  BY ReadTyped DEF ResultInv
<1>2. Typed(x, thrownInto(obj[x], obj[y].hasValue))
  BY <1>1, PutTyped
<1>3. ub' \in BOOLEAN
  BY UsesAlive DEF AssignThrows
<1>4. FailureType' /\ threw' = TRUE
  BY DEF AssignThrows, Throws, ResultInv, FailureType
<1>5. obj' = [obj EXCEPT ![x] = thrownInto(obj[x], obj[y].hasValue)]
  BY DEF AssignThrows
<1> QED
  BY <1>2, <1>3, <1>4, <1>5, OneWrite

LEMMA AssignStep ==
  ASSUME ResultInv, NEW x \in Results, NEW r, Typed(x, r),
         Fit(obj[x]) => Fit(r), Assign(x, r), FailureType'
  PROVE  ResultInv'
<1>1. ub' \in BOOLEAN /\ (~threw => ~ub') /\ threw' = threw
  BY UsesAlive DEF Assign
<1>2. (~threw => Fit(r)) /\ threw' \in BOOLEAN
  BY <1>1 DEF ResultInv
<1>3. obj' = [obj EXCEPT ![x] = r]
  BY DEF Assign
<1> QED
  BY <1>1, <1>2, <1>3, OneWrite

LEMMA PutThrowsStep ==
  ASSUME ResultInv, NEW x \in Results, NEW h \in BOOLEAN, PutThrows(x, h)
  PROVE  ResultInv'
<1>1. Typed(x, thrownInto(obj[x], h))
  BY PutTyped DEF ResultInv
<1>2. ub' \in BOOLEAN
  BY UsesAlive DEF PutThrows
<1>3. FailureType' /\ threw' = TRUE
  BY DEF PutThrows, Throws, ResultInv, FailureType
<1>4. obj' = [obj EXCEPT ![x] = thrownInto(obj[x], h)]
  BY DEF PutThrows
<1> QED
  BY <1>1, <1>2, <1>3, <1>4, OneWrite

LEMMA LookStep ==
  ASSUME ResultInv, NEW x \in Results, NEW mv, Exists(x), Look(x, mv)
  PROVE  ResultInv'
<1> DEFINE a == IF mv THEN movedFrom(obj[x]) ELSE obj[x]
<1>1. Typed(x, obj[x]) /\ (~threw => Fit(obj[x]))
  BY DEF ResultInv
<1>2. Typed(x, a) /\ (~threw => Fit(a))
  BY <1>1, ReadTyped
<1>3. ub' \in BOOLEAN /\ (~threw => ~ub')
  BY UsesAlive DEF Look
<1>4. FailureType' /\ threw' \in BOOLEAN /\ threw' = threw
  BY DEF Look, ResultInv, FailureType
<1>5. obj' = [obj EXCEPT ![x] = a]
  BY DEF Look
<1> HIDE DEF a
<1> QED
  BY <1>2, <1>3, <1>4, <1>5, OneWrite

LEMMA MappedStep ==
  ASSUME ResultInv, NEW name, NEW x \in Results, NEW y \in Results, NEW r,
         NEW mv, Typed(x, r), Fit(r), Mapped(name, x, y, r, mv)
  PROVE  ResultInv'
BY ConstructStep DEF Mapped

LEMMA ConstructFromStep ==
  ASSUME ResultInv, NEW name, NEW x \in Results, NEW y \in Results, NEW r,
         NEW mv, Typed(x, r), Fit(r), ConstructFrom(name, x, y, r, mv)
  PROVE  ResultInv'
BY ConstructStep DEF ConstructFrom

(* A Failure gives an error, and keeps one or loses it.                    *)
LEMMA FailureTaken ==
  ASSUME FailureType, NEW f \in Failures, HasFailure(f), NEW x, NEW mv
  PROVE  /\ failure[f] \in Contents(x, FALSE)
         /\ failure' = [failure EXCEPT ![f] = IF mv THEN Moved ELSE @]
              => FailureType'
<1>1. failure[f] \in Contents(x, FALSE)
  BY DEF FailureType, HasFailure, Contents
<1>2. failure' = [failure EXCEPT ![f] = IF mv THEN Moved ELSE @] => FailureType'
  BY DEF FailureType
<1> QED
  BY <1>1, <1>2

LEMMA FailureStep == ASSUME ResultInv, FailureNext PROVE ResultInv'
<1>1. UNCHANGED <<obj, ub, threw>>
  BY DEF FailureNext, failureConstruct, fail, failureSet, failureCopy,
         failureSwap, failureTake, failureDestroy
<1>2. FailureType'
  BY DEF FailureNext, failureConstruct, fail, failureSet, failureCopy,
         failureSwap, failureTake, failureDestroy, ResultInv, FailureType,
         HasFailure
<1> QED
  BY <1>1, <1>2 DEF ResultInv

LEMMA DestructorStep ==
  ASSUME ResultInv, NEW x \in Results, destructor(x)
  PROVE  ResultInv'
<1>1. Typed(x, Absent) /\ Fit(Absent)
  BY DEF Typed, Absent, Storage, Contents, Payload, Fit
<1>2. ub' \in BOOLEAN /\ (~threw => ~ub')
  BY UsesAlive DEF destructor
<1>3. FailureType' /\ threw' \in BOOLEAN /\ threw' = threw
  BY DEF destructor, ResultInv, FailureType
<1>4. obj' = [obj EXCEPT ![x] = Absent]
  BY DEF destructor
<1> QED
  BY <1>1, <1>2, <1>3, <1>4, OneWrite

(* swap(): with different alternatives it is three moves, each of which    *)
(* may throw.                                                              *)
LEMMA SwapStep ==
  ASSUME ResultInv, NEW x \in Results, NEW y \in Results, SameType(x, y),
         Swap(x, y)
  PROVE  ResultInv'
<1>1. /\ Typed(x, obj[x]) /\ Typed(y, obj[y])
      /\ ~threw => Fit(obj[x]) /\ Fit(obj[y])
      /\ obj[x].hasValue \in BOOLEAN /\ obj[y].hasValue \in BOOLEAN
  BY ReadTyped DEF ResultInv
<1>2. \A h \in BOOLEAN : Contents(x, h) = Contents(y, h)
  BY ContentsFacts
<1>3. /\ Exists(x) /\ Exists(y) /\ x # y /\ FailureType'
      /\ obj \in [Results -> Storage] /\ threw \in BOOLEAN
  BY DEF Swap, ResultInv, FailureType
<1>4. Uses({x, y}) => ub' \in BOOLEAN /\ (~threw => ~ub')
  BY <1>3, UsesAlive
<1>5. CASE /\ obj[x].hasValue = obj[y].hasValue
           /\ obj' = [obj EXCEPT ![x].val = obj[y].val, ![y].val = obj[x].val]
           /\ Uses({x, y}) /\ threw' = threw
  <2> DEFINE a == [obj[x] EXCEPT !.val = obj[y].val]
             b == [obj[y] EXCEPT !.val = obj[x].val]
  <2>1. obj[y].val \in Contents(x, obj[x].hasValue)
          /\ obj[x].val \in Contents(y, obj[y].hasValue)
    BY <1>1, <1>2, <1>5 DEF Typed
  <2>2. /\ Typed(x, a) /\ Typed(y, b) /\ (~threw => Fit(a) /\ Fit(b))
    BY <1>1, <2>1, ReadTyped
  <2>3. obj' = [[obj EXCEPT ![x] = a] EXCEPT ![y] = b]
    BY <1>3, <1>5
  <2> HIDE DEF a, b
  <2> QED
    BY <1>3, <1>4, <1>5, <2>2, <2>3, TwoWrites
<1> DEFINE tmp == constructFromResult(monostate(FALSE), obj[x], payload(obj[x]))
           a == assignFromResult(movedFrom(obj[x]), obj[y], payload(obj[y]))
           b == assignFromResult(movedFrom(obj[y]), tmp, payload(tmp))
<1>6. Typed(x, a) /\ (~threw => Fit(a))
  <2>1. payload(obj[y]) \in Contents(x, obj[y].hasValue)
    BY <1>1, <1>2, ReadTyped
  <2>2. Typed(x, movedFrom(obj[x])) /\ (~threw => Fit(movedFrom(obj[x])))
    BY <1>1, ReadTyped
  <2> QED
    BY <1>1, <2>1, <2>2, FromResultTyped
<1>7. Typed(y, b) /\ (~threw => Fit(b))
  <2>1. payload(obj[x]) \in Contents(y, obj[x].hasValue)
    BY <1>1, <1>2, ReadTyped
  <2>2. Typed(y, monostate(FALSE))
    BY ContentsFacts DEF Typed, monostate, Storage, Payload
  <2>3. Typed(y, tmp)
    <3>1. obj[x].hasValue \in BOOLEAN
      BY <1>1
    <3>2. \A s : Typed(y, s) =>
                  Typed(y, constructFromResult(s, obj[x], payload(obj[x])))
      BY <2>1, <3>1, FromResultTyped
    <3> QED
      BY <2>2, <3>2, Zenon
  <2>4. payload(tmp) \in Contents(y, tmp.hasValue) /\ tmp.hasValue \in BOOLEAN
    BY <2>3, ReadTyped
  <2>5. Typed(y, movedFrom(obj[y])) /\ (~threw => Fit(movedFrom(obj[y])))
    BY <1>1, ReadTyped
  <2> HIDE DEF tmp
  <2> QED
    BY <2>4, <2>5, FromResultTyped
<1>8. Exchanged(x, y) = [[obj EXCEPT ![x] = a] EXCEPT ![y] = b]
  BY <1>3 DEF Exchanged
<1>9. CASE obj' = Exchanged(x, y) /\ Uses({x, y}) /\ threw' = threw
  <2> HIDE DEF a, b
  <2> QED
    BY <1>3, <1>4, <1>6, <1>7, <1>8, <1>9, TwoWrites
<1>10. CASE SwapThrows(x, y)
  <2>1. threw' = TRUE
    BY <1>10 DEF SwapThrows, Throws
  <2>2. CASE obj' = obj /\ ub' = TRUE
    BY <1>3, <2>1, <2>2, NoWrite
  <2>3. CASE /\ obj' = [obj EXCEPT ![x] = thrownInto(@, obj[y].hasValue)]
             /\ Uses({x, y})
    <3>1. Typed(x, thrownInto(obj[x], obj[y].hasValue))
      BY <1>1, PutTyped
    <3> QED
      BY <1>3, <1>4, <2>1, <2>3, <3>1, OneWrite
  <2>4. CASE /\ obj' = [Exchanged(x, y) EXCEPT ![y] =
                          thrownInto(obj[y], obj[x].hasValue)]
             /\ Uses({x, y})
    <3> DEFINE t == thrownInto(obj[y], obj[x].hasValue)
    <3>1. Typed(y, t)
      BY <1>1, PutTyped
    <3> HIDE DEF a, b, t
    <3>2. obj' = [[obj EXCEPT ![x] = a] EXCEPT ![y] = t]
      <4>1. obj' = [[[obj EXCEPT ![x] = a] EXCEPT ![y] = b] EXCEPT ![y] = t]
        BY <1>8, <2>4 DEF t
      <4> QED
        BY <1>3, <4>1
    <3> QED
      BY <1>3, <1>4, <1>6, <2>1, <2>4, <3>1, <3>2, TwoWrites
  <2> QED
    BY <1>10, <2>2, <2>3, <2>4 DEF SwapThrows
<1> QED
  BY <1>5, <1>9, <1>10 DEF Swap

(* What is read of a result, converted or not, goes into one of its type.  *)
LEMMA PayloadTyped ==
  ASSUME ResultInv, NEW x \in Results, NEW y \in Results
  PROVE  /\ obj[y].hasValue \in BOOLEAN
         /\ SameType(x, y) \/ ~obj[y].hasValue =>
              /\ payload(obj[y]) \in Contents(x, obj[y].hasValue)
              /\ Conv[payload(obj[y])] \in Contents(x, obj[y].hasValue)
<1>1. Typed(y, obj[y])
  BY DEF ResultInv
<1>2. payload(obj[y]) \in Contents(y, obj[y].hasValue) /\ obj[y].hasValue \in BOOLEAN
  BY <1>1, ReadTyped
<1>3. SameType(x, y) \/ ~obj[y].hasValue =>
        Contents(x, obj[y].hasValue) = Contents(y, obj[y].hasValue)
  BY <1>2, ContentsFacts DEF Contents
<1> QED
  BY <1>2, <1>3, ContentsFacts

(* The two ways to fill a new result from another one.                     *)
LEMMA NewFromResult ==
  ASSUME ResultInv, NEW x \in Results, NEW y \in Results, NEW flag \in BOOLEAN,
         NEW p \in Contents(x, obj[y].hasValue)
  PROVE  /\ Typed(x, constructFromResult(monostate(flag), obj[y], p))
         /\ Fit(constructFromResult(monostate(flag), obj[y], p))
<1> DEFINE s == monostate(flag)
<1>1. Typed(x, s) /\ s.alive = "none"
  BY ContentsFacts DEF Typed, monostate, Storage, Payload
<1>2. obj[y].hasValue \in BOOLEAN
  BY PayloadTyped
<1> HIDE DEF s
<1>3. /\ Typed(x, constructFromResult(s, obj[y], p))
      /\ Fit(constructFromResult(s, obj[y], p))
  BY <1>1, <1>2, FromResultTyped
<1> QED
  BY <1>3, Zenon DEF s

LEMMA NewErrorFromResult ==
  ASSUME ResultInv, NEW x \in VoidObjs, NEW y \in Results, NEW flag \in BOOLEAN
  PROVE  LET r == constructErrorFromResult(monostate(flag), obj[y],
                                           Conv[payload(obj[y])])
         IN Typed(x, r) /\ Fit(r)
<1> DEFINE s == monostate(flag)
           p == Conv[payload(obj[y])]
<1>1. s \in Storage /\ s.alive = "none"
  BY DEF monostate, Storage, Payload
<1>2. x \in Results
  BY DEF Results
<1>3. CASE obj[y].hasValue
  <2>1. constructErrorFromResult(s, obj[y], p) = construct(s, "value", Unit)
    BY <1>3 DEF constructErrorFromResult, constructValue
  <2>2. Unit \in Contents(x, "value" = "value")
    BY DEF Contents, ValuesOf
  <2> HIDE DEF s, p
  <2>3. Typed(x, construct(s, "value", Unit)) /\ Fit(construct(s, "value", Unit))
    BY <1>1, <2>2, BuiltTyped
  <2>4. /\ Typed(x, constructErrorFromResult(s, obj[y], p))
        /\ Fit(constructErrorFromResult(s, obj[y], p))
    BY <2>1, <2>3
  <2> QED
    BY <2>4, Zenon DEF s, p
<1>4. CASE ~obj[y].hasValue
  <2>1. constructErrorFromResult(s, obj[y], p) = construct(s, "error", p)
    BY <1>4 DEF constructErrorFromResult, constructError
  <2>2. p \in Contents(x, "error" = "value")
    <3>1. obj[y].hasValue = ("error" = "value")
      BY <1>4, PayloadTyped
    <3> QED
      BY <1>2, <1>4, <3>1, PayloadTyped
  <2> HIDE DEF s, p
  <2>3. Typed(x, construct(s, "error", p)) /\ Fit(construct(s, "error", p))
    BY <1>1, <2>2, BuiltTyped
  <2>4. /\ Typed(x, constructErrorFromResult(s, obj[y], p))
        /\ Fit(constructErrorFromResult(s, obj[y], p))
    BY <2>1, <2>3
  <2> QED
    BY <2>4, Zenon DEF s, p
<1> QED
  BY <1>3, <1>4

(* What the functions given to map() and its likes may make of a result.   *)
LEMMA AlternativeTyped ==
  ASSUME NEW x
  PROVE  /\ \A v \in Contents(x, TRUE) :
              Typed(x, alternative("value", v)) /\ Fit(alternative("value", v))
         /\ \A e \in Contents(x, FALSE) :
              Typed(x, alternative("error", e)) /\ Fit(alternative("error", e))
         /\ \A r \in Returned(x) : Typed(x, r) /\ Fit(r)
<1>1. ASSUME NEW v \in Contents(x, TRUE)
      PROVE  Typed(x, alternative("value", v)) /\ Fit(alternative("value", v))
  <2>1. v \in Contents(x, "value" = "value") /\ Absent \in Storage
    BY DEF Absent, Storage, Payload
  <2> QED
    BY <2>1, BuiltTyped
<1>2. ASSUME NEW e \in Contents(x, FALSE)
      PROVE  Typed(x, alternative("error", e)) /\ Fit(alternative("error", e))
  <2>1. ("error" = "value") = FALSE
    OBVIOUS
  <2>2. e \in Contents(x, "error" = "value") /\ Absent \in Storage
    BY <2>1 DEF Absent, Storage, Payload
  <2> QED
    BY <2>2, BuiltTyped
<1>3. ValuesOf(x) \subseteq Contents(x, TRUE) /\ Errors \subseteq Contents(x, FALSE)
  BY DEF Contents
<1>4. \A r \in Returned(x) : Typed(x, r) /\ Fit(r)
  BY <1>1, <1>2, <1>3 DEF Returned
<1> QED
  BY <1>1, <1>2, <1>4

(* The assignments and the constructions of both classes.                  *)
LEMMA ConstructionSteps ==
  ASSUME ResultInv, NEW x \in Results, NEW y \in Results, NEW mv, NEW name,
         SameType(x, y),
         \/ \E flag \in BOOLEAN :
              ConstructFrom(name, x, y,
                constructFromResult(monostate(flag), obj[y], payload(obj[y])), mv)
         \/ \E flag \in BOOLEAN :
              ConstructFrom(name, x, y,
                constructFromResult(monostate(flag), obj[y],
                                    Conv[payload(obj[y])]), mv)
         \/ ConstructThrows(x, y)
         \/ AssignFrom(name, x, y, payload(obj[y]), mv)
         \/ AssignFrom(name, x, y, Conv[payload(obj[y])], mv)
         \/ AssignThrows(x, y)
  PROVE  ResultInv'
<1>1. /\ payload(obj[y]) \in Contents(x, obj[y].hasValue)
      /\ Conv[payload(obj[y])] \in Contents(x, obj[y].hasValue)
  BY PayloadTyped
<1>2. ASSUME NEW p \in Contents(x, obj[y].hasValue), NEW flag \in BOOLEAN,
             ConstructFrom(name, x, y,
               constructFromResult(monostate(flag), obj[y], p), mv)
      PROVE  ResultInv'
  <2> DEFINE r == constructFromResult(monostate(flag), obj[y], p)
  <2>1. Typed(x, r) /\ Fit(r)
    BY NewFromResult
  <2>2. ConstructFrom(name, x, y, r, mv)
    BY <1>2
  <2> HIDE DEF r
  <2> QED
    BY <2>1, <2>2, ConstructFromStep
<1>3. ASSUME NEW p \in Contents(x, obj[y].hasValue), AssignFrom(name, x, y, p, mv)
      PROVE  ResultInv'
  BY <1>3, AssignFromStep
<1> QED
  BY <1>1, <1>2, <1>3, ConstructThrowsStep, AssignThrowsStep

(* The steps that take the error out of a Failure.                         *)
LEMMA FromFailureSteps ==
  ASSUME ResultInv, NEW x \in Results, NEW f \in Failures, NEW mv,
         HasFailure(f),
         \/ /\ ~Exists(x)
            /\ obj' = [obj EXCEPT ![x] = alternative("error", failure[f])]
            /\ failure' = [failure EXCEPT ![f] = IF mv THEN Moved ELSE @]
            /\ UNCHANGED <<ub, threw>>
         \/ /\ Assign(x, assignError(obj[x], failure[f]))
            /\ failure' = [failure EXCEPT ![f] = IF mv THEN Moved ELSE @]
         \/ PutThrows(x, FALSE)
  PROVE  ResultInv'
<1>1. FailureType /\ Typed(x, obj[x])
  BY DEF ResultInv
<1>2. /\ failure[f] \in Contents(x, FALSE)
      /\ failure' = [failure EXCEPT ![f] = IF mv THEN Moved ELSE @] => FailureType'
  BY <1>1, FailureTaken
<1>3. CASE /\ obj' = [obj EXCEPT ![x] = alternative("error", failure[f])]
           /\ failure' = [failure EXCEPT ![f] = IF mv THEN Moved ELSE @]
           /\ UNCHANGED <<ub, threw>>
  <2> DEFINE a == alternative("error", failure[f])
  <2>1. Typed(x, a) /\ Fit(a)
    BY <1>2, AlternativeTyped
  <2>2. ub' \in BOOLEAN /\ threw' \in BOOLEAN /\ (~threw' => ~ub')
    BY <1>3 DEF ResultInv
  <2> HIDE DEF a
  <2>3. obj' = [obj EXCEPT ![x] = a]
    BY <1>3 DEF a
  <2> QED
    BY <1>2, <1>3, <2>1, <2>2, <2>3, OneWrite
<1>4. CASE /\ Assign(x, assignError(obj[x], failure[f]))
           /\ failure' = [failure EXCEPT ![f] = IF mv THEN Moved ELSE @]
  <2> DEFINE a == assignError(obj[x], failure[f])
  <2>1. Typed(x, a) /\ (Fit(obj[x]) => Fit(a))
    BY <1>1, <1>2, PutTyped
  <2>2. Assign(x, a)
    BY <1>4
  <2> HIDE DEF a
  <2> QED
    BY <1>2, <1>4, <2>1, <2>2, AssignStep
<1> QED
  BY <1>3, <1>4, PutThrowsStep

(* The mapping functions: the result of the function given, or what the    *)
(* result holds and the function is not applied to.                        *)
LEMMA MappedSteps ==
  ASSUME ResultInv, NEW x \in Results, NEW y \in Results, NEW mv, NEW name,
         NEW r, Mapped(name, x, y, r, mv),
         \/ r \in Returned(x)
         \/ \E v \in ValuesOf(x) : r = alternative("value", v)
         \/ \E e \in Errors : r = alternative("error", e)
         \/ ~obj[y].hasValue /\ r = alternative("error", payload(obj[y]))
         \/ /\ obj[y].hasValue /\ SameType(x, y)
            /\ r = alternative("value", payload(obj[y]))
  PROVE  ResultInv'
<1>1. Typed(x, r) /\ Fit(r)
  <2>1. ValuesOf(x) \subseteq Contents(x, TRUE) /\ Errors \subseteq Contents(x, FALSE)
    BY DEF Contents
  <2>2. CASE ~obj[y].hasValue /\ r = alternative("error", payload(obj[y]))
    <3>1. obj[y].hasValue = FALSE
      BY <2>2, PayloadTyped
    <3> QED
      BY <2>2, <3>1, PayloadTyped, AlternativeTyped
  <2>3. CASE /\ obj[y].hasValue /\ SameType(x, y)
             /\ r = alternative("value", payload(obj[y]))
    <3>1. obj[y].hasValue = TRUE
      BY <2>3, PayloadTyped
    <3> QED
      BY <2>3, <3>1, PayloadTyped, AlternativeTyped
  <2> QED
    BY <2>1, <2>2, <2>3, AlternativeTyped
<1> QED
  BY <1>1, MappedStep

LEMMA DefaultValueFact == DefaultValue \in Values
BY ResultAssumption DEF DefaultValue

LEMMA ResultNextStep == ASSUME ResultInv, ResultNext PROVE ResultInv'
<1>1. PICK x \in Objs :
        \/ defaultConstruct(x) \/ arrow(x) \/ destructor(x)
        \/ \E v \in Values : inPlaceValue(x, v) \/ fromValue(x, v) \/ valueAssign(x, v)
        \/ \E e \in Errors : inPlaceError(x, e)
        \/ \E mv \in BOOLEAN :
             \/ \E f \in Failures : fromFailure(x, f, mv) \/ failureAssign(x, f, mv)
             \/ dereference(x, mv) \/ getValue(x, mv) \/ getError(x, mv)
             \/ valueOr(x, mv) \/ errorOr(x, mv)
             \/ \E y \in Objs :
                  \/ copyConstruct(x, y, mv) \/ convertConstruct(x, y, mv)
                  \/ copyAssign(x, y, mv) \/ convertAssign(x, y, mv)
                  \/ \E r \in Returned(x) : flatMapError(x, y, r, mv)
                  \/ \E e \in Errors : mapError(x, y, e, mv)
        \/ \E y \in Objs : swap(x, y)
  BY Zenon DEF ResultNext
<1>2. x \in Results /\ x \notin VoidObjs /\ Objs \subseteq Results
  BY ResultAssumption DEF Results
<1>3. /\ \A v \in Values : v \in Contents(x, "value" = "value")
                             /\ Conv[v] \in Contents(x, "value" = "value")
                             /\ v \in Contents(x, TRUE)
      /\ ValuesOf(x) = Values
  BY <1>2, ResultAssumption DEF Contents, ValuesOf
<1>4. \A e \in Errors : e \in Contents(x, "error" = "value")
  <2>1. ("error" = "value") = FALSE
    OBVIOUS
  <2> QED
    BY <2>1 DEF Contents
<1>5. \A y \in Objs : SameType(x, y) /\ y \in Results
  BY <1>2, ResultAssumption DEF SameType, Results
<1>6. CASE defaultConstruct(x) \/ \E v \in Values : inPlaceValue(x, v) \/ fromValue(x, v)
  BY <1>2, <1>3, <1>6, DefaultValueFact, InPlaceStep
     DEF defaultConstruct, inPlaceValue, fromValue
<1>7. CASE \E e \in Errors : inPlaceError(x, e)
  BY <1>2, <1>4, <1>7, InPlaceStep DEF inPlaceError
<1>8. ASSUME NEW v \in Values, valueAssign(x, v) PROVE ResultInv'
  <2>1. Typed(x, obj[x]) /\ FailureType
    BY <1>2 DEF ResultInv
  <2>2. CASE Assign(x, assignValue(obj[x], v)) /\ UNCHANGED failure
    <3> DEFINE a == assignValue(obj[x], v)
    <3>1. Typed(x, a) /\ (Fit(obj[x]) => Fit(a))
      BY <1>3, <2>1, PutTyped
    <3>2. Assign(x, a) /\ FailureType'
      BY <2>1, <2>2 DEF FailureType
    <3> HIDE DEF a
    <3> QED
      BY <1>2, <3>1, <3>2, AssignStep
  <2> QED
    BY <1>2, <1>8, <2>2, PutThrowsStep DEF valueAssign
<1>9. ASSUME NEW mv \in BOOLEAN,
             \/ arrow(x) \/ dereference(x, mv) \/ getValue(x, mv)
             \/ getError(x, mv) \/ valueOr(x, mv) \/ errorOr(x, mv)
      PROVE  ResultInv'
  BY <1>2, <1>9, LookStep DEF arrow, dereference, getValue, getError, valueOr,
                              errorOr, HasValue, HasError
<1>10. ASSUME NEW mv \in BOOLEAN, NEW f \in Failures,
              fromFailure(x, f, mv) \/ failureAssign(x, f, mv)
       PROVE  ResultInv'
  BY <1>2, <1>10, FromFailureSteps DEF fromFailure, failureAssign
<1>11. ASSUME NEW mv \in BOOLEAN, NEW y \in Objs,
              \/ copyConstruct(x, y, mv) \/ convertConstruct(x, y, mv)
              \/ copyAssign(x, y, mv) \/ convertAssign(x, y, mv)
       PROVE  ResultInv'
  BY <1>2, <1>5, <1>11, ConstructionSteps
     DEF copyConstruct, convertConstruct, copyAssign, convertAssign
<1>12. ASSUME NEW mv \in BOOLEAN, NEW y \in Objs, NEW r \in Returned(x),
              flatMapError(x, y, r, mv)
       PROVE  ResultInv'
  BY <1>2, <1>5, <1>12, MappedSteps DEF flatMapError
<1>13. ASSUME NEW mv \in BOOLEAN, NEW y \in Objs, NEW e \in Errors,
              mapError(x, y, e, mv)
       PROVE  ResultInv'
  BY <1>2, <1>5, <1>13, MappedSteps DEF mapError
<1>14. ASSUME NEW y \in Objs, swap(x, y) PROVE ResultInv'
  BY <1>2, <1>5, <1>14, SwapStep DEF swap
<1>15. CASE destructor(x)
  BY <1>2, <1>15, DestructorStep
<1>16. CASE arrow(x)
  BY <1>9, <1>16
<1> QED
  BY <1>1, <1>6, <1>7, <1>8, <1>9, <1>10, <1>11, <1>12, <1>13, <1>14, <1>15, <1>16

LEMMA VoidNextStep == ASSUME ResultInv, VoidNext PROVE ResultInv'
<1>1. PICK x \in VoidObjs :
        \/ voidDefault(x) \/ destructor(x)
        \/ \E e \in Errors : voidInPlaceError(x, e)
        \/ \E mv \in BOOLEAN :
             \/ \E f \in Failures :
                  voidFromFailure(x, f, mv) \/ voidFailureAssign(x, f, mv)
             \/ voidGetError(x, mv) \/ voidErrorOr(x, mv)
             \/ \E y \in VoidObjs : \/ voidCopyConstruct(x, y, mv)
                                    \/ voidCopyAssign(x, y, mv)
                                    \/ voidConvertAssign(x, y, mv)
             \/ \E y \in Results : voidConvertConstruct(x, y, mv)
             \/ \E y \in VoidObjs, e \in Errors : voidMapError(x, y, e, mv)
        \/ \E y \in VoidObjs : voidSwap(x, y)
  BY Zenon DEF VoidNext
<1>2. x \in Results /\ VoidObjs \subseteq Results /\ ValuesOf(x) = {Unit}
  BY DEF Results, ValuesOf
<1>3. Unit \in Contents(x, "value" = "value")
  BY <1>2 DEF Contents
<1>4. \A e \in Errors : e \in Contents(x, "error" = "value")
  <2>1. ("error" = "value") = FALSE
    OBVIOUS
  <2> QED
    BY <2>1 DEF Contents
<1>5. \A y \in VoidObjs : SameType(x, y) /\ y \in Results
  BY <1>2 DEF SameType
<1>6. CASE voidDefault(x)
  BY <1>2, <1>3, <1>6, InPlaceStep DEF voidDefault
<1>7. CASE \E e \in Errors : voidInPlaceError(x, e)
  BY <1>2, <1>4, <1>7, InPlaceStep DEF voidInPlaceError
<1>8. ASSUME NEW mv \in BOOLEAN, NEW f \in Failures,
             voidFromFailure(x, f, mv) \/ voidFailureAssign(x, f, mv)
      PROVE  ResultInv'
  BY <1>2, <1>8, FromFailureSteps DEF voidFromFailure, voidFailureAssign
<1>9. ASSUME NEW mv \in BOOLEAN, voidGetError(x, mv) \/ voidErrorOr(x, mv)
      PROVE  ResultInv'
  BY <1>2, <1>9, LookStep DEF voidGetError, voidErrorOr, HasError
<1>10. ASSUME NEW mv \in BOOLEAN, NEW y \in VoidObjs,
              \/ voidCopyConstruct(x, y, mv) \/ voidCopyAssign(x, y, mv)
              \/ voidConvertAssign(x, y, mv)
       PROVE  ResultInv'
  BY <1>2, <1>5, <1>10, ConstructionSteps
     DEF voidCopyConstruct, voidCopyAssign, voidConvertAssign
<1>11. ASSUME NEW mv \in BOOLEAN, NEW y \in Results,
              voidConvertConstruct(x, y, mv)
       PROVE  ResultInv'
  <2>1. ASSUME NEW flag \in BOOLEAN, NEW name, NEW mvs,
               ConstructFrom(name, x, y,
                 constructErrorFromResult(monostate(flag), obj[y],
                                          Conv[payload(obj[y])]), mvs)
        PROVE  ResultInv'
    <3> DEFINE r == constructErrorFromResult(monostate(flag), obj[y],
                                             Conv[payload(obj[y])])
    <3>1. Typed(x, r) /\ Fit(r)
      BY NewErrorFromResult
    <3>2. ConstructFrom(name, x, y, r, mvs)
      BY <2>1
    <3> HIDE DEF r
    <3> QED
      BY <1>2, <3>1, <3>2, ConstructFromStep
  <2> QED
    BY <1>11, <2>1, ConstructThrowsStep DEF voidConvertConstruct
<1>12. ASSUME NEW mv \in BOOLEAN, NEW y \in VoidObjs, NEW e \in Errors,
              voidMapError(x, y, e, mv)
       PROVE  ResultInv'
  BY <1>2, <1>5, <1>12, MappedSteps DEF voidMapError
<1>13. ASSUME NEW y \in VoidObjs, voidSwap(x, y) PROVE ResultInv'
  BY <1>2, <1>5, <1>13, SwapStep DEF voidSwap
<1>14. CASE destructor(x)
  BY <1>2, <1>14, DestructorStep
<1> QED
  BY <1>1, <1>6, <1>7, <1>8, <1>9, <1>10, <1>11, <1>12, <1>13, <1>14

LEMMA MapNextStep == ASSUME ResultInv, MapNext PROVE ResultInv'
<1>1. PICK x \in Results, y \in Results, mv \in BOOLEAN :
        \/ \E r \in Returned(x) : \/ flatMap(x, y, r, mv)
                                  \/ voidFlatMap(x, y, r, mv)
                                  \/ voidFlatMapError(x, y, r, mv)
        \/ \E v \in ValuesOf(x) : map(x, y, v, mv) \/ voidMap(x, y, v, mv)
  BY DEF MapNext
<1>2. ASSUME NEW r \in Returned(x), flatMap(x, y, r, mv) \/ voidFlatMap(x, y, r, mv)
      PROVE  ResultInv'
  BY <1>2, MappedSteps DEF flatMap, voidFlatMap
<1>3. ASSUME NEW r \in Returned(x), voidFlatMapError(x, y, r, mv)
      PROVE  ResultInv'
  <2>1. (IF x \in VoidObjs THEN Unit ELSE DefaultValue) \in ValuesOf(x)
    BY DefaultValueFact DEF ValuesOf
  <2> QED
    BY <1>3, <2>1, MappedSteps DEF voidFlatMapError
<1>4. ASSUME NEW v \in ValuesOf(x), map(x, y, v, mv) \/ voidMap(x, y, v, mv)
      PROVE  ResultInv'
  BY <1>4, MappedSteps DEF map, voidMap
<1> QED
  BY <1>1, <1>2, <1>3, <1>4

LEMMA InitResultInv == ASSUME Init PROVE ResultInv
<1>1. \A x : Typed(x, Absent) /\ Fit(Absent) /\ Absent \in Storage
  BY DEF Typed, Absent, Storage, Contents, Payload, Fit
<1> QED
  BY <1>1 DEF Init, ResultInv, FailureType

-----------------------------------------------------------------------------
(* Optionals.                                                              *)

(* An optional is absent, empty or holds a value: nothing ever leaves one  *)
(* in another state, not even an exception.                                *)
OptionalStates ==
  {O!Absent, O!empty} \cup {O!alternative(v) : v \in Values \cup {Moved}}

OptionalInv == opt \in [Opts -> OptionalStates]

AllInv == ResultInv /\ OptionalInv

(* The parts of an optional in each of its states.                         *)
LEMMA OptionalParts ==
  ASSUME NEW s \in OptionalStates
  PROVE  \/ s = O!Absent /\ s.alive = "absent" /\ ~s.hasValue /\ s.val = Unit
         \/ /\ s = O!empty /\ s.alive = "none" /\ ~s.hasValue /\ s.val = Unit
            /\ O!Sound(s)
         \/ /\ s = O!alternative(s.val) /\ s.alive = "value" /\ s.hasValue
            /\ s.val \in Values \cup {Moved} /\ O!Sound(s)
BY DEF OptionalStates, O!Absent, O!empty, O!alternative, O!Sound

(* Storage is known by its parts.                                          *)
LEMMA OptionalSame ==
  ASSUME NEW s \in O!Storage, NEW t \in O!Storage,
         s.alive = t.alive, s.hasValue = t.hasValue, s.val = t.val
  PROVE  s = t
BY SMT DEF O!Storage

LEMMA OptionalForms ==
  ASSUME NEW v \in Values \cup {Moved}
  PROVE  /\ OptionalStates \subseteq O!Storage
         /\ \A s \in O!Storage : s.alive = "value" /\ s.hasValue =>
              [s EXCEPT !.val = v] = O!alternative(v)
         /\ \A s \in O!Storage : s.alive = "none" /\ s.val = Unit =>
              [s EXCEPT !.hasValue = FALSE] = O!empty
<1>1. OptionalStates \subseteq O!Storage
  <2>1. O!Absent \in O!Storage /\ O!empty \in O!Storage
    BY DEF O!Storage, O!Absent, O!empty
  <2>2. \A w \in Values \cup {Moved} : O!alternative(w) \in O!Storage
    BY DEF O!Storage, O!alternative
  <2> QED
    BY <2>1, <2>2 DEF OptionalStates
<1>2. O!alternative(v) \in O!Storage /\ O!empty \in O!Storage
  BY <1>1 DEF OptionalStates
<1>3. ASSUME NEW s \in O!Storage, s.alive = "value", s.hasValue
      PROVE  [s EXCEPT !.val = v] = O!alternative(v)
  <2> DEFINE t == [s EXCEPT !.val = v]
  <2>1. t \in O!Storage /\ t.alive = "value" /\ t.hasValue /\ t.val = v
    BY <1>3 DEF O!Storage
  <2>2. /\ O!alternative(v).alive = "value" /\ O!alternative(v).hasValue
        /\ O!alternative(v).val = v
    BY DEF O!alternative
  <2>3. t.hasValue = O!alternative(v).hasValue
    <3>1. t.hasValue \in BOOLEAN /\ O!alternative(v).hasValue \in BOOLEAN
      BY <1>2, <2>1 DEF O!Storage
    <3> QED
      BY <2>1, <2>2, <3>1
  <2> HIDE DEF t
  <2>4. t = O!alternative(v)
    BY <1>2, <2>1, <2>2, <2>3, OptionalSame
  <2> QED
    BY <2>4 DEF t
<1>4. ASSUME NEW s \in O!Storage, s.alive = "none", s.val = Unit
      PROVE  [s EXCEPT !.hasValue = FALSE] = O!empty
  <2> DEFINE t == [s EXCEPT !.hasValue = FALSE]
  <2>1. t \in O!Storage /\ t.alive = "none" /\ ~t.hasValue /\ t.val = Unit
    BY <1>4 DEF O!Storage
  <2>2. O!empty.alive = "none" /\ ~O!empty.hasValue /\ O!empty.val = Unit
    BY DEF O!empty
  <2>3. t.hasValue = O!empty.hasValue
    <3>1. t.hasValue \in BOOLEAN /\ O!empty.hasValue \in BOOLEAN
      BY <1>2, <2>1 DEF O!Storage
    <3> QED
      BY <2>1, <2>2, <3>1
  <2> HIDE DEF t
  <2>4. t = O!empty
    BY <1>2, <2>1, <2>2, <2>3, OptionalSame
  <2> QED
    BY <2>4 DEF t
<1> QED
  BY <1>1, <1>3, <1>4

(* What is read of an optional, or is left of it.                          *)
LEMMA OptionalRead ==
  ASSUME NEW s \in OptionalStates
  PROVE  /\ s.hasValue \in BOOLEAN
         /\ O!payload(s) \in Values \cup {Moved}
         /\ Conv[O!payload(s)] \in Values \cup {Moved}
         /\ O!movedFrom(s) \in OptionalStates
         /\ O!movedFrom(s).alive = s.alive
         /\ O!destroy(s) \in OptionalStates
         /\ s.alive # "absent" => O!destroy(s).alive = "none"
<1>1. s \in O!Storage /\ s.hasValue \in BOOLEAN
  <2>1. s \in O!Storage
    BY OptionalForms
  <2> QED
    BY <2>1 DEF O!Storage
<1>2. CASE ~s.hasValue
  <2>1. O!payload(s) = Moved
    BY <1>2 DEF O!payload
  <2>2. O!movedFrom(s) = s
    BY <1>2 DEF O!movedFrom
  <2>3. O!destroy(s) = s
    BY <1>2 DEF O!destroy
  <2>4. s.alive # "absent" => s.alive = "none"
    BY <1>2, OptionalParts
  <2> QED
    BY <1>1, <2>1, <2>2, <2>3, <2>4, ResultAssumption
<1>3. CASE s.hasValue
  <2>1. /\ s.alive = "value" /\ O!Sound(s)
        /\ s.val \in Values \cup {Moved}
    BY <1>3, OptionalParts
  <2>2. O!movedFrom(s) = O!alternative(Moved) /\ O!alternative(Moved).alive = "value"
    <3>1. O!movedFrom(s) = [s EXCEPT !.val = Moved]
      BY <1>3, <2>1 DEF O!movedFrom
    <3>2. [s EXCEPT !.val = Moved] = O!alternative(Moved)
      BY <1>1, <1>3, <2>1, OptionalForms
    <3> QED
      BY <3>1, <3>2 DEF O!alternative
  <2>3. O!destroy(s) = O!empty /\ O!empty.alive = "none"
    BY <1>3 DEF O!destroy, O!empty
  <2>4. O!payload(s) = s.val
    BY <1>3, <2>1 DEF O!payload
  <2> QED
    BY <1>1, <2>1, <2>2, <2>3, <2>4, ResultAssumption DEF OptionalStates
<1> QED
  BY <1>2, <1>3

(* What a construction or an assignment leaves.                            *)
LEMMA OptionalBuilt ==
  ASSUME NEW s \in OptionalStates, s.alive # "absent",
         NEW r \in OptionalStates, NEW v \in Values \cup {Moved}
  PROVE  /\ \A flag \in BOOLEAN :
              O!constructFromOptional(O!monostate(flag), r, v) \in OptionalStates
         /\ O!constructFromOptional(O!empty, r, v) \in OptionalStates
         /\ O!assignFromOptional(s, r, v) \in OptionalStates
         /\ O!assignValue(s, v) \in OptionalStates
         /\ O!alternative(v) \in OptionalStates /\ O!empty \in OptionalStates
<1>1. O!alternative(v) \in OptionalStates /\ O!empty \in OptionalStates
  BY DEF OptionalStates
<1>2. ASSUME NEW t, t.alive = "none"
      PROVE  O!constructValue(t, v) = O!alternative(v)
  BY <1>2 DEF O!constructValue, O!alternative
<1>3. ASSUME NEW flag \in BOOLEAN
      PROVE  O!constructFromOptional(O!monostate(flag), r, v) \in OptionalStates
  <2> DEFINE m == O!monostate(flag)
  <2>1. m \in O!Storage /\ m.alive = "none" /\ m.val = Unit
    BY DEF O!monostate, O!empty, O!Storage
  <2> HIDE DEF m
  <2>2. [m EXCEPT !.hasValue = FALSE] = O!empty
    BY <2>1, OptionalForms
  <2>3. O!constructFromOptional(m, r, v) \in OptionalStates
    BY <1>1, <1>2, <2>1, <2>2 DEF O!constructFromOptional
  <2> QED
    BY <2>3, Zenon DEF m
<1>4. O!empty.alive = "none" /\ [O!empty EXCEPT !.hasValue = FALSE] = O!empty
  <2>1. O!empty \in O!Storage /\ O!empty.alive = "none" /\ O!empty.val = Unit
    BY DEF O!empty, O!Storage
  <2> QED
    BY <2>1, OptionalForms
<1>5. O!constructFromOptional(O!empty, r, v) \in OptionalStates
  BY <1>1, <1>2, <1>4 DEF O!constructFromOptional
<1>6. CASE s = O!empty
  <2>1. ~s.hasValue /\ O!destroy(s) = O!empty
    BY <1>6 DEF O!empty, O!destroy
  <2>2. O!assignValue(s, v) = O!alternative(v)
    BY <1>2, <1>4, <2>1 DEF O!assignValue
  <2>3. O!assignFromOptional(s, r, v) \in
          {s, O!constructFromOptional(O!empty, r, v)}
    BY <2>1 DEF O!assignFromOptional
  <2> QED
    BY <1>1, <1>3, <1>5, <2>2, <2>3
<1>7. CASE s.alive = "value" /\ s.hasValue
  <2>1. [s EXCEPT !.val = v] = O!alternative(v) /\ O!destroy(s) = O!empty
    BY <1>7, OptionalForms DEF O!destroy
  <2>2. O!assignValue(s, v) = O!alternative(v)
    BY <1>7, <2>1 DEF O!assignValue
  <2>3. O!assignFromOptional(s, r, v) \in
          {O!alternative(v), O!constructFromOptional(O!empty, r, v)}
    <3>1. r.hasValue \in BOOLEAN /\ s.hasValue \in BOOLEAN
      BY OptionalRead
    <3> QED
      BY <1>7, <2>1, <3>1 DEF O!assignFromOptional
  <2> QED
    BY <1>1, <1>3, <1>5, <2>2, <2>3
<1> QED
  BY <1>6, <1>7, OptionalParts

(* A step of an optional leaves the results alone, and no member is used   *)
(* that is not alive unless something was thrown.                          *)
LEMMA OptionalWrites ==
  ASSUME AllInv, UNCHANGED <<obj, failure>>,
         NEW x \in Opts, NEW y \in Opts,
         NEW a \in OptionalStates, NEW b \in OptionalStates,
         opt' = [[opt EXCEPT ![y] = b] EXCEPT ![x] = a],
         ub' \in BOOLEAN, threw' \in BOOLEAN, threw => threw', ~threw' => ~ub'
  PROVE  AllInv'
<1>1. OptionalInv'
  BY DEF AllInv, OptionalInv
<1>2. FailureType'
  BY DEF AllInv, ResultInv, FailureType
<1> QED
  BY <1>1, <1>2, NoWrite DEF AllInv

LEMMA OptionalWrite ==
  ASSUME AllInv, UNCHANGED <<obj, failure>>,
         NEW x \in Opts, NEW a \in OptionalStates, opt' = [opt EXCEPT ![x] = a],
         ub' \in BOOLEAN, threw' \in BOOLEAN, threw => threw', ~threw' => ~ub'
  PROVE  AllInv'
<1>1. opt' = [[opt EXCEPT ![x] = a] EXCEPT ![x] = a]
  BY DEF AllInv, OptionalInv
<1> QED
  BY <1>1, OptionalWrites

LEMMA OptionalUses ==
  ASSUME AllInv, NEW S \in SUBSET Opts, O!Uses(S), \A z \in S : O!Exists(z)
  PROVE  ub' \in BOOLEAN /\ (~threw => ~ub')
<1>1. ub' \in BOOLEAN
  BY DEF O!Uses
<1>2. \A z \in S : O!Sound(opt[z])
  BY OptionalParts DEF AllInv, OptionalInv, O!Exists
<1>3. ub' = ub
  BY <1>2 DEF O!Uses, AllInv, ResultInv
<1> QED
  BY <1>1, <1>3 DEF AllInv, ResultInv

LEMMA OptionalTypes ==
  ASSUME AllInv, NEW x \in Opts
  PROVE  opt[x] \in OptionalStates /\ threw \in BOOLEAN /\ ub \in BOOLEAN
BY DEF AllInv, OptionalInv, ResultInv

LEMMA TakeFromStep ==
  ASSUME AllInv, UNCHANGED <<obj, failure>>, NEW name, NEW x \in Opts,
         NEW y \in Opts, NEW r \in OptionalStates, NEW mv,
         O!Exists(y), O!TakeFrom(name, x, y, r, mv)
  PROVE  AllInv'
<1> DEFINE a == IF mv /\ x = y THEN O!movedFrom(r) ELSE r
           b == IF mv THEN O!movedFrom(opt[y]) ELSE opt[y]
<1>1. a \in OptionalStates /\ b \in OptionalStates
  BY OptionalTypes, OptionalRead
<1>2. opt' = [[opt EXCEPT ![y] = b] EXCEPT ![x] = a]
  BY DEF O!TakeFrom
<1>3. ub' \in BOOLEAN /\ (~threw => ~ub')
  <2> DEFINE S == {x, y} \ {z \in {x} : ~O!Exists(z)}
  <2>1. S \in SUBSET Opts /\ \A z \in S : O!Exists(z)
    OBVIOUS
  <2>2. O!Uses(S)
    BY DEF O!TakeFrom
  <2> HIDE DEF S
  <2> QED
    BY <2>1, <2>2, OptionalUses
<1>4. threw' = threw /\ threw \in BOOLEAN
  BY OptionalTypes DEF O!TakeFrom
<1> HIDE DEF a, b
<1> QED
  BY <1>1, <1>2, <1>3, <1>4, OptionalWrites

LEMMA OptionalThrowsSteps ==
  ASSUME AllInv, UNCHANGED <<obj, failure>>, NEW name, NEW x \in Opts,
         NEW y \in Opts, O!Exists(x), O!Exists(y),
         \/ O!AssignThrows(name, x, y)
         \/ /\ opt' = [opt EXCEPT ![x] = O!destroy(@)]
            /\ threw' = TRUE /\ O!Uses({x, y})
  PROVE  AllInv'
<1>1. O!Uses({x, y}) /\ threw' = TRUE
  BY DEF O!AssignThrows
<1>2. ub' \in BOOLEAN
  BY <1>1, OptionalUses
<1>3. PICK a \in OptionalStates : opt' = [opt EXCEPT ![x] = a]
  <2>1. opt[x] \in OptionalStates /\ O!destroy(opt[x]) \in OptionalStates
    BY OptionalTypes, OptionalRead
  <2>2. \/ opt' = [opt EXCEPT ![x] = opt[x]]
        \/ opt' = [opt EXCEPT ![x] = O!destroy(opt[x])]
    BY DEF O!AssignThrows
  <2> QED
    BY <2>1, <2>2
<1> QED
  BY <1>1, <1>2, <1>3, OptionalWrite

LEMMA OptionalConstructThrows ==
  ASSUME AllInv, UNCHANGED <<obj, failure>>, NEW x, NEW y,
         O!ConstructThrows(x, y)
  PROVE  AllInv'
<1>1. opt' = opt /\ threw' = TRUE /\ ub' \in BOOLEAN
  BY DEF O!ConstructThrows
<1>2. OptionalInv' /\ FailureType'
  BY <1>1 DEF AllInv, OptionalInv, ResultInv, FailureType
<1> QED
  BY <1>1, <1>2, NoWrite DEF AllInv

LEMMA OptionalPutStep ==
  ASSUME AllInv, UNCHANGED <<obj, failure>>, NEW x \in Opts,
         NEW r \in OptionalStates, O!Put(x, r),
         ub' = ub \/ (O!Exists(x) /\ O!Uses({x}))
  PROVE  AllInv'
<1>1. ub' \in BOOLEAN /\ (~threw => ~ub')
  <2>1. CASE ub' = ub
    BY <2>1 DEF AllInv, ResultInv
  <2>2. CASE O!Exists(x) /\ O!Uses({x})
    BY <2>2, OptionalUses
  <2> QED
    BY <2>1, <2>2
<1>2. threw' = threw /\ threw \in BOOLEAN /\ opt' = [opt EXCEPT ![x] = r]
  BY OptionalTypes DEF O!Put
<1> QED
  BY <1>1, <1>2, OptionalWrite

LEMMA OptionalLookStep ==
  ASSUME AllInv, UNCHANGED <<obj, failure>>, NEW x \in Opts, NEW mv,
         O!Exists(x), O!Look(x, mv)
  PROVE  AllInv'
<1>1. PICK a \in OptionalStates : opt' = [opt EXCEPT ![x] = a]
  <2>1. opt[x] \in OptionalStates /\ O!movedFrom(opt[x]) \in OptionalStates
    BY OptionalTypes, OptionalRead
  <2>2. \/ opt' = [opt EXCEPT ![x] = opt[x]]
        \/ opt' = [opt EXCEPT ![x] = O!movedFrom(opt[x])]
    BY DEF O!Look
  <2> QED
    BY <2>1, <2>2
<1>2. O!Uses({x}) /\ threw' = threw /\ threw \in BOOLEAN
  BY OptionalTypes DEF O!Look
<1>3. ub' \in BOOLEAN /\ (~threw => ~ub')
  BY <1>2, OptionalUses
<1> QED
  BY <1>1, <1>2, <1>3, OptionalWrite

LEMMA OptionalSwapStep ==
  ASSUME AllInv, UNCHANGED <<obj, failure>>, NEW x \in Opts, NEW y \in Opts,
         O!swap(x, y)
  PROVE  AllInv'
<1>1. /\ O!Exists(x) /\ O!Exists(y) /\ x # y /\ O!Uses({x, y}) /\ threw' = threw
      /\ threw \in BOOLEAN /\ opt \in [Opts -> OptionalStates]
  BY OptionalTypes DEF O!swap, AllInv, OptionalInv
<1>2. ub' \in BOOLEAN /\ (~threw => ~ub')
  BY <1>1, OptionalUses
<1>3. /\ opt[x] \in OptionalStates /\ opt[x].alive # "absent"
      /\ opt[y] \in OptionalStates /\ opt[y].alive # "absent"
  BY <1>1, OptionalTypes DEF O!Exists
<1>4. CASE opt[x].hasValue = opt[y].hasValue
  <2> DEFINE a == [opt[x] EXCEPT !.val = opt[y].val]
             b == [opt[y] EXCEPT !.val = opt[x].val]
  <2>1. opt' = [[opt EXCEPT ![x] = a] EXCEPT ![y] = b]
    <3>1. opt' = [opt EXCEPT ![x].val = opt[y].val, ![y].val = opt[x].val]
      BY <1>4 DEF O!swap
    <3> QED
      BY <1>1, <3>1
  <2>2. ASSUME NEW s \in OptionalStates, NEW t \in OptionalStates,
               s.alive # "absent", t.alive # "absent", s.hasValue = t.hasValue
        PROVE  [s EXCEPT !.val = t.val] \in OptionalStates
    <3>1. s \in O!Storage /\ t \in O!Storage
      BY OptionalForms
    <3>2. CASE s.hasValue
      <4>1. s.alive = "value" /\ t.val \in Values \cup {Moved}
        BY <2>2, <3>2, OptionalParts
      <4> QED
        BY <3>1, <3>2, <4>1, OptionalForms DEF OptionalStates
    <3>3. CASE ~s.hasValue
      <4>1. t.val = s.val
        BY <2>2, <3>3, OptionalParts
      <4> DEFINE u == [s EXCEPT !.val = t.val]
      <4>2. /\ u \in O!Storage /\ u.alive = s.alive
            /\ u.hasValue = s.hasValue /\ u.val = s.val
        BY <3>1, <4>1 DEF O!Storage
      <4> HIDE DEF u
      <4>3. u = s
        BY <3>1, <4>2, OptionalSame
      <4> QED
        BY <4>3 DEF u
    <3> QED
      BY <3>2, <3>3
  <2>3. a \in OptionalStates /\ b \in OptionalStates
    BY <1>3, <1>4, <2>2
  <2> HIDE DEF a, b
  <2> QED
    BY <1>1, <1>2, <2>1, <2>3, OptionalWrites
<1>5. CASE opt[x].hasValue # opt[y].hasValue
  <2> DEFINE tmp == O!constructFromOptional(O!empty, opt[x], O!payload(opt[x]))
             a == O!assignFromOptional(O!movedFrom(opt[x]), opt[y],
                                       O!payload(opt[y]))
             b == O!assignFromOptional(O!movedFrom(opt[y]), tmp, O!payload(tmp))
  <2>1. opt' = [[opt EXCEPT ![x] = a] EXCEPT ![y] = b]
    BY <1>1, <1>5 DEF O!swap
  <2>2. /\ O!movedFrom(opt[x]) \in OptionalStates
        /\ O!movedFrom(opt[y]) \in OptionalStates
        /\ O!movedFrom(opt[x]).alive # "absent"
        /\ O!movedFrom(opt[y]).alive # "absent"
        /\ O!payload(opt[x]) \in Values \cup {Moved}
        /\ O!payload(opt[y]) \in Values \cup {Moved}
    BY <1>3, OptionalRead
  <2>3. a \in OptionalStates
    BY <1>3, <2>2, OptionalBuilt
  <2>4. tmp \in OptionalStates
    BY <1>3, <2>2, OptionalBuilt
  <2> HIDE DEF tmp
  <2>5. b \in OptionalStates
    BY <2>2, <2>4, OptionalRead, OptionalBuilt
  <2> HIDE DEF a, b
  <2> QED
    BY <1>1, <1>2, <2>1, <2>3, <2>5, OptionalWrites
<1> QED
  BY <1>4, <1>5

LEMMA OptionalNextStep ==
  ASSUME AllInv, UNCHANGED <<obj, failure>>, O!Next
  PROVE  AllInv'
<1>1. PICK x \in Opts :
        \/ O!defaultConstruct(x) \/ O!arrow(x) \/ O!destructor(x)
        \/ \E v \in Values : \/ O!inPlaceValue(x, v) \/ O!fromValue(x, v)
                             \/ O!valueAssign(x, v)
        \/ \E mv \in BOOLEAN :
             \/ O!dereference(x, mv) \/ O!getValue(x, mv) \/ O!valueOr(x, mv)
             \/ \E y \in Opts :
                  \/ O!copyConstruct(x, y, mv) \/ O!convertConstruct(x, y, mv)
                  \/ O!copyAssign(x, y, mv) \/ O!convertAssign(x, y, mv)
                  \/ \E r \in {O!empty} \cup {O!alternative(v) : v \in Values} :
                       O!flatMap(x, y, r, mv)
                  \/ \E v \in Values : O!map(x, y, v, mv)
        \/ \E y \in Opts : O!swap(x, y) \/ O!swapThrows(x, y)
  BY Zenon DEF O!Next
<1>2. /\ O!empty \in OptionalStates /\ O!Absent \in OptionalStates
      /\ \A v \in Values : /\ O!alternative(v) \in OptionalStates
                           /\ O!alternative(Conv[v]) \in OptionalStates
  BY ResultAssumption DEF OptionalStates
<1>3. CASE \/ O!defaultConstruct(x)
           \/ \E v \in Values : O!inPlaceValue(x, v) \/ O!fromValue(x, v)
  BY <1>2, <1>3, OptionalPutStep
     DEF O!defaultConstruct, O!inPlaceValue, O!fromValue
<1>4. ASSUME NEW v \in Values, O!valueAssign(x, v) PROVE AllInv'
  <2>1. O!Exists(x)
    BY <1>4 DEF O!valueAssign
  <2>2. O!assignValue(opt[x], v) \in OptionalStates
    BY <2>1, OptionalTypes, OptionalBuilt DEF O!Exists
  <2> QED
    BY <1>4, <2>1, <2>2, OptionalPutStep, OptionalThrowsSteps DEF O!valueAssign
<1>5. ASSUME NEW mv \in BOOLEAN,
             O!arrow(x) \/ O!dereference(x, mv) \/ O!getValue(x, mv) \/ O!valueOr(x, mv)
      PROVE  AllInv'
  BY <1>5, OptionalLookStep
     DEF O!arrow, O!dereference, O!getValue, O!valueOr, O!HasValue
<1>6. CASE O!destructor(x)
  <2>1. /\ O!Exists(x) /\ O!Uses({x}) /\ threw' = threw /\ threw \in BOOLEAN
        /\ opt' = [opt EXCEPT ![x] = O!Absent]
    BY <1>6, OptionalTypes DEF O!destructor
  <2>2. ub' \in BOOLEAN /\ (~threw => ~ub')
    BY <2>1, OptionalUses
  <2> QED
    BY <1>2, <2>1, <2>2, OptionalWrite
<1>7. ASSUME NEW mv \in BOOLEAN, NEW y \in Opts,
             O!copyConstruct(x, y, mv) \/ O!convertConstruct(x, y, mv)
      PROVE  AllInv'
  <2>1. O!Exists(y)
    BY <1>7 DEF O!copyConstruct, O!convertConstruct
  <2>2. /\ O!payload(opt[y]) \in Values \cup {Moved}
        /\ Conv[O!payload(opt[y])] \in Values \cup {Moved}
        /\ opt[y] \in OptionalStates /\ opt[y].alive # "absent"
    BY <2>1, OptionalTypes, OptionalRead DEF O!Exists
  <2>3. ASSUME NEW v \in Values \cup {Moved}, NEW flag \in BOOLEAN, NEW name,
               O!TakeFrom(name, x, y,
                 O!constructFromOptional(O!monostate(flag), opt[y], v), mv)
        PROVE  AllInv'
    <3> DEFINE r == O!constructFromOptional(O!monostate(flag), opt[y], v)
    <3>1. r \in OptionalStates
      BY <2>2, OptionalBuilt
    <3>2. O!TakeFrom(name, x, y, r, mv)
      BY <2>3
    <3> HIDE DEF r
    <3> QED
      BY <2>1, <3>1, <3>2, TakeFromStep
  <2> QED
    BY <1>7, <2>2, <2>3, OptionalConstructThrows
       DEF O!copyConstruct, O!convertConstruct
<1>8. ASSUME NEW mv \in BOOLEAN, NEW y \in Opts,
             O!copyAssign(x, y, mv) \/ O!convertAssign(x, y, mv)
      PROVE  AllInv'
  <2>1. O!Exists(x) /\ O!Exists(y)
    BY <1>8 DEF O!copyAssign, O!convertAssign
  <2>2. /\ O!payload(opt[y]) \in Values \cup {Moved}
        /\ Conv[O!payload(opt[y])] \in Values \cup {Moved}
        /\ opt[y] \in OptionalStates
        /\ opt[x] \in OptionalStates /\ opt[x].alive # "absent"
    BY <2>1, OptionalTypes, OptionalRead DEF O!Exists
  <2>3. ASSUME NEW v \in Values \cup {Moved}, NEW name,
               O!TakeFrom(name, x, y, O!assignFromOptional(opt[x], opt[y], v), mv)
        PROVE  AllInv'
    <3> DEFINE r == O!assignFromOptional(opt[x], opt[y], v)
    <3>1. r \in OptionalStates
      BY <2>2, OptionalBuilt
    <3>2. O!TakeFrom(name, x, y, r, mv)
      BY <2>3
    <3> HIDE DEF r
    <3> QED
      BY <2>1, <3>1, <3>2, TakeFromStep
  <2> QED
    BY <1>8, <2>1, <2>2, <2>3, OptionalThrowsSteps
       DEF O!copyAssign, O!convertAssign
<1>9. ASSUME NEW mv \in BOOLEAN, NEW y \in Opts,
             \/ \E r \in {O!empty} \cup {O!alternative(v) : v \in Values} :
                  O!flatMap(x, y, r, mv)
             \/ \E v \in Values : O!map(x, y, v, mv)
      PROVE  AllInv'
  <2>1. PICK r \in OptionalStates, name \in {"then", "thenMove"} :
          O!Exists(y) /\ O!TakeFrom(name, x, y, r, mv)
    <3>1. CASE \E v \in Values : O!map(x, y, v, mv)
      BY <1>2, <3>1 DEF O!map, O!ThenName
    <3>2. CASE \E r \in {O!empty} \cup {O!alternative(v) : v \in Values} :
                 O!flatMap(x, y, r, mv)
      <4>1. PICK r \in {O!empty} \cup {O!alternative(v) : v \in Values} :
                 O!flatMap(x, y, r, mv)
        BY <3>2
      <4>2. r \in OptionalStates
        BY <1>2
      <4> QED
        BY <1>2, <4>1, <4>2 DEF O!flatMap, O!ThenName
    <3> QED
      BY <1>9, <3>1, <3>2
  <2> QED
    BY <2>1, TakeFromStep
<1>10. ASSUME NEW y \in Opts, O!swap(x, y) PROVE AllInv'
  BY <1>10, OptionalSwapStep
<1>11. ASSUME NEW y \in Opts, O!swapThrows(x, y) PROVE AllInv'
  BY <1>11, OptionalConstructThrows, OptionalThrowsSteps DEF O!swapThrows
<1>12. CASE O!arrow(x)
  BY <1>5, <1>12
<1> QED
  BY <1>1, <1>3, <1>4, <1>5, <1>6, <1>7, <1>8, <1>9, <1>10, <1>11, <1>12

-----------------------------------------------------------------------------
(* Theorems.                                                               *)

(* AllInv is inductive.                                                    *)
LEMMA Invariance == MCSpec => []AllInv
<1>1. MCInit => AllInv
  BY InitResultInv DEF MCInit, AllInv, OptionalInv, OptionalStates, O!Init
<1>2. AllInv /\ [MCNext]_<<vars, opt>> => AllInv'
  <2> SUFFICES ASSUME AllInv, [MCNext]_<<vars, opt>> PROVE AllInv'
    OBVIOUS
  <2>1. CASE Next /\ UNCHANGED opt
    <3>1. ResultInv'
      BY <2>1, FailureStep, ResultNextStep, VoidNextStep, MapNextStep
         DEF AllInv, Next
    <3> QED
      BY <2>1, <3>1 DEF AllInv, OptionalInv
  <2>2. CASE O!Next /\ UNCHANGED <<obj, failure>>
    BY <2>2, OptionalNextStep
  <2>3. CASE UNCHANGED <<vars, opt>>
    <3>1. ResultInv'
      <4>1. FailureType'
        BY <2>3 DEF AllInv, ResultInv, FailureType, vars
      <4> QED
        BY <2>3, <4>1, NoWrite DEF AllInv, ResultInv, vars
    <3> QED
      BY <2>3, <3>1 DEF AllInv, OptionalInv, vars
  <2> QED
    BY <2>1, <2>2, <2>3 DEF MCNext
<1> QED
  BY <1>1, <1>2, PTL DEF MCSpec

(* The storage of every Result and every Failure stays what ResultAlt and  *)
(* Failure declare (Result.hpp), for any number of objects.                *)
THEOREM TypeCorrect == MCSpec => []TypeOK
<1>1. AllInv => TypeOK
  BY DEF AllInv, ResultInv, FailureType, TypeOK
<1> QED
  BY <1>1, Invariance, PTL

(* Unless a constructor or an assignment of T or E throws, no sequence of  *)
(* calls, however long and on however many results and optionals, uses a   *)
(* member of the union that is not alive, and every result holds exactly   *)
(* the member that hasValue_ names (ResultAlt and ResultStorage).          *)
THEOREM DiscriminatorTheorem == MCSpec => []DiscriminatorTracksUnion
<1>1. AllInv => DiscriminatorTracksUnion
  BY DEF AllInv, ResultInv, DiscriminatorTracksUnion, Fit, Exists
<1> QED
  BY <1>1, Invariance, PTL

(* An Optional holds a value exactly when its hasValue_ says so, whatever  *)
(* was called and even if the construction, the assignment or the swap of  *)
(* a value threw (OptionalAlt and OptionalStorage).                        *)
THEOREM OptionalSoundTheorem == MCSpec => []OptionalAlwaysSound
<1>1. AllInv => OptionalAlwaysSound
  BY OptionalParts
     DEF AllInv, OptionalInv, OptionalAlwaysSound, O!OptionalSound, O!Exists
<1> QED
  BY <1>1, Invariance, PTL

-----------------------------------------------------------------------------
(* Comparisons.                                                            *)

(* What is compared: a live member that was not moved from.                *)
Held(a) ==
  /\ a \in Storage /\ Sound(a)
  /\ a.hasValue => a.val \in Values \cup {Unit}
  /\ ~a.hasValue => a.val \in Errors

LEMMA HeldAlternatives ==
  /\ \A v \in Values : /\ Held(alternative("value", v))
                       /\ alternative("value", v).hasValue
                       /\ alternative("value", v).val = v
  /\ \A e \in Errors : /\ Held(alternative("error", e))
                       /\ ~alternative("error", e).hasValue
                       /\ alternative("error", e).val = e
<1>1. ASSUME NEW v \in Values
      PROVE  /\ Held(alternative("value", v))
             /\ alternative("value", v).hasValue
             /\ alternative("value", v).val = v
  BY DEF Held, alternative, Storage, Sound, member, Payload
<1>2. ASSUME NEW e \in Errors
      PROVE  /\ Held(alternative("error", e))
             /\ ~alternative("error", e).hasValue
             /\ alternative("error", e).val = e
  BY DEF Held, alternative, Storage, Sound, member, Payload
<1> QED
  BY <1>1, <1>2

LEMMA ComparableHeld == ASSUME ResultInv PROVE \A a \in Comparable : Held(a)
<1> SUFFICES ASSUME NEW x \in Results, Sound(obj[x]), obj[x].val # Moved
             PROVE  Held(obj[x])
  BY DEF Comparable
<1>1. Typed(x, obj[x])
  BY DEF ResultInv
<1> QED
  BY <1>1 DEF Held, Typed, Contents, ValuesOf

(* Two results that hold something are equal if they hold the same.        *)
LEMMA HeldSame ==
  ASSUME NEW a, NEW b, Held(a), Held(b)
  PROVE  (a = b) = (a.hasValue = b.hasValue /\ a.val = b.val)
<1>1. a \in Storage /\ b \in Storage
  BY DEF Held
<1>2. ASSUME a.hasValue = b.hasValue, a.val = b.val PROVE a = b
  <2>1. a.alive = b.alive
    BY <1>2 DEF Held, Sound, member
  <2> QED
    BY <1>1, <1>2, <2>1 DEF Storage
<1> QED
  BY <1>2

(* The parts of the reference order, as numbers.                           *)
LEMMA HeldNumbers ==
  ASSUME NEW a, Held(a)
  PROVE  /\ a.hasValue \in BOOLEAN
         /\ OfValue(a) => a.val \in Int
         /\ ~a.hasValue => a.val \in Int /\ a.val # Unit
BY ResultAssumption DEF Held, Storage, OfValue

(* The reference order: an error is below a value, equal alternatives are  *)
(* ordered by what they hold, and there is but one value without content.  *)
LEMMA BelowMixed ==
  ASSUME NEW a, NEW b, ~a.hasValue, b.hasValue
  PROVE  Below(a, b) = TRUE /\ Below(b, a) = FALSE
<1>1. a.hasValue # b.hasValue
  OBVIOUS
<1>2. Below(a, b)
  BY Zenon DEF Below
<1>3. ~Below(b, a)
  BY <1>1 DEF Below
<1> QED
  BY <1>2, <1>3 DEF Below

LEMMA BelowSame ==
  ASSUME NEW a, NEW b, a.hasValue \in BOOLEAN, a.hasValue = b.hasValue,
         a.val \in Int, b.val \in Int, a.val # Unit
  PROVE  Below(a, b) = (a.val < b.val)
<1>1. Below(a, b) <=> a.val < b.val
  <2>1. CASE a.hasValue
    BY <2>1 DEF Below
  <2>2. CASE ~a.hasValue
    BY <2>2 DEF Below
  <2> QED
    BY <2>1, <2>2
<1>2. Below(a, b) \in BOOLEAN
  BY Zenon DEF Below
<1> QED
  BY <1>1, <1>2

LEMMA BelowUnit ==
  ASSUME NEW a, NEW b, a.hasValue, b.hasValue, a.val = Unit, b.val = Unit
  PROVE  Below(a, b) = FALSE /\ Below(b, a) = FALSE
<1>1. ~Below(a, b) /\ ~Below(b, a)
  BY DEF Below
<1> QED
  BY <1>1 DEF Below

LEMMA NumberFacts ==
  ASSUME NEW i \in Int, NEW j \in Int
  PROVE  /\ (~(j < i)) = (i <= j) /\ (~(i < j)) = (i >= j)
         /\ (j < i) = (i > j) /\ (~TRUE) = FALSE /\ (~FALSE) = TRUE
OBVIOUS

LEMMA ResultComparisons ==
  ASSUME NEW a, NEW b, Held(a), Held(b), OfValue(a), OfValue(b)
  PROVE  Reference(a, b) = <<resultEq(a, b), resultNe(a, b), resultLt(a, b),
                             resultLe(a, b), resultGt(a, b), resultGe(a, b)>>
<1>1. /\ a.hasValue \in BOOLEAN /\ b.hasValue \in BOOLEAN
      /\ a.val \in Int /\ b.val \in Int /\ a.val # Unit /\ b.val # Unit
  BY HeldNumbers DEF OfValue
<1>2. (a = b) = resultEq(a, b) /\ (a # b) = resultNe(a, b)
  BY <1>1, HeldSame DEF resultEq, resultNe
<1>3. ASSUME a.hasValue = b.hasValue
      PROVE  /\ Below(a, b) = resultLt(a, b) /\ (~Below(b, a)) = resultLe(a, b)
             /\ Below(b, a) = resultGt(a, b) /\ (~Below(a, b)) = resultGe(a, b)
  <2>1. /\ resultLt(a, b) = (a.val < b.val) /\ resultLe(a, b) = (a.val <= b.val)
        /\ resultGt(a, b) = (a.val > b.val) /\ resultGe(a, b) = (a.val >= b.val)
    BY <1>3 DEF resultLt, resultLe, resultGt, resultGe
  <2>2. Below(a, b) = (a.val < b.val) /\ Below(b, a) = (b.val < a.val)
    BY <1>1, <1>3, BelowSame
  <2> QED
    BY <1>1, <2>1, <2>2, NumberFacts, Zenon
<1>4. ASSUME ~a.hasValue, b.hasValue
      PROVE  /\ Below(a, b) = resultLt(a, b) /\ (~Below(b, a)) = resultLe(a, b)
           /\ Below(b, a) = resultGt(a, b) /\ (~Below(a, b)) = resultGe(a, b)
  <2>1. a.hasValue # b.hasValue
    BY <1>4
  <2>2. /\ resultLt(a, b) = TRUE /\ resultLe(a, b) = TRUE
        /\ resultGt(a, b) = FALSE /\ resultGe(a, b) = FALSE
    BY <1>4, <2>1 DEF resultLt, resultLe, resultGt, resultGe, Ordinal
  <2>3. Below(a, b) = TRUE /\ Below(b, a) = FALSE
    BY <1>4, BelowMixed, Zenon
  <2>4. (~TRUE) = FALSE /\ (~FALSE) = TRUE
    OBVIOUS
  <2> QED
    BY <2>2, <2>3, <2>4, Zenon
<1>5. ASSUME a.hasValue, ~b.hasValue
      PROVE  /\ Below(a, b) = resultLt(a, b) /\ (~Below(b, a)) = resultLe(a, b)
           /\ Below(b, a) = resultGt(a, b) /\ (~Below(a, b)) = resultGe(a, b)
  <2>1. a.hasValue # b.hasValue
    BY <1>5
  <2>2. /\ resultLt(a, b) = FALSE /\ resultLe(a, b) = FALSE
        /\ resultGt(a, b) = TRUE /\ resultGe(a, b) = TRUE
    BY <1>5, <2>1 DEF resultLt, resultLe, resultGt, resultGe, Ordinal
  <2>3. Below(a, b) = FALSE /\ Below(b, a) = TRUE
    BY <1>5, BelowMixed, Zenon
  <2>4. (~TRUE) = FALSE /\ (~FALSE) = TRUE
    OBVIOUS
  <2> QED
    BY <2>2, <2>3, <2>4, Zenon
<1>6. /\ Below(a, b) = resultLt(a, b) /\ (~Below(b, a)) = resultLe(a, b)
      /\ Below(b, a) = resultGt(a, b) /\ (~Below(a, b)) = resultGe(a, b)
  BY <1>1, <1>3, <1>4, <1>5
<1> QED
  BY <1>2, <1>6, Zenon DEF Reference

LEMMA VoidComparisons ==
  ASSUME NEW a, NEW b, Held(a), Held(b), OfVoid(a), OfVoid(b)
  PROVE  Reference(a, b) = <<voidEq(a, b), voidNe(a, b), voidLt(a, b),
                             voidLe(a, b), voidGt(a, b), voidGe(a, b)>>
<1>1. /\ a.hasValue \in BOOLEAN /\ b.hasValue \in BOOLEAN
      /\ a.hasValue => a.val = Unit
      /\ b.hasValue => b.val = Unit
      /\ ~a.hasValue => a.val \in Int /\ a.val # Unit
      /\ ~b.hasValue => b.val \in Int /\ b.val # Unit
  BY HeldNumbers DEF OfVoid
<1>2. (a = b) = voidEq(a, b) /\ (a # b) = voidNe(a, b)
  BY <1>1, HeldSame DEF voidEq, voidNe
<1>3. ASSUME a.hasValue = b.hasValue
      PROVE  /\ Below(a, b) = voidLt(a, b) /\ (~Below(b, a)) = voidLe(a, b)
             /\ Below(b, a) = voidGt(a, b) /\ (~Below(a, b)) = voidGe(a, b)
  <2>1. CASE a.hasValue
    <3>1. /\ voidLt(a, b) = FALSE /\ voidLe(a, b) = TRUE
          /\ voidGt(a, b) = FALSE /\ voidGe(a, b) = TRUE
      BY <1>3, <2>1 DEF voidLt, voidLe, voidGt, voidGe
    <3>2. Below(a, b) = FALSE /\ Below(b, a) = FALSE
      BY <1>1, <1>3, <2>1, BelowUnit
    <3>3. (~FALSE) = TRUE
      OBVIOUS
    <3> QED
      BY <3>1, <3>2, <3>3, Zenon
  <2>2. CASE ~a.hasValue
    <3>1. /\ voidLt(a, b) = (a.val < b.val) /\ voidLe(a, b) = (a.val <= b.val)
          /\ voidGt(a, b) = (a.val > b.val) /\ voidGe(a, b) = (a.val >= b.val)
      BY <1>3, <2>2 DEF voidLt, voidLe, voidGt, voidGe
    <3>2. ~b.hasValue
      BY <1>3, <2>2
    <3>3. Below(a, b) = (a.val < b.val) /\ Below(b, a) = (b.val < a.val)
      BY <1>1, <1>3, <2>2, <3>2, BelowSame
    <3>4. a.val \in Int /\ b.val \in Int
      BY <1>1, <2>2, <3>2
    <3> QED
      BY <3>1, <3>3, <3>4, NumberFacts, Zenon
  <2> QED
    BY <2>1, <2>2
<1>4. ASSUME ~a.hasValue, b.hasValue
      PROVE  /\ Below(a, b) = voidLt(a, b) /\ (~Below(b, a)) = voidLe(a, b)
           /\ Below(b, a) = voidGt(a, b) /\ (~Below(a, b)) = voidGe(a, b)
  <2>1. a.hasValue # b.hasValue
    BY <1>4
  <2>2. /\ voidLt(a, b) = TRUE /\ voidLe(a, b) = TRUE
        /\ voidGt(a, b) = FALSE /\ voidGe(a, b) = FALSE
    BY <1>4, <2>1 DEF voidLt, voidLe, voidGt, voidGe, Ordinal
  <2>3. Below(a, b) = TRUE /\ Below(b, a) = FALSE
    BY <1>4, BelowMixed, Zenon
  <2>4. (~TRUE) = FALSE /\ (~FALSE) = TRUE
    OBVIOUS
  <2> QED
    BY <2>2, <2>3, <2>4, Zenon
<1>5. ASSUME a.hasValue, ~b.hasValue
      PROVE  /\ Below(a, b) = voidLt(a, b) /\ (~Below(b, a)) = voidLe(a, b)
           /\ Below(b, a) = voidGt(a, b) /\ (~Below(a, b)) = voidGe(a, b)
  <2>1. a.hasValue # b.hasValue
    BY <1>5
  <2>2. /\ voidLt(a, b) = FALSE /\ voidLe(a, b) = FALSE
        /\ voidGt(a, b) = TRUE /\ voidGe(a, b) = TRUE
    BY <1>5, <2>1 DEF voidLt, voidLe, voidGt, voidGe, Ordinal
  <2>3. Below(a, b) = FALSE /\ Below(b, a) = TRUE
    BY <1>5, BelowMixed, Zenon
  <2>4. (~TRUE) = FALSE /\ (~FALSE) = TRUE
    OBVIOUS
  <2> QED
    BY <2>2, <2>3, <2>4, Zenon
<1>6. /\ Below(a, b) = voidLt(a, b) /\ (~Below(b, a)) = voidLe(a, b)
      /\ Below(b, a) = voidGt(a, b) /\ (~Below(a, b)) = voidGe(a, b)
  BY <1>1, <1>3, <1>4, <1>5
<1> QED
  BY <1>2, <1>6, Zenon DEF Reference

LEMMA FailureComparisons ==
  ASSUME NEW a, NEW b, Held(a), Held(b), OfVoid(a), OfVoid(b),
         OfValue(a), OfValue(b)
  PROVE  Reference(a, b) =
           <<failureEq(a.val, b.val), failureNe(a.val, b.val),
             failureLt(a.val, b.val), failureLe(a.val, b.val),
             failureGt(a.val, b.val), failureGe(a.val, b.val)>>
<1>1. /\ a.hasValue \in BOOLEAN /\ b.hasValue \in BOOLEAN
      /\ ~a.hasValue /\ ~b.hasValue
      /\ a.val \in Int /\ b.val \in Int /\ a.val # Unit /\ b.val # Unit
  BY HeldNumbers DEF OfVoid, OfValue
<1>2. a.hasValue = b.hasValue
  BY <1>1
<1>3. (a = b) = failureEq(a.val, b.val) /\ (a # b) = failureNe(a.val, b.val)
  <2>1. (a = b) <=> (a.val = b.val)
    BY <1>2, HeldSame
  <2> QED
    BY <2>1 DEF failureEq, failureNe
<1>4. Below(a, b) = (a.val < b.val) /\ Below(b, a) = (b.val < a.val)
  BY <1>1, <1>2, BelowSame
<1>5. /\ Below(a, b) = failureLt(a.val, b.val)
      /\ (~Below(b, a)) = failureLe(a.val, b.val)
      /\ Below(b, a) = failureGt(a.val, b.val)
      /\ (~Below(a, b)) = failureGe(a.val, b.val)
  BY <1>1, <1>4, NumberFacts, Zenon DEF failureLt, failureLe, failureGt, failureGe
<1> QED
  BY <1>3, <1>5, Zenon DEF Reference

(* The six comparisons as pairs, first parts and second parts.             *)
LEMMA BothFacts ==
  ASSUME NEW c1, NEW c2, NEW c3, NEW c4, NEW c5, NEW c6, NEW i
  PROVE  Both(<<c1, c2, c3, c4, c5, c6>>, i) =
           <<c1[i], c2[i], c3[i], c4[i], c5[i], c6[i]>>
BY SMT DEF Both

LEMMA ValueComparisons ==
  ASSUME NEW a, Held(a), OfValue(a), NEW v \in Values
  PROVE  Mixed(<<valueEq(a, v), valueNe(a, v), valueLt(a, v),
                 valueLe(a, v), valueGt(a, v), valueGe(a, v)>>,
               a, alternative("value", v))
<1> DEFINE b == alternative("value", v)
<1>1. /\ a.hasValue \in BOOLEAN /\ b.hasValue = TRUE /\ b.val = v
      /\ a.val \in Int /\ v \in Int /\ a.val # Unit /\ v # Unit
  <2>1. b.hasValue = TRUE /\ b.val = v
    BY DEF alternative
  <2> QED
    BY <2>1, HeldNumbers, ResultAssumption DEF OfValue
<1>2. Held(b) /\ Held(a)
  BY HeldAlternatives
<1> HIDE DEF b
<1>3. /\ (a = b) = valueEq(a, v)[1] /\ (b = a) = valueEq(a, v)[2]
      /\ (a # b) = valueNe(a, v)[1] /\ (b # a) = valueNe(a, v)[2]
  BY <1>1, <1>2, HeldSame DEF valueEq, valueNe
<1>4. /\ Below(a, b) = valueLt(a, v)[1] /\ Below(b, a) = valueLt(a, v)[2]
      /\ (~Below(b, a)) = valueLe(a, v)[1] /\ (~Below(a, b)) = valueLe(a, v)[2]
      /\ Below(b, a) = valueGt(a, v)[1] /\ Below(a, b) = valueGt(a, v)[2]
      /\ (~Below(a, b)) = valueGe(a, v)[1] /\ (~Below(b, a)) = valueGe(a, v)[2]
  <2>1. CASE a.hasValue
    <3>1. Below(a, b) = (a.val < v) /\ Below(b, a) = (v < a.val)
      <4>1. a.hasValue = b.hasValue /\ b.hasValue = a.hasValue
        BY <1>1, <2>1
      <4> QED
        BY <1>1, <4>1, BelowSame
    <3>2. /\ valueLt(a, v)[1] = (a.val < v) /\ valueLt(a, v)[2] = (v < a.val)
          /\ valueLe(a, v)[1] = (a.val <= v) /\ valueLe(a, v)[2] = (v <= a.val)
          /\ valueGt(a, v)[1] = (a.val > v) /\ valueGt(a, v)[2] = (v > a.val)
          /\ valueGe(a, v)[1] = (a.val >= v) /\ valueGe(a, v)[2] = (v >= a.val)
      BY <2>1 DEF valueLt, valueLe, valueGt, valueGe
    <3> QED
      BY <1>1, <3>1, <3>2, NumberFacts, Zenon
  <2>2. CASE ~a.hasValue
    <3>1. Below(a, b) = TRUE /\ Below(b, a) = FALSE
      BY <1>1, <2>2, BelowMixed
    <3>2. /\ valueLt(a, v)[1] = TRUE /\ valueLt(a, v)[2] = FALSE
          /\ valueLe(a, v)[1] = TRUE /\ valueLe(a, v)[2] = FALSE
          /\ valueGt(a, v)[1] = FALSE /\ valueGt(a, v)[2] = TRUE
          /\ valueGe(a, v)[1] = FALSE /\ valueGe(a, v)[2] = TRUE
      BY <2>2 DEF valueLt, valueLe, valueGt, valueGe
    <3>3. (~TRUE) = FALSE /\ (~FALSE) = TRUE
      OBVIOUS
    <3> QED
      BY <3>1, <3>2, <3>3, Zenon
  <2> QED
    BY <2>1, <2>2
<1> DEFINE six == <<valueEq(a, v), valueNe(a, v), valueLt(a, v),
                valueLe(a, v), valueGt(a, v), valueGe(a, v)>>
<1>5. Both(six, 1) =
        <<valueEq(a, v)[1], valueNe(a, v)[1], valueLt(a, v)[1],
          valueLe(a, v)[1], valueGt(a, v)[1], valueGe(a, v)[1]>>
  BY BothFacts
<1>6. Both(six, 2) =
        <<valueEq(a, v)[2], valueNe(a, v)[2], valueLt(a, v)[2],
          valueLe(a, v)[2], valueGt(a, v)[2], valueGe(a, v)[2]>>
  BY BothFacts
<1>7. Mixed(six, a, b)
  BY <1>3, <1>4, <1>5, <1>6, Zenon DEF Mixed, Reference
<1> QED
  BY <1>7 DEF b

LEMMA ErrorComparisons ==
  ASSUME NEW a, Held(a), NEW e \in Errors
  PROVE  Mixed(<<errorEq(a, e), errorNe(a, e), errorLt(a, e),
                 errorLe(a, e), errorGt(a, e), errorGe(a, e)>>,
               a, alternative("error", e))
<1> DEFINE b == alternative("error", e)
<1>1. /\ a.hasValue \in BOOLEAN /\ b.hasValue = FALSE /\ b.val = e
      /\ ~a.hasValue => a.val \in Int /\ a.val # Unit
      /\ e \in Int /\ e # Unit
  <2>1. b.hasValue = FALSE /\ b.val = e
    BY DEF alternative
  <2> QED
    BY <2>1, HeldNumbers, ResultAssumption
<1>2. Held(b) /\ Held(a)
  BY HeldAlternatives
<1> HIDE DEF b
<1>3. /\ (a = b) = errorEq(a, e)[1] /\ (b = a) = errorEq(a, e)[2]
      /\ (a # b) = errorNe(a, e)[1] /\ (b # a) = errorNe(a, e)[2]
  <2>1. (a = b) <=> (a.hasValue = b.hasValue /\ a.val = b.val)
    BY <1>2, HeldSame
  <2>2. (a = b) <=> (~a.hasValue /\ a.val = e)
    <3>1. CASE a.hasValue
      BY <1>1, <2>1, <3>1
    <3>2. CASE ~a.hasValue
      BY <1>1, <2>1, <3>2
    <3> QED
      BY <3>1, <3>2
  <2> QED
    BY <2>2 DEF errorEq, errorNe
<1>4. /\ Below(a, b) = errorLt(a, e)[1] /\ Below(b, a) = errorLt(a, e)[2]
      /\ (~Below(b, a)) = errorLe(a, e)[1] /\ (~Below(a, b)) = errorLe(a, e)[2]
      /\ Below(b, a) = errorGt(a, e)[1] /\ Below(a, b) = errorGt(a, e)[2]
      /\ (~Below(a, b)) = errorGe(a, e)[1] /\ (~Below(b, a)) = errorGe(a, e)[2]
  <2>1. CASE ~a.hasValue
    <3>1. Below(a, b) = (a.val < e) /\ Below(b, a) = (e < a.val)
      <4>1. a.hasValue = b.hasValue /\ b.hasValue = a.hasValue
        BY <1>1, <2>1
      <4> QED
        BY <1>1, <2>1, <4>1, BelowSame
    <3>2. /\ errorLt(a, e)[1] = (a.val < e) /\ errorLt(a, e)[2] = (e < a.val)
          /\ errorLe(a, e)[1] = (a.val <= e) /\ errorLe(a, e)[2] = (e <= a.val)
          /\ errorGt(a, e)[1] = (a.val > e) /\ errorGt(a, e)[2] = (e > a.val)
          /\ errorGe(a, e)[1] = (a.val >= e) /\ errorGe(a, e)[2] = (e >= a.val)
      BY <2>1 DEF errorLt, errorLe, errorGt, errorGe
    <3> QED
      BY <1>1, <2>1, <3>1, <3>2, NumberFacts, Zenon
  <2>2. CASE a.hasValue
    <3>1. Below(a, b) = FALSE /\ Below(b, a) = TRUE
      BY <1>1, <2>2, BelowMixed
    <3>2. /\ errorLt(a, e)[1] = FALSE /\ errorLt(a, e)[2] = TRUE
          /\ errorLe(a, e)[1] = FALSE /\ errorLe(a, e)[2] = TRUE
          /\ errorGt(a, e)[1] = TRUE /\ errorGt(a, e)[2] = FALSE
          /\ errorGe(a, e)[1] = TRUE /\ errorGe(a, e)[2] = FALSE
      BY <2>2 DEF errorLt, errorLe, errorGt, errorGe
    <3>3. (~TRUE) = FALSE /\ (~FALSE) = TRUE
      OBVIOUS
    <3> QED
      BY <3>1, <3>2, <3>3, Zenon
  <2> QED
    BY <2>1, <2>2
<1> DEFINE six == <<errorEq(a, e), errorNe(a, e), errorLt(a, e),
                errorLe(a, e), errorGt(a, e), errorGe(a, e)>>
<1>5. Both(six, 1) =
        <<errorEq(a, e)[1], errorNe(a, e)[1], errorLt(a, e)[1],
          errorLe(a, e)[1], errorGt(a, e)[1], errorGe(a, e)[1]>>
  BY BothFacts
<1>6. Both(six, 2) =
        <<errorEq(a, e)[2], errorNe(a, e)[2], errorLt(a, e)[2],
          errorLe(a, e)[2], errorGt(a, e)[2], errorGe(a, e)[2]>>
  BY BothFacts
<1>7. Mixed(six, a, b)
  BY <1>3, <1>4, <1>5, <1>6, Zenon DEF Mixed, Reference
<1> QED
  BY <1>7 DEF b

(* The comparisons of optionals, an empty one below every value.           *)
LEMMA OptionalBelowFacts ==
  ASSUME NEW a \in OptionalStates, NEW b \in OptionalStates,
         a.alive # "absent", b.alive # "absent",
         a.val # Moved, b.val # Moved
  PROVE  /\ a.hasValue \in BOOLEAN /\ b.hasValue \in BOOLEAN
         /\ a.hasValue => a.val \in Int
         /\ b.hasValue => b.val \in Int
         /\ (a = b) <=> (a.hasValue <=> b.hasValue) /\ (a.hasValue => a.val = b.val)
<1>1. a.hasValue \in BOOLEAN /\ b.hasValue \in BOOLEAN
  BY OptionalRead
<1>2. (a.hasValue => a.val \in Int) /\ (b.hasValue => b.val \in Int)
  BY OptionalParts, ResultAssumption
<1>3. ASSUME a.hasValue <=> b.hasValue, a.hasValue => a.val = b.val PROVE a = b
  BY <1>3, OptionalParts
<1> QED
  BY <1>1, <1>2, <1>3

LEMMA OptionalComparisons ==
  ASSUME NEW a \in OptionalStates, NEW b \in OptionalStates,
         a.alive # "absent", b.alive # "absent",
         a.val # Moved, b.val # Moved
  PROVE  /\ O!Reference(a, b) =
              <<O!optionalEq(a, b), O!optionalLt(a, b), O!optionalLe(a, b),
                O!optionalGt(a, b), O!optionalGe(a, b)>>
         /\ O!optionalNe(a, b) = ~O!optionalEq(a, b)
<1>1. /\ a.hasValue \in BOOLEAN /\ b.hasValue \in BOOLEAN
      /\ a.hasValue => a.val \in Int
      /\ b.hasValue => b.val \in Int
  BY OptionalBelowFacts
<1>2. (a = b) <=> (a.hasValue <=> b.hasValue) /\ (a.hasValue => a.val = b.val)
  BY OptionalBelowFacts
<1>3. (a = b) = O!optionalEq(a, b)
  <2>1. (a = b) <=> O!optionalEq(a, b)
    BY <1>1, <1>2 DEF O!optionalEq
  <2> QED
    BY <2>1 DEF O!optionalEq
<1>4. O!optionalNe(a, b) = ~O!optionalEq(a, b)
  <2>1. O!optionalNe(a, b) <=> ~O!optionalEq(a, b)
    BY <1>1 DEF O!optionalNe, O!optionalEq
  <2> QED
    BY <2>1 DEF O!optionalNe, O!optionalEq
<1>5. (~TRUE) = FALSE /\ (~FALSE) = TRUE
  OBVIOUS
<1>6. ASSUME a.hasValue, b.hasValue
      PROVE  /\ O!Below(a, b) = O!optionalLt(a, b)
             /\ (~O!Below(b, a)) = O!optionalLe(a, b)
             /\ O!Below(b, a) = O!optionalGt(a, b)
             /\ (~O!Below(a, b)) = O!optionalGe(a, b)
  <2>1. O!Below(a, b) = (a.val < b.val) /\ O!Below(b, a) = (b.val < a.val)
    BY <1>6 DEF O!Below
  <2>2. /\ O!optionalLt(a, b) = (a.val < b.val)
        /\ O!optionalLe(a, b) = (a.val <= b.val)
        /\ O!optionalGt(a, b) = (a.val > b.val)
        /\ O!optionalGe(a, b) = (a.val >= b.val)
    BY <1>6 DEF O!optionalLt, O!optionalLe, O!optionalGt, O!optionalGe, O!BothHold
  <2> QED
    BY <1>1, <1>6, <2>1, <2>2, NumberFacts, Zenon
<1>7. ASSUME ~a.hasValue, b.hasValue
      PROVE  /\ O!Below(a, b) = O!optionalLt(a, b)
             /\ (~O!Below(b, a)) = O!optionalLe(a, b)
             /\ O!Below(b, a) = O!optionalGt(a, b)
             /\ (~O!Below(a, b)) = O!optionalGe(a, b)
  <2>1. O!Below(a, b) = TRUE /\ O!Below(b, a) = FALSE
    BY <1>7 DEF O!Below
  <2>2. /\ O!optionalLt(a, b) = TRUE /\ O!optionalLe(a, b) = TRUE
        /\ O!optionalGt(a, b) = FALSE /\ O!optionalGe(a, b) = FALSE
    BY <1>7 DEF O!optionalLt, O!optionalLe, O!optionalGt, O!optionalGe,
                O!BothHold, O!Ordinal
  <2> QED
    BY <1>5, <2>1, <2>2, Zenon
<1>8. ASSUME a.hasValue, ~b.hasValue
      PROVE  /\ O!Below(a, b) = O!optionalLt(a, b)
             /\ (~O!Below(b, a)) = O!optionalLe(a, b)
             /\ O!Below(b, a) = O!optionalGt(a, b)
             /\ (~O!Below(a, b)) = O!optionalGe(a, b)
  <2>1. O!Below(a, b) = FALSE /\ O!Below(b, a) = TRUE
    BY <1>8 DEF O!Below
  <2>2. /\ O!optionalLt(a, b) = FALSE /\ O!optionalLe(a, b) = FALSE
        /\ O!optionalGt(a, b) = TRUE /\ O!optionalGe(a, b) = TRUE
    BY <1>8 DEF O!optionalLt, O!optionalLe, O!optionalGt, O!optionalGe,
                O!BothHold, O!Ordinal
  <2> QED
    BY <1>5, <2>1, <2>2, Zenon
<1>9. ASSUME ~a.hasValue, ~b.hasValue
      PROVE  /\ O!Below(a, b) = O!optionalLt(a, b)
             /\ (~O!Below(b, a)) = O!optionalLe(a, b)
             /\ O!Below(b, a) = O!optionalGt(a, b)
             /\ (~O!Below(a, b)) = O!optionalGe(a, b)
  <2>1. O!Below(a, b) = FALSE /\ O!Below(b, a) = FALSE
    BY <1>9 DEF O!Below
  <2>2. /\ O!optionalLt(a, b) = FALSE /\ O!optionalLe(a, b) = TRUE
        /\ O!optionalGt(a, b) = FALSE /\ O!optionalGe(a, b) = TRUE
    BY <1>9 DEF O!optionalLt, O!optionalLe, O!optionalGt, O!optionalGe,
                O!BothHold, O!Ordinal
  <2> QED
    BY <1>5, <2>1, <2>2, Zenon
<1>10. /\ O!Below(a, b) = O!optionalLt(a, b)
       /\ (~O!Below(b, a)) = O!optionalLe(a, b)
       /\ O!Below(b, a) = O!optionalGt(a, b)
       /\ (~O!Below(a, b)) = O!optionalGe(a, b)
  BY <1>1, <1>6, <1>7, <1>8, <1>9
<1> QED
  BY <1>3, <1>4, <1>10, Zenon DEF O!Reference

LEMMA FiveFacts ==
  ASSUME NEW c1, NEW c2, NEW c3, NEW c4, NEW c5, NEW i
  PROVE  [k \in 1 .. 5 |-> <<c1, c2, c3, c4, c5>>[k][i]] =
           <<c1[i], c2[i], c3[i], c4[i], c5[i]>>
BY SMT

LEMMA OptionalValueComparisons ==
  ASSUME NEW a \in OptionalStates, a.alive # "absent", a.val # Moved,
         NEW v \in Values
  PROVE  LET six == <<O!valueEq(a, v), O!valueLt(a, v), O!valueLe(a, v),
                      O!valueGt(a, v), O!valueGe(a, v)>>
         IN /\ [k \in 1 .. 5 |-> six[k][1]] = O!Reference(a, O!alternative(v))
            /\ [k \in 1 .. 5 |-> six[k][2]] = O!Reference(O!alternative(v), a)
<1> DEFINE b == O!alternative(v)
<1>1. /\ b \in OptionalStates /\ b.alive # "absent" /\ b.val = v
      /\ b.hasValue = TRUE /\ v # Moved /\ v \in Int
  BY ResultAssumption DEF OptionalStates, O!alternative
<1> HIDE DEF b
<1>2. /\ a.hasValue \in BOOLEAN
      /\ a.hasValue => a.val \in Int
      /\ (a = b) <=> a.hasValue /\ a.val = v
  BY <1>1, OptionalBelowFacts
<1>3. (a = b) = O!valueEq(a, v)[1] /\ (b = a) = O!valueEq(a, v)[2]
  BY <1>2 DEF O!valueEq
<1>4. /\ O!Below(a, b) = O!valueLt(a, v)[1] /\ O!Below(b, a) = O!valueLt(a, v)[2]
      /\ (~O!Below(b, a)) = O!valueLe(a, v)[1] /\ (~O!Below(a, b)) = O!valueLe(a, v)[2]
      /\ O!Below(b, a) = O!valueGt(a, v)[1] /\ O!Below(a, b) = O!valueGt(a, v)[2]
      /\ (~O!Below(a, b)) = O!valueGe(a, v)[1] /\ (~O!Below(b, a)) = O!valueGe(a, v)[2]
  <2>1. CASE a.hasValue
    <3>1. O!Below(a, b) = (a.val < v) /\ O!Below(b, a) = (v < a.val)
      BY <1>1, <2>1 DEF O!Below
    <3>2. /\ O!valueLt(a, v)[1] = (a.val < v) /\ O!valueLt(a, v)[2] = (v < a.val)
          /\ O!valueLe(a, v)[1] = (a.val <= v) /\ O!valueLe(a, v)[2] = (v <= a.val)
          /\ O!valueGt(a, v)[1] = (a.val > v) /\ O!valueGt(a, v)[2] = (v > a.val)
          /\ O!valueGe(a, v)[1] = (a.val >= v) /\ O!valueGe(a, v)[2] = (v >= a.val)
      BY <2>1 DEF O!valueLt, O!valueLe, O!valueGt, O!valueGe
    <3> QED
      BY <1>1, <1>2, <2>1, <3>1, <3>2, NumberFacts, Zenon
  <2>2. CASE ~a.hasValue
    <3>1. O!Below(a, b) = TRUE /\ O!Below(b, a) = FALSE
      BY <1>1, <2>2 DEF O!Below
    <3>2. /\ O!valueLt(a, v)[1] = TRUE /\ O!valueLt(a, v)[2] = FALSE
          /\ O!valueLe(a, v)[1] = TRUE /\ O!valueLe(a, v)[2] = FALSE
          /\ O!valueGt(a, v)[1] = FALSE /\ O!valueGt(a, v)[2] = TRUE
          /\ O!valueGe(a, v)[1] = FALSE /\ O!valueGe(a, v)[2] = TRUE
      BY <2>2 DEF O!valueLt, O!valueLe, O!valueGt, O!valueGe
    <3>3. (~TRUE) = FALSE /\ (~FALSE) = TRUE
      OBVIOUS
    <3> QED
      BY <3>1, <3>2, <3>3, Zenon
  <2> QED
    BY <2>1, <2>2
<1> DEFINE six == <<O!valueEq(a, v), O!valueLt(a, v), O!valueLe(a, v),
                     O!valueGt(a, v), O!valueGe(a, v)>>
<1>5. [k \in 1 .. 5 |-> six[k][1]] =
        <<O!valueEq(a, v)[1], O!valueLt(a, v)[1], O!valueLe(a, v)[1],
          O!valueGt(a, v)[1], O!valueGe(a, v)[1]>>
  BY FiveFacts
<1>6. [k \in 1 .. 5 |-> six[k][2]] =
        <<O!valueEq(a, v)[2], O!valueLt(a, v)[2], O!valueLe(a, v)[2],
          O!valueGt(a, v)[2], O!valueGe(a, v)[2]>>
  BY FiveFacts
<1>7. /\ O!Reference(a, b) =
           <<O!valueEq(a, v)[1], O!valueLt(a, v)[1], O!valueLe(a, v)[1],
             O!valueGt(a, v)[1], O!valueGe(a, v)[1]>>
      /\ O!Reference(b, a) =
           <<O!valueEq(a, v)[2], O!valueLt(a, v)[2], O!valueLe(a, v)[2],
             O!valueGt(a, v)[2], O!valueGe(a, v)[2]>>
  BY <1>3, <1>4, Zenon DEF O!Reference
<1> QED
  BY <1>5, <1>6, <1>7, Zenon DEF b

(* The comparison operators of results, failures and optionals, and those  *)
(* with plain values, agree with one total order per class, whatever the   *)
(* values and the errors and however the objects came about (the           *)
(* comparison operators of Result.hpp and Optional.hpp).                   *)
THEOREM ComparisonsTheorem == MCSpec => []AllComparisonsAgree
<1>1. AllInv => ComparisonsAgree
  <2> HAVE AllInv
  <2>1. \A a \in Comparable : Held(a)
    BY ComparableHeld DEF AllInv
  <2>2. ASSUME NEW a \in Comparable, NEW b \in Comparable
        PROVE  /\ OfValue(a) /\ OfValue(b) =>
                    Reference(a, b) =
                      <<resultEq(a, b), resultNe(a, b), resultLt(a, b),
                        resultLe(a, b), resultGt(a, b), resultGe(a, b)>>
               /\ OfVoid(a) /\ OfVoid(b) =>
                    Reference(a, b) =
                      <<voidEq(a, b), voidNe(a, b), voidLt(a, b),
                        voidLe(a, b), voidGt(a, b), voidGe(a, b)>>
               /\ OfVoid(a) /\ OfVoid(b) /\ OfValue(a) /\ OfValue(b) =>
                    Reference(a, b) =
                      <<failureEq(a.val, b.val), failureNe(a.val, b.val),
                        failureLt(a.val, b.val), failureLe(a.val, b.val),
                        failureGt(a.val, b.val), failureGe(a.val, b.val)>>
    BY <2>1, ResultComparisons, VoidComparisons, FailureComparisons, Zenon
  <2>3. ASSUME NEW a \in Comparable, OfValue(a), NEW v \in Values
        PROVE  Mixed(<<valueEq(a, v), valueNe(a, v), valueLt(a, v),
                       valueLe(a, v), valueGt(a, v), valueGe(a, v)>>,
                     a, alternative("value", v))
    BY <2>1, <2>3, ValueComparisons, Zenon
  <2>4. ASSUME NEW a \in Comparable, NEW e \in Errors
        PROVE  Mixed(<<errorEq(a, e), errorNe(a, e), errorLt(a, e),
                       errorLe(a, e), errorGt(a, e), errorGe(a, e)>>,
                     a, alternative("error", e))
    BY <2>1, ErrorComparisons, Zenon
  <2> QED
    BY <2>2, <2>3, <2>4, Zenon DEF ComparisonsAgree
<1>2. AllInv => O!OptionalComparisonsAgree
  <2> HAVE AllInv
  <2> DEFINE C == {opt[x] : x \in {z \in Opts : O!Exists(z) /\ opt[z].val # Moved}}
  <2>1. \A a \in C : a \in OptionalStates /\ a.alive # "absent" /\ a.val # Moved
    BY DEF AllInv, OptionalInv, O!Exists
  <2> HIDE DEF C
  <2>2. \A a, b \in C :
          /\ O!Reference(a, b) =
               <<O!optionalEq(a, b), O!optionalLt(a, b), O!optionalLe(a, b),
                 O!optionalGt(a, b), O!optionalGe(a, b)>>
          /\ O!optionalNe(a, b) = ~O!optionalEq(a, b)
    BY <2>1, OptionalComparisons, Zenon
  <2>3. \A a \in C : \A v \in Values :
          LET six == <<O!valueEq(a, v), O!valueLt(a, v), O!valueLe(a, v),
                       O!valueGt(a, v), O!valueGe(a, v)>>
          IN /\ [k \in 1 .. 5 |-> six[k][1]] = O!Reference(a, O!alternative(v))
             /\ [k \in 1 .. 5 |-> six[k][2]] = O!Reference(O!alternative(v), a)
    BY <2>1, OptionalValueComparisons, Zenon
  <2> QED
    BY <2>2, <2>3, Zenon DEF O!OptionalComparisonsAgree, C
<1> QED
  BY <1>1, <1>2, Invariance, PTL DEF AllComparisonsAgree

-----------------------------------------------------------------------------
(* Results and optionals as a sum type.  Every step is shown to be a step  *)
(* of SumType, by the names of its calls.                                  *)

(* What a call promises, one fact for each name.                           *)
LEMMA EffectNames ==
  ASSUME NEW x, NEW y
  PROVE  /\ ST!Effect("put", x, y) <=> \E a \in ST!Alternatives : ST!Copy(x, a)
         /\ ST!Effect("copy", x, y) <=> ST!Copy(x, slots[y])
         /\ ST!Effect("convert", x, y) <=> ST!Copy(x, ST!Converted(slots[y]))
         /\ ST!Effect("move", x, y) <=> ST!Move(x, y, slots[y])
         /\ ST!Effect("convertMove", x, y) <=>
              ST!Move(x, y, ST!Converted(slots[y]))
         /\ ST!Effect("discard", x, y) <=> ST!Copy(x, ST!Discarded(slots[y]))
         /\ ST!Effect("discardMove", x, y) <=>
              slots' = [slots EXCEPT
                          ![y] = IF @.tag = "value" THEN @ ELSE ST!MovedFrom(@),
                          ![x] = ST!Discarded(slots[y])]
         /\ ST!Effect("swap", x, y) <=>
              slots' = [slots EXCEPT ![x] = slots[y], ![y] = slots[x]]
         /\ ST!Effect("then", x, y) <=> ST!Apply(x, y, "value", slots[y])
         /\ ST!Effect("thenMove", x, y) <=>
              ST!Apply(x, y, "value", ST!MovedFrom(slots[y]))
         /\ ST!Effect("orElse", x, y) <=> ST!Apply(x, y, "other", slots[y])
         /\ ST!Effect("orElseMove", x, y) <=>
              ST!Apply(x, y, "other", ST!MovedFrom(slots[y]))
         /\ ST!Effect("take", x, y) <=> ST!Copy(x, ST!MovedFrom(slots[x]))
         /\ ST!Effect("observe", x, y) <=> UNCHANGED slots
         /\ ST!Effect("drop", x, y) <=> ST!Copy(x, ST!Absent)
         /\ ST!Effect("throwPut", x, y) <=>
              UNCHANGED slots \/ ST!Copy(x, ST!Broken)
         /\ ST!Effect("throw", x, y) <=> ST!Throw(x, y)
         /\ ST!Effect("throwSwap", x, y) <=> ST!ThrowSwap(x, y)
BY DEF ST!Effect

(* An object is its storage with the union and the discriminator hidden.   *)
Tag(hasValue) == IF hasValue THEN "value" ELSE "other"
Shown(s) == CASE s.alive = "absent" -> ST!Absent
              [] s.alive # "absent" /\ ~Sound(s) -> ST!Broken
              [] OTHER -> [tag |-> Tag(s.hasValue), val |-> s.val]

LEMMA SlotsDomain == slots = [x \in Results \cup Opts |-> slots[x]]
BY DEF slots

LEMMA ResultSlot ==
  ASSUME NEW x \in Results
  PROVE  slots[x] = Shown(obj[x]) /\ slots'[x] = Shown(obj'[x])
BY Zenon DEF slots, Slot, Shown, Tag, Exists, ST!Absent, ST!Broken

(* The content of a result that holds what its discriminator says.         *)
LEMMA ShownSound ==
  ASSUME NEW x, NEW s, Typed(x, s), Sound(s)
  PROVE  /\ Shown(s) = [tag |-> Tag(s.hasValue), val |-> s.val]
         /\ Shown(s) \in ST!Alternatives
         /\ Shown(s).tag = Tag(s.hasValue) /\ Shown(s).val = s.val
         /\ payload(s) = s.val /\ s.alive # "absent"
<1>1. s.alive # "absent"
  BY DEF Sound, member
<1>2. Shown(s) = [tag |-> Tag(s.hasValue), val |-> s.val]
  BY <1>1, Zenon DEF Shown
<1>3. s.val \in Payload
  BY DEF Typed, Storage
<1> QED
  BY <1>1, <1>2, <1>3 DEF ST!Alternatives, Tag, payload

(* The same result after it was moved from.                                *)
LEMMA ShownMoved ==
  ASSUME NEW x, NEW s, Typed(x, s), Sound(s)
  PROVE  /\ Shown(movedFrom(s)) = ST!MovedFrom(Shown(s))
         /\ Sound(movedFrom(s)) /\ Typed(x, movedFrom(s))
<1>1. Shown(s) = [tag |-> Tag(s.hasValue), val |-> s.val] /\ s \in Storage
  BY ShownSound DEF Typed
<1>2. Sound(movedFrom(s)) /\ Typed(x, movedFrom(s)) /\ movedFrom(s).hasValue = s.hasValue
  <2>1. /\ movedFrom(s).hasValue = s.hasValue /\ movedFrom(s).alive = s.alive
        /\ Typed(x, movedFrom(s))
    BY ReadTyped
  <2> QED
    BY <2>1 DEF Sound, member
<1>3. Shown(movedFrom(s)) = [tag |-> Tag(s.hasValue), val |-> movedFrom(s).val]
  BY <1>2, ShownSound
<1>4. CASE s.val = Unit
  BY <1>1, <1>3, <1>4 DEF movedFrom, ST!MovedFrom
<1>5. CASE s.val # Unit
  <2>1. movedFrom(s).val = Moved
    BY <1>1, <1>5 DEF movedFrom, Storage
  <2>2. ST!MovedFrom(Shown(s)) = [Shown(s) EXCEPT !.val = Moved]
    BY <1>1, <1>5 DEF ST!MovedFrom
  <2> QED
    BY <1>1, <1>2, <1>3, <2>1, <2>2
<1> QED
  BY <1>2, <1>4, <1>5

(* A result whose member is not the one its discriminator names is broken, *)
(* and so is one whose member was destroyed; an absent one is absent.      *)
LEMMA ShownOthers ==
  ASSUME NEW s
  PROVE  /\ ~Fit(s) => Shown(s) = ST!Broken
         /\ s \in Storage => Shown(destroy(s)) = ST!Broken
         /\ s.alive = "absent" => Shown(s) = ST!Absent
<1>1. ~Fit(s) => Shown(s) = ST!Broken
  BY Zenon DEF Fit, Shown
<1>2. s.alive = "absent" => Shown(s) = ST!Absent
  BY Zenon DEF Shown
<1>3. ASSUME s \in Storage PROVE Shown(destroy(s)) = ST!Broken
  <2>1. destroy(s).alive = "none" /\ ~Fit(destroy(s))
    BY <1>3 DEF destroy, Storage, Fit, Sound, member
  <2> QED
    BY <2>1, Zenon DEF Fit, Shown
<1> QED
  BY <1>1, <1>2, <1>3

LEMMA ShownAlternative ==
  ASSUME NEW m \in {"value", "error"}, NEW p
  PROVE  /\ Shown(alternative(m, p)) = [tag |-> Tag(m = "value"), val |-> p]
         /\ Shown(alternative(m, p)).tag = Tag(m = "value")
         /\ Shown(alternative(m, p)).val = p
         /\ p \in Payload => Shown(alternative(m, p)) \in ST!Alternatives
<1>1. /\ alternative(m, p).alive = m /\ alternative(m, p).hasValue = (m = "value")
      /\ alternative(m, p).val = p
  BY DEF alternative
<1>2. Sound(alternative(m, p)) /\ m # "absent"
  BY <1>1 DEF Sound, member
<1>3. Shown(alternative(m, p)) = [tag |-> Tag(m = "value"), val |-> p]
  BY <1>1, <1>2, Zenon DEF Shown
<1> QED
  BY <1>3 DEF ST!Alternatives, Tag

(* constructFromResult() and assignFromResult() give the other result's    *)
(* alternative, with the payload that comes from it.                       *)
LEMMA ShownFromResult ==
  ASSUME NEW x, NEW s, Typed(x, s), NEW r, r.hasValue \in BOOLEAN,
         NEW p \in Contents(x, r.hasValue)
  PROVE  /\ s.alive = "none" =>
              /\ Shown(constructFromResult(s, r, p)) = [tag |-> Tag(r.hasValue), val |-> p]
              /\ Sound(constructFromResult(s, r, p))
         /\ Sound(s) =>
              /\ Shown(assignFromResult(s, r, p)) = [tag |-> Tag(r.hasValue), val |-> p]
              /\ Sound(assignFromResult(s, r, p))
<1>1. ASSUME NEW t \in Storage, t.alive = "none"
      PROVE  /\ constructFromResult(t, r, p).hasValue = r.hasValue
             /\ constructFromResult(t, r, p).val = p
             /\ Sound(constructFromResult(t, r, p))
  BY <1>1 DEF constructFromResult, constructValue, constructError, construct, Sound, member
<1>2. /\ s \in Storage /\ Typed(x, destroy(s)) /\ destroy(s).alive = "none"
      /\ destroy(s) \in Storage
  BY ReadTyped DEF Typed
<1>3. ASSUME s.alive = "none"
      PROVE  /\ Shown(constructFromResult(s, r, p)) = [tag |-> Tag(r.hasValue), val |-> p]
             /\ Sound(constructFromResult(s, r, p))
  <2>1. Typed(x, constructFromResult(s, r, p))
    BY FromResultTyped
  <2> QED
    BY <1>1, <1>2, <1>3, <2>1, ShownSound
<1>4. ASSUME Sound(s)
      PROVE  /\ Shown(assignFromResult(s, r, p)) = [tag |-> Tag(r.hasValue), val |-> p]
             /\ Sound(assignFromResult(s, r, p))
  <2>1. Typed(x, assignFromResult(s, r, p))
    BY FromResultTyped
  <2>2. /\ assignFromResult(s, r, p).hasValue = r.hasValue
        /\ assignFromResult(s, r, p).val = p
        /\ Sound(assignFromResult(s, r, p))
    <3>1. CASE s.hasValue # r.hasValue
      BY <1>1, <1>2, <3>1 DEF assignFromResult
    <3>2. CASE s.hasValue = r.hasValue
      <4>1. assignFromResult(s, r, p) = [s EXCEPT !.val = p]
        BY <3>2 DEF assignFromResult
      <4> QED
        BY <1>2, <1>4, <3>2, <4>1 DEF Storage, Sound, member
    <3> QED
      BY <3>1, <3>2
  <2> QED
    BY <2>1, <2>2, ShownSound
<1> QED
  BY <1>3, <1>4

(* A result that claims a value has one, and the value of Result<void, E>  *)
(* is never moved from: what a mapping of an error hands on.               *)
Valued(x, s) == s.hasValue => s.alive = "value" /\ (x \in VoidObjs => s.val = Unit)
ValueInv == \A x \in Results : Valued(x, obj[x])

LEMMA ValuedFacts ==
  ASSUME NEW x, NEW s, Typed(x, s)
  PROVE  /\ Valued(x, s) => Valued(x, movedFrom(s))
         /\ Valued(x, destroy(s)) /\ Valued(x, Absent)
         /\ Valued(x, s) => \A h \in BOOLEAN : Valued(x, thrownInto(s, h))
         /\ \A p : Valued(x, alternative("error", p))
         /\ \A p : (x \in VoidObjs => p = Unit) => Valued(x, alternative("value", p))
<1>1. s \in Storage
  BY DEF Typed
<1>2. Valued(x, s) => Valued(x, movedFrom(s))
  BY <1>1 DEF Valued, movedFrom, Storage, Sound, member
<1>3. Valued(x, destroy(s)) /\ Valued(x, Absent)
  BY <1>1 DEF Valued, destroy, Storage, Absent
<1>4. \A p : Valued(x, alternative("error", p))
  BY DEF Valued, alternative
<1>5. \A p : (x \in VoidObjs => p = Unit) => Valued(x, alternative("value", p))
  BY DEF Valued, alternative
<1> QED
  BY <1>2, <1>3, <1>4, <1>5 DEF thrownInto

(* The payload that a result of the same type takes from r.                *)
LEMMA ValuedFromResult ==
  ASSUME NEW x, NEW s, Typed(x, s), Valued(x, s), NEW r, r.hasValue \in BOOLEAN,
         NEW p \in Contents(x, r.hasValue),
         r.hasValue /\ x \in VoidObjs => p = Unit
  PROVE  /\ s.alive = "none" => Valued(x, constructFromResult(s, r, p))
         /\ Valued(x, assignFromResult(s, r, p))
<1>1. ASSUME NEW t \in Storage, t.alive = "none"
      PROVE  Valued(x, constructFromResult(t, r, p))
  BY <1>1 DEF constructFromResult, constructValue, constructError, construct, Valued
<1>2. s \in Storage /\ destroy(s) \in Storage /\ destroy(s).alive = "none"
  BY ReadTyped DEF Typed
<1>3. CASE s.hasValue # r.hasValue
  BY <1>1, <1>2, <1>3 DEF assignFromResult
<1>4. CASE s.hasValue = r.hasValue
  <2>1. assignFromResult(s, r, p) = [s EXCEPT !.val = p]
    BY <1>4 DEF assignFromResult
  <2>2. Valued(x, [s EXCEPT !.val = p])
    BY <1>2, <1>4 DEF Storage, Valued
  <2> QED
    BY <1>1, <1>2, <2>1, <2>2
<1> QED
  BY <1>3, <1>4

(* The step makes x and y hold a and b and leaves the other results and    *)
(* the optionals alone.                                                    *)
Written(x, a, y, b) ==
  /\ \A z \in Results :
       obj'[z] = IF z = x THEN a ELSE IF z = y THEN b ELSE obj[z]
  /\ opt' = opt

LEMMA SlotsAfter ==
  ASSUME NEW x \in Results, NEW y \in Results, NEW a, NEW b,
         Written(x, a, y, b)
  PROVE  /\ slots' = [[slots EXCEPT ![y] = Shown(b)] EXCEPT ![x] = Shown(a)]
         /\ slots[x] = Shown(obj[x]) /\ slots[y] = Shown(obj[y])
         /\ x \in Results \cup Opts /\ y \in Results \cup Opts
         /\ \A z \in (Results \cup Opts) \ {x, y} : slots'[z] = slots[z]
<1>1. DOMAIN slots = Results \cup Opts /\ DOMAIN slots' = Results \cup Opts
  BY DEF slots
<1>2. /\ slots = [z \in Results \cup Opts |-> slots[z]]
      /\ slots' = [z \in Results \cup Opts |-> slots'[z]]
  BY SlotsDomain DEF slots
<1>3. ASSUME NEW z \in Results
      PROVE slots'[z] = IF z = x THEN Shown(a) ELSE IF z = y THEN Shown(b) ELSE slots[z]
  BY ResultSlot DEF Written
<1>4. ASSUME NEW z \in (Results \cup Opts) \ Results PROVE slots'[z] = slots[z]
  BY Zenon DEF slots, O!Slot, O!Exists, Written
<1>5. ASSUME NEW z \in Results \cup Opts
      PROVE slots'[z] = [[slots EXCEPT ![y] = Shown(b)] EXCEPT ![x] = Shown(a)][z]
  BY <1>1, <1>3, <1>4
<1>6. slots' = [[slots EXCEPT ![y] = Shown(b)] EXCEPT ![x] = Shown(a)]
  BY <1>1, <1>2, <1>5
<1> QED
  BY <1>3, <1>4, <1>6, ResultSlot

(* A step that writes two results is one of the sum type if it does what   *)
(* its name says, or if one of the two was broken.                         *)
Names == {"put", "copy", "move", "convert", "convertMove", "discard",
          "discardMove", "swap", "then", "thenMove", "orElse", "orElseMove",
          "take", "observe", "drop", "throwPut", "throw", "throwSwap"}

LEMMA Simulated ==
  ASSUME ValueInv, NEW x \in Results, NEW y \in Results, NEW a, NEW b,
         Written(x, a, y, b), Valued(x, a), Valued(y, b),
         NEW name \in Names, Called(name, x, y),
         Fit(obj[x]) /\ Fit(obj[y]) => ST!Effect(name, x, y)
  PROVE  ST!Next /\ ValueInv'
<1>1. ValueInv'
  BY DEF ValueInv, Written
<1>2. op' = [name |-> name, x |-> x, y |-> y]
  BY DEF Called
<1>3. op' \in ST!Ops /\ op'.name = name /\ op'.x = x /\ op'.y = y
  <2>1. x \in Results \cup Opts /\ y \in Results \cup Opts
    OBVIOUS
  <2> QED
    BY <1>2, <2>1 DEF ST!Ops, Names
<1>4. CASE Fit(obj[x]) /\ Fit(obj[y])
  BY <1>1, <1>3, <1>4 DEF ST!Next
<1>5. CASE ~Fit(obj[x]) \/ ~Fit(obj[y])
  <2>1. ST!Broken \in {slots[x], slots[y]}
    BY <1>5, SlotsAfter, ShownOthers
  <2>2. ST!Unspecified(x, y)
    BY <2>1, SlotsAfter DEF ST!Unspecified
  <2> QED
    BY <1>1, <1>3, <2>2 DEF ST!Next
<1> QED
  BY <1>4, <1>5

(* The same with one write: y may be x.                                    *)
LEMMA OneSimulated ==
  ASSUME ValueInv, NEW x \in Results, NEW y \in Results, NEW a,
         Written(x, a, x, a), Valued(x, a)
  PROVE  /\ slots' = [slots EXCEPT ![x] = Shown(a)]
         /\ slots[x] = Shown(obj[x]) /\ slots[y] = Shown(obj[y])
         /\ Shown(a) = Shown(obj[x]) => slots' = slots
         /\ \A name \in Names :
              /\ Called(name, x, y)
              /\ Fit(obj[x]) /\ Fit(obj[y]) => ST!Effect(name, x, y)
              => ST!Next /\ ValueInv'
<1>1. PICK b : b = IF y = x THEN a ELSE obj[y]
  OBVIOUS
<1>2. Written(x, a, y, b)
  BY <1>1 DEF Written
<1>3. Valued(y, b)
  BY <1>1 DEF ValueInv
<1>4. /\ slots' = [[slots EXCEPT ![x] = Shown(a)] EXCEPT ![x] = Shown(a)]
      /\ slots[x] = Shown(obj[x]) /\ x \in Results \cup Opts
  BY SlotsAfter
<1>5. slots' = [slots EXCEPT ![x] = Shown(a)]
  BY <1>4, SlotsDomain
<1>6. Shown(a) = Shown(obj[x]) => slots' = slots
  BY <1>4, <1>5, SlotsDomain
<1>7. slots[y] = Shown(obj[y])
  BY ResultSlot
<1> QED
  BY <1>2, <1>3, <1>4, <1>5, <1>6, <1>7, Simulated

(* x takes the content of y, or its conversion, and y may be moved from.   *)
LEMMA TakeEffect ==
  ASSUME NEW x \in Results \cup Opts, NEW y \in Results \cup Opts, NEW t,
         NEW mv \in BOOLEAN,
         slots' = [[slots EXCEPT ![y] = IF mv THEN ST!MovedFrom(slots[y])
                                        ELSE slots[y]]
                     EXCEPT ![x] = IF mv /\ x = y THEN ST!MovedFrom(t) ELSE t]
  PROVE  /\ t = slots[y] => ST!Effect(CopyName(mv), x, y)
         /\ t = ST!Converted(slots[y]) => ST!Effect(ConvertName(mv), x, y)
<1>1. CASE mv
  <2>1. ST!Move(x, y, t)
    BY <1>1 DEF ST!Move
  <2>2. CopyName(mv) = "move" /\ ConvertName(mv) = "convertMove"
    BY <1>1 DEF CopyName, ConvertName
  <2>3. /\ ST!Effect("move", x, y) <=> ST!Move(x, y, slots[y])
        /\ ST!Effect("convertMove", x, y) <=>
             ST!Move(x, y, ST!Converted(slots[y]))
    BY EffectNames
  <2> QED
    BY <2>1, <2>2, <2>3, Zenon
<1>2. CASE ~mv
  <2>1. slots' = [slots EXCEPT ![x] = t]
    <3>1. [slots EXCEPT ![y] = slots[y]] = slots
      BY SlotsDomain
    <3> QED
      BY <1>2, <3>1
  <2>2. ST!Copy(x, t)
    BY <2>1 DEF ST!Copy
  <2>3. CopyName(mv) = "copy" /\ ConvertName(mv) = "convert"
    BY <1>2 DEF CopyName, ConvertName
  <2>4. /\ ST!Effect("copy", x, y) <=> ST!Copy(x, slots[y])
        /\ ST!Effect("convert", x, y) <=> ST!Copy(x, ST!Converted(slots[y]))
    BY EffectNames
  <2> QED
    BY <2>2, <2>3, <2>4, Zenon
<1> QED
  BY <1>1, <1>2

LEMMA TakeNames ==
  ASSUME NEW mv
  PROVE  /\ CopyName(mv) \in Names /\ ConvertName(mv) \in Names
         /\ ThenName(mv) \in Names /\ OrElseName(mv) \in Names
BY DEF CopyName, ConvertName, ThenName, OrElseName, Names

LEMMA TakeSimulated ==
  ASSUME ResultInv, ValueInv, NEW x \in Results, NEW y \in Results,
         NEW mv \in BOOLEAN, NEW name, NEW p, NEW r,
         \/ name = CopyName(mv) /\ p = payload(obj[y])
         \/ name = ConvertName(mv) /\ p = Conv[payload(obj[y])],
         Exists(y), Typed(x, r), Valued(x, r), Called(name, x, y),
         Fit(obj[x]) /\ Fit(obj[y]) =>
           Sound(r) /\ Shown(r) = [tag |-> Tag(obj[y].hasValue), val |-> p],
         Written(x, IF mv /\ x = y THEN movedFrom(r) ELSE r,
                 y, IF mv THEN movedFrom(obj[y]) ELSE obj[y])
  PROVE  ST!Next /\ ValueInv'
<1>1. PICK a : a = IF mv /\ x = y THEN movedFrom(r) ELSE r
  OBVIOUS
<1>2. PICK b : b = IF mv THEN movedFrom(obj[y]) ELSE obj[y]
  OBVIOUS
<1>3. Written(x, a, y, b)
  BY <1>1, <1>2
<1>4. Typed(y, obj[y]) /\ Valued(y, obj[y])
  BY DEF ResultInv, ValueInv
<1>5. Valued(x, a) /\ Valued(y, b)
  BY <1>1, <1>2, <1>4, ValuedFacts
<1>6. name \in Names
  BY TakeNames
<1>7. ASSUME Fit(obj[x]), Fit(obj[y]) PROVE ST!Effect(name, x, y)
  <2>1. Sound(obj[y]) /\ Sound(r) /\ Shown(r) = [tag |-> Tag(obj[y].hasValue), val |-> p]
    BY <1>7 DEF Fit, Exists
  <2>2. /\ slots[y] = [tag |-> Tag(obj[y].hasValue), val |-> obj[y].val]
        /\ payload(obj[y]) = obj[y].val /\ slots[y] = Shown(obj[y])
    BY <1>4, <2>1, ShownSound, ResultSlot
  <2>3. Shown(b) = IF mv THEN ST!MovedFrom(slots[y]) ELSE slots[y]
    BY <1>2, <1>4, <2>1, <2>2, ShownMoved
  <2>4. Shown(a) = IF mv /\ x = y THEN ST!MovedFrom(Shown(r)) ELSE Shown(r)
    BY <1>1, <2>1, ShownMoved
  <2>5. slots' = [[slots EXCEPT ![y] = Shown(b)] EXCEPT ![x] = Shown(a)]
    BY <1>3, SlotsAfter
  <2>6. \/ name = CopyName(mv) /\ Shown(r) = slots[y]
        \/ name = ConvertName(mv) /\ Shown(r) = ST!Converted(slots[y])
    BY <2>1, <2>2 DEF ST!Converted
  <2>7. x \in Results \cup Opts /\ y \in Results \cup Opts
    OBVIOUS
  <2> QED
    BY <2>3, <2>4, <2>5, <2>6, <2>7, TakeEffect
<1> QED
  BY <1>3, <1>5, <1>6, <1>7, Simulated

LEMMA ConstructSimulated ==
  ASSUME ResultInv, ValueInv, NEW x \in Results, NEW y \in Results,
         NEW mv \in BOOLEAN, NEW name, NEW p, NEW flag \in BOOLEAN,
         SameType(x, y), opt' = opt,
         \/ name = CopyName(mv) /\ p = payload(obj[y])
         \/ name = ConvertName(mv) /\ p = Conv[payload(obj[y])],
         ConstructFrom(name, x, y,
           constructFromResult(monostate(flag), obj[y], p), mv)
  PROVE  ST!Next /\ ValueInv'
<1>1. PICK m : m = monostate(flag)
  OBVIOUS
<1>2. Typed(x, m) /\ m.alive = "none"
  BY <1>1, ContentsFacts DEF Typed, monostate, Storage, Payload
<1>3. p \in Contents(x, obj[y].hasValue) /\ obj[y].hasValue \in BOOLEAN
  BY PayloadTyped
<1>4. PICK r : r = constructFromResult(m, obj[y], p)
  OBVIOUS
<1>5. /\ Typed(x, r)
      /\ Sound(r) /\ Shown(r) = [tag |-> Tag(obj[y].hasValue), val |-> p]
  BY <1>2, <1>3, <1>4, FromResultTyped, ShownFromResult
<1>6. obj[y].hasValue /\ x \in VoidObjs => p = Unit
  <2>1. ASSUME obj[y].hasValue, x \in VoidObjs PROVE p = Unit
    <3>1. obj[y].val = Unit /\ Sound(obj[y])
      BY <2>1 DEF ValueInv, Valued, SameType, Sound, member
    <3> QED
      BY <3>1, ResultAssumption DEF payload
  <2> QED
    BY <2>1
<1>7. Valued(x, r)
  BY <1>2, <1>3, <1>4, <1>6
     DEF constructFromResult, constructValue, constructError, construct, Valued
<1>8. /\ ~Exists(x) /\ Exists(y) /\ Called(name, x, y)
      /\ obj' = [obj EXCEPT ![x] = r, ![y] = IF mv THEN movedFrom(@) ELSE @]
  BY <1>1, <1>4 DEF ConstructFrom
<1>9. Written(x, IF mv /\ x = y THEN movedFrom(r) ELSE r,
              y, IF mv THEN movedFrom(obj[y]) ELSE obj[y])
  BY <1>8 DEF Written, ResultInv
<1> QED
  BY <1>5, <1>7, <1>8, <1>9, TakeSimulated

LEMMA AssignSimulated ==
  ASSUME ResultInv, ValueInv, NEW x \in Results, NEW y \in Results,
         NEW mv \in BOOLEAN, NEW name, NEW p, opt' = opt,
         \/ name = CopyName(mv) /\ p = payload(obj[y])
         \/ name = ConvertName(mv) /\ p = Conv[payload(obj[y])],
         AssignFrom(name, x, y, p, mv)
  PROVE  ST!Next /\ ValueInv'
<1>1. SameType(x, y) /\ Exists(x) /\ Exists(y) /\ Called(name, x, y)
  BY DEF AssignFrom
<1>2. p \in Contents(x, obj[y].hasValue) /\ obj[y].hasValue \in BOOLEAN
  BY <1>1, PayloadTyped
<1>3. PICK r : r = assignFromResult(obj[x], obj[y], p)
  OBVIOUS
<1>4. Typed(x, obj[x]) /\ Valued(x, obj[x])
  BY DEF ResultInv, ValueInv
<1>5. /\ Typed(x, r)
      /\ Sound(obj[x]) =>
           Sound(r) /\ Shown(r) = [tag |-> Tag(obj[y].hasValue), val |-> p]
  BY <1>2, <1>3, <1>4, FromResultTyped, ShownFromResult
<1>6. obj[y].hasValue /\ x \in VoidObjs => p = Unit
  <2>1. ASSUME obj[y].hasValue, x \in VoidObjs PROVE p = Unit
    <3>1. obj[y].val = Unit /\ Sound(obj[y])
      BY <1>1, <2>1 DEF ValueInv, Valued, SameType, Sound, member
    <3> QED
      BY <3>1, ResultAssumption DEF payload
  <2> QED
    BY <2>1
<1>7. Valued(x, r)
  BY <1>2, <1>3, <1>4, <1>6, ValuedFromResult
<1>8. obj' = [obj EXCEPT ![y] = IF mv THEN movedFrom(@) ELSE @,
                         ![x] = IF mv /\ x = y THEN movedFrom(r) ELSE r]
  BY <1>3 DEF AssignFrom
<1>9. Written(x, IF mv /\ x = y THEN movedFrom(r) ELSE r,
              y, IF mv THEN movedFrom(obj[y]) ELSE obj[y])
  BY <1>8 DEF Written, ResultInv
<1>10. Fit(obj[x]) /\ Fit(obj[y]) =>
         Sound(r) /\ Shown(r) = [tag |-> Tag(obj[y].hasValue), val |-> p]
  BY <1>1, <1>5 DEF Fit, Exists
<1> QED
  BY <1>1, <1>5, <1>7, <1>9, <1>10, TakeSimulated

(* A Result<void, E> built from another result: the value is not looked    *)
(* at, an error is converted and may be moved.                             *)
LEMMA DiscardSimulated ==
  ASSUME ResultInv, ValueInv, NEW x \in VoidObjs, NEW y \in Results,
         NEW mv \in BOOLEAN, NEW flag \in BOOLEAN, opt' = opt,
         ConstructFrom(IF mv THEN "discardMove" ELSE "discard", x, y,
           constructErrorFromResult(monostate(flag), obj[y], Conv[payload(obj[y])]),
           mv /\ ~obj[y].hasValue)
  PROVE  ST!Next /\ ValueInv'
<1>1. PICK r : r = constructErrorFromResult(monostate(flag), obj[y], Conv[payload(obj[y])])
  OBVIOUS
<1>2. PICK b : b = IF mv /\ ~obj[y].hasValue THEN movedFrom(obj[y]) ELSE obj[y]
  OBVIOUS
<1>3. x \in Results /\ Typed(y, obj[y]) /\ Valued(y, obj[y]) /\ obj[y].hasValue \in BOOLEAN
  BY PayloadTyped DEF Results, ResultInv, ValueInv
<1>4. PICK name : name = IF mv THEN "discardMove" ELSE "discard"
  OBVIOUS
<1>5. /\ ~Exists(x) /\ Exists(y) /\ Called(name, x, y)
      /\ obj' = [obj EXCEPT ![x] = r,
                            ![y] = IF mv /\ ~obj[y].hasValue THEN movedFrom(@) ELSE @]
  BY <1>1, <1>4 DEF ConstructFrom
<1>6. Written(x, r, y, b) /\ x # y
  BY <1>2, <1>3, <1>5 DEF Written, ResultInv
<1>7. Typed(x, r)
  BY <1>1, NewErrorFromResult
<1>8. /\ r.hasValue = obj[y].hasValue /\ Sound(r)
      /\ r.val = IF obj[y].hasValue THEN Unit ELSE Conv[payload(obj[y])]
  BY <1>1, <1>3 DEF constructErrorFromResult, constructValue, constructError,
                    construct, monostate, Sound, member
<1>9. Valued(x, r) /\ Valued(y, b)
  <2>1. Valued(x, r)
    BY <1>8 DEF Valued, Sound, member
  <2> QED
    BY <1>2, <1>3, <2>1, ValuedFacts
<1>10. ASSUME Fit(obj[y]) PROVE ST!Effect(name, x, y)
  <2>1. Sound(obj[y])
    BY <1>5, <1>10 DEF Fit, Exists
  <2>2. /\ slots[y] = [tag |-> Tag(obj[y].hasValue), val |-> obj[y].val]
        /\ payload(obj[y]) = obj[y].val /\ slots[y] = Shown(obj[y])
        /\ slots[y].tag = Tag(obj[y].hasValue)
    BY <1>3, <2>1, ShownSound, ResultSlot
  <2>3. Shown(r) = [tag |-> Tag(obj[y].hasValue), val |-> r.val]
    BY <1>7, <1>8, ShownSound
  <2>4. Shown(r) = ST!Discarded(slots[y])
    BY <1>3, <1>8, <2>2, <2>3 DEF ST!Discarded, ST!Converted, Tag
  <2>5. slots' = [[slots EXCEPT ![y] = Shown(b)] EXCEPT ![x] = Shown(r)]
    BY <1>3, <1>6, SlotsAfter
  <2>6. CASE mv
    <3>1. Shown(b) = IF slots[y].tag = "value" THEN slots[y] ELSE ST!MovedFrom(slots[y])
      BY <1>2, <1>3, <2>1, <2>2, <2>6, ShownMoved DEF Tag
    <3>2. ST!Effect("discardMove", x, y)
      BY <2>4, <2>5, <3>1, EffectNames
    <3> QED
      BY <1>4, <2>6, <3>2
  <2>7. CASE ~mv
    <3>1. slots' = [slots EXCEPT ![x] = Shown(r)]
      BY <1>2, <2>2, <2>5, <2>7, SlotsDomain
    <3>2. ST!Copy(x, ST!Discarded(slots[y]))
      BY <2>4, <3>1 DEF ST!Copy
    <3>3. ST!Effect("discard", x, y) <=> ST!Copy(x, ST!Discarded(slots[y]))
      BY EffectNames
    <3> QED
      BY <1>4, <2>7, <3>2, <3>3, Zenon
  <2> QED
    BY <2>6, <2>7
<1>11. name \in Names
  BY <1>4 DEF Names
<1> QED
  BY <1>3, <1>5, <1>6, <1>9, <1>10, <1>11, Simulated

(* The steps that give a result an alternative of its own.                 *)
LEMMA PutSimulated ==
  ASSUME ResultInv, ValueInv, NEW x \in Results, NEW a, opt' = opt,
         obj' = [obj EXCEPT ![x] = a], Called("put", x, x),
         Typed(x, a), Valued(x, a), Fit(obj[x]) => Sound(a)
  PROVE  ST!Next /\ ValueInv'
<1>1. Written(x, a, x, a) /\ "put" \in Names
  BY DEF Written, ResultInv, Names
<1>2. ASSUME Fit(obj[x]) PROVE ST!Effect("put", x, x)
  <2>1. Shown(a) \in ST!Alternatives
    BY <1>2, ShownSound
  <2>2. ST!Copy(x, Shown(a))
    BY <1>1, OneSimulated DEF ST!Copy
  <2> QED
    BY <2>1, <2>2, EffectNames
<1> QED
  BY <1>1, <1>2, OneSimulated

LEMMA InPlaceSimulated ==
  ASSUME ResultInv, ValueInv, NEW x \in Results, opt' = opt,
         NEW m \in {"value", "error"}, NEW p \in Contents(x, m = "value"),
         m = "value" /\ x \in VoidObjs => p = Unit,
         obj' = [obj EXCEPT ![x] = alternative(m, p)], Called("put", x, x)
  PROVE  ST!Next /\ ValueInv'
<1>1. PICK a : a = alternative(m, p)
  OBVIOUS
<1>2. Typed(x, a)
  BY <1>1, BuiltTyped DEF ResultInv, Storage
<1>3. Valued(x, a) /\ Sound(a)
  BY <1>1 DEF Valued, alternative, Sound, member
<1>4. obj' = [obj EXCEPT ![x] = a]
  BY <1>1
<1> QED
  BY <1>2, <1>3, <1>4, PutSimulated

LEMMA ValueAssignSimulated ==
  ASSUME ResultInv, ValueInv, NEW x \in Results, opt' = opt,
         NEW a,
         \/ x \notin VoidObjs /\ \E v \in Contents(x, TRUE) : a = assignValue(obj[x], v)
         \/ \E e \in Contents(x, FALSE) : a = assignError(obj[x], e),
         Assign(x, a)
  PROVE  ST!Next /\ ValueInv'
<1>1. Typed(x, obj[x]) /\ Valued(x, obj[x]) /\ obj[x] \in Storage
  BY DEF ResultInv, ValueInv
<1>2. Typed(x, a) /\ (Fit(obj[x]) => Fit(a))
  BY <1>1, PutTyped
<1>3. Valued(x, a) /\ a.alive # "absent"
  <2>1. Exists(x)
    BY DEF Assign
  <2>2. ASSUME NEW v, x \notin VoidObjs, a = assignValue(obj[x], v)
        PROVE  Valued(x, a) /\ a.alive # "absent"
    <3>1. CASE obj[x].hasValue
      BY <1>1, <2>1, <2>2, <3>1 DEF assignValue, Valued, Storage, Exists
    <3>2. CASE ~obj[x].hasValue
      BY <1>1, <2>2, <3>2
         DEF assignValue, constructValue, construct, destroy, Valued, Storage
    <3> QED
      BY <3>1, <3>2
  <2>3. ASSUME NEW e, a = assignError(obj[x], e)
        PROVE  Valued(x, a) /\ a.alive # "absent"
    <3>1. CASE obj[x].hasValue
      BY <1>1, <2>3, <3>1
         DEF assignError, constructError, construct, destroy, Valued, Storage
    <3>2. CASE ~obj[x].hasValue
      BY <1>1, <2>1, <2>3, <3>2 DEF assignError, Valued, Storage, Exists
    <3> QED
      BY <3>1, <3>2
  <2> QED
    BY <2>2, <2>3
<1>4. Fit(obj[x]) => Sound(a)
  BY <1>2, <1>3 DEF Fit
<1> QED
  BY <1>2, <1>3, <1>4, PutSimulated DEF Assign

(* The steps that throw.                                                   *)
LEMMA PutThrowsSimulated ==
  ASSUME ResultInv, ValueInv, NEW x \in Results, opt' = opt,
         NEW h \in BOOLEAN, PutThrows(x, h)
  PROVE  ST!Next /\ ValueInv'
<1>1. Typed(x, obj[x]) /\ Valued(x, obj[x]) /\ obj[x] \in Storage
  BY DEF ResultInv, ValueInv
<1>2. PICK a : a = thrownInto(obj[x], h)
  OBVIOUS
<1>3. Valued(x, a)
  BY <1>1, <1>2, ValuedFacts
<1>4. Written(x, a, x, a) /\ Called("throwPut", x, x) /\ "throwPut" \in Names
  BY <1>2 DEF PutThrows, Throws, Written, ResultInv, Names
<1>5. Shown(a) = Shown(obj[x]) \/ Shown(a) = ST!Broken
  BY <1>1, <1>2, ShownOthers DEF thrownInto
<1>6. slots' = slots \/ ST!Copy(x, ST!Broken)
  BY <1>3, <1>4, <1>5, OneSimulated DEF ST!Copy
<1>7. ST!Effect("throwPut", x, x)
  BY <1>6, EffectNames
<1> QED
  BY <1>3, <1>4, <1>7, OneSimulated

LEMMA ConstructThrowsSimulated ==
  ASSUME ResultInv, ValueInv, NEW x \in Results, NEW y \in Results, opt' = opt,
         ConstructThrows(x, y)
  PROVE  ST!Next /\ ValueInv'
<1>1. PICK a : a = obj[x]
  OBVIOUS
<1>2. Valued(x, a)
  BY <1>1 DEF ValueInv
<1>3. Written(x, a, x, a) /\ Called("throw", x, y) /\ "throw" \in Names
  BY <1>1 DEF ConstructThrows, Throws, Written, Names
<1>4. slots' = slots
  BY <1>1, <1>2, <1>3, OneSimulated
<1>5. ST!Effect("throw", x, y)
  BY <1>4, EffectNames DEF ST!Throw
<1> QED
  BY <1>2, <1>3, <1>5, OneSimulated

(* If the alternatives differ the old one is gone.                         *)
LEMMA ThrownIntoSimulated ==
  ASSUME ResultInv, ValueInv, NEW x \in Results, NEW y \in Results, opt' = opt,
         Exists(x), Exists(y), NEW name \in {"throw", "throwSwap"}, Called(name, x, y),
         obj' = [obj EXCEPT ![x] = thrownInto(@, obj[y].hasValue)]
  PROVE  ST!Next /\ ValueInv'
<1>1. /\ Typed(x, obj[x]) /\ Valued(x, obj[x]) /\ obj[x] \in Storage /\ Typed(y, obj[y])
      /\ obj[y].hasValue \in BOOLEAN /\ obj[x].hasValue \in BOOLEAN
  BY DEF ResultInv, ValueInv, Storage
<1>2. PICK a : a = thrownInto(obj[x], obj[y].hasValue)
  OBVIOUS
<1>3. Valued(x, a)
  BY <1>1, <1>2, ValuedFacts
<1>4. Written(x, a, x, a) /\ name \in Names
  BY <1>2 DEF Written, ResultInv, Names
<1>5. ASSUME Fit(obj[x]), Fit(obj[y]) PROVE ST!Throw(x, y)
  <2>1. slots[x].tag = Tag(obj[x].hasValue) /\ slots[y].tag = Tag(obj[y].hasValue)
    BY <1>1, <1>5, ShownSound, ResultSlot DEF Fit, Exists
  <2>2. CASE obj[x].hasValue = obj[y].hasValue
    <3>1. slots' = slots
      BY <1>2, <1>3, <1>4, <2>2, OneSimulated DEF thrownInto
    <3> QED
      BY <3>1 DEF ST!Throw
  <2>3. CASE obj[x].hasValue # obj[y].hasValue
    <3>1. slots[x].tag # slots[y].tag
      BY <1>1, <2>1, <2>3 DEF Tag
    <3>2. Shown(a) = ST!Broken
      BY <1>1, <1>2, <2>3, ShownOthers DEF thrownInto
    <3>3. slots' = [slots EXCEPT ![x] = ST!Broken]
      BY <1>3, <1>4, <3>2, OneSimulated
    <3> QED
      BY <3>1, <3>3 DEF ST!Throw
  <2> QED
    BY <2>2, <2>3
<1>6. ASSUME Fit(obj[x]), Fit(obj[y]) PROVE ST!Effect(name, x, y)
  <2>1. ST!Throw(x, y) /\ ST!ThrowSwap(x, y)
    BY <1>5, <1>6 DEF ST!ThrowSwap
  <2> QED
    BY <2>1, EffectNames
<1> QED
  BY <1>3, <1>4, <1>6, OneSimulated

(* The observers.                                                          *)
LEMMA LookSimulated ==
  ASSUME ResultInv, ValueInv, NEW x \in Results, opt' = opt, NEW mv \in BOOLEAN,
         Exists(x), Look(x, mv)
  PROVE  ST!Next /\ ValueInv'
<1>1. Typed(x, obj[x]) /\ Valued(x, obj[x])
  BY DEF ResultInv, ValueInv
<1>2. PICK a : a = IF mv THEN movedFrom(obj[x]) ELSE obj[x]
  OBVIOUS
<1>3. PICK name : name = IF mv THEN "take" ELSE "observe"
  OBVIOUS
<1>4. Valued(x, a)
  BY <1>1, <1>2, ValuedFacts
<1>5. Written(x, a, x, a) /\ Called(name, x, x) /\ name \in Names
  BY <1>2, <1>3 DEF Look, Written, ResultInv, Names
<1>6. ASSUME Fit(obj[x]) PROVE ST!Effect(name, x, x)
  <2>1. CASE mv
    <3>1. Shown(a) = ST!MovedFrom(slots[x])
      BY <1>1, <1>2, <1>6, <2>1, ShownMoved, ResultSlot DEF Fit, Exists
    <3>2. ST!Copy(x, ST!MovedFrom(slots[x]))
      BY <1>4, <1>5, <3>1, OneSimulated DEF ST!Copy
    <3> QED
      BY <1>3, <2>1, <3>2, EffectNames
  <2>2. CASE ~mv
    <3>1. slots' = slots
      BY <1>2, <1>4, <1>5, <2>2, OneSimulated
    <3> QED
      BY <1>3, <2>2, <3>1, EffectNames
  <2> QED
    BY <2>1, <2>2
<1> QED
  BY <1>4, <1>5, <1>6, OneSimulated

LEMMA DestructorSimulated ==
  ASSUME ResultInv, ValueInv, NEW x \in Results, opt' = opt, destructor(x)
  PROVE  ST!Next /\ ValueInv'
<1>1. Valued(x, Absent) /\ Shown(Absent) = ST!Absent
  <2>1. Absent.alive = "absent"
    BY DEF Absent
  <2>2. Valued(x, Absent)
    BY DEF Absent, Valued
  <2> QED
    BY <2>1, <2>2, ShownOthers
<1>2. Written(x, Absent, x, Absent) /\ Called("drop", x, x) /\ "drop" \in Names
  BY DEF destructor, Written, ResultInv, Names
<1>3. ST!Copy(x, ST!Absent)
  BY <1>1, <1>2, OneSimulated DEF ST!Copy
<1>4. ST!Effect("drop", x, x)
  BY <1>3, EffectNames
<1> QED
  BY <1>1, <1>2, <1>4, OneSimulated

(* The mapping functions: r is a result of its own, or what y holds if the *)
(* function is not applied to that alternative.                            *)
LEMMA ApplyEffect ==
  ASSUME NEW x \in Results \cup Opts, NEW y \in Results \cup Opts, x # y,
         NEW mv \in BOOLEAN, NEW t \in {"value", "other"}, NEW a \in ST!Alternatives,
         slots[y].tag # t => /\ a.tag = slots[y].tag
                             /\ a.val = slots[y].val \/ slots[y].val = Unit,
         slots' = [[slots EXCEPT ![y] = IF mv THEN ST!MovedFrom(slots[y])
                                        ELSE slots[y]] EXCEPT ![x] = a]
  PROVE  ST!Effect(IF t = "value" THEN ThenName(mv) ELSE OrElseName(mv), x, y)
<1>1. PICK b : b = IF mv THEN ST!MovedFrom(slots[y]) ELSE slots[y]
  OBVIOUS
<1>2. slots' = [slots EXCEPT ![x] = a, ![y] = b]
  BY <1>1, SlotsDomain
<1>3. ST!Apply(x, y, t, b)
  BY <1>2 DEF ST!Apply
<1>4. /\ ST!Effect("then", x, y) <=> ST!Apply(x, y, "value", slots[y])
      /\ ST!Effect("thenMove", x, y) <=>
           ST!Apply(x, y, "value", ST!MovedFrom(slots[y]))
      /\ ST!Effect("orElse", x, y) <=> ST!Apply(x, y, "other", slots[y])
      /\ ST!Effect("orElseMove", x, y) <=>
           ST!Apply(x, y, "other", ST!MovedFrom(slots[y]))
  BY EffectNames
<1> QED
  BY <1>1, <1>3, <1>4 DEF ThenName, OrElseName

LEMMA MappedSimulated ==
  ASSUME ResultInv, ValueInv, NEW x \in Results, NEW y \in Results, opt' = opt,
         NEW mv \in BOOLEAN, NEW t \in {"value", "other"}, NEW r,
         Typed(x, r), Sound(r), Valued(x, r),
         Tag(obj[y].hasValue) # t =>
           /\ r.hasValue = obj[y].hasValue
           /\ r.val = payload(obj[y]) \/ (obj[y].hasValue /\ y \in VoidObjs),
         Mapped(IF t = "value" THEN ThenName(mv) ELSE OrElseName(mv), x, y, r, mv)
  PROVE  ST!Next /\ ValueInv'
<1>1. PICK name : name = IF t = "value" THEN ThenName(mv) ELSE OrElseName(mv)
  OBVIOUS
<1>2. PICK b : b = IF mv THEN movedFrom(obj[y]) ELSE obj[y]
  OBVIOUS
<1>3. Typed(y, obj[y]) /\ Valued(y, obj[y])
  BY DEF ResultInv, ValueInv
<1>4. /\ ~Exists(x) /\ Exists(y) /\ Called(name, x, y) /\ name \in Names
      /\ obj' = [obj EXCEPT ![x] = r, ![y] = IF mv THEN movedFrom(@) ELSE @]
  BY <1>1, TakeNames DEF Mapped
<1>5. Written(x, r, y, b) /\ x # y
  BY <1>2, <1>4 DEF Written, ResultInv
<1>6. Valued(y, b)
  BY <1>2, <1>3, ValuedFacts
<1>7. ASSUME Fit(obj[y]) PROVE ST!Effect(name, x, y)
  <2>1. Sound(obj[y])
    BY <1>4, <1>7 DEF Fit, Exists
  <2>2. /\ slots[y].tag = Tag(obj[y].hasValue) /\ slots[y].val = obj[y].val
        /\ payload(obj[y]) = obj[y].val /\ slots[y] = Shown(obj[y])
    BY <1>3, <2>1, ShownSound, ResultSlot
  <2>3. /\ Shown(r) \in ST!Alternatives /\ Shown(r).tag = Tag(r.hasValue)
        /\ Shown(r).val = r.val
    BY ShownSound
  <2>4. slots[y].tag # t => /\ Shown(r).tag = slots[y].tag
                            /\ Shown(r).val = slots[y].val \/ slots[y].val = Unit
    BY <1>3, <2>2, <2>3 DEF Valued
  <2>5. Shown(b) = IF mv THEN ST!MovedFrom(slots[y]) ELSE slots[y]
    BY <1>2, <1>3, <2>1, <2>2, ShownMoved
  <2>6. slots' = [[slots EXCEPT ![y] = IF mv THEN ST!MovedFrom(slots[y])
                                       ELSE slots[y]] EXCEPT ![x] = Shown(r)]
    BY <1>5, <2>5, SlotsAfter
  <2>7. x \in Results \cup Opts /\ y \in Results \cup Opts
    OBVIOUS
  <2> QED
    BY <1>1, <1>5, <2>3, <2>4, <2>6, <2>7, ApplyEffect
<1> QED
  BY <1>4, <1>5, <1>6, <1>7, Simulated

(* What a function given to a mapping function returns.                    *)
LEMMA ReturnedFacts ==
  ASSUME NEW x, NEW r \in Returned(x)
  PROVE  Typed(x, r) /\ Sound(r) /\ Valued(x, r)
<1>1. Typed(x, r)
  BY AlternativeTyped
<1>2. CASE \E v \in ValuesOf(x) : r = alternative("value", v)
  <2>1. PICK v \in ValuesOf(x) : r = alternative("value", v)
    BY <1>2
  <2>2. x \in VoidObjs => v = Unit
    BY DEF ValuesOf
  <2> QED
    BY <1>1, <2>1, <2>2 DEF alternative, Sound, member, Valued
<1>3. CASE \E e \in Errors : r = alternative("error", e)
  <2>1. PICK e \in Errors : r = alternative("error", e)
    BY <1>3
  <2> QED
    BY <1>1, <2>1 DEF alternative, Sound, member, Valued
<1> QED
  BY <1>2, <1>3 DEF Returned

(* What the mapping functions of both classes give the new result.         *)
LEMMA ThenSimulated ==
  ASSUME ResultInv, ValueInv, NEW x \in Results, NEW y \in Results, opt' = opt,
         NEW mv \in BOOLEAN, NEW r \in Returned(x),
         Mapped(ThenName(mv), x, y,
           IF obj[y].hasValue THEN r ELSE alternative("error", payload(obj[y])), mv)
  PROVE  ST!Next /\ ValueInv'
<1>1. PICK q : q = IF obj[y].hasValue THEN r ELSE alternative("error", payload(obj[y]))
  OBVIOUS
<1>2. obj[y].hasValue \in BOOLEAN
  BY PayloadTyped
<1>3. Typed(x, q) /\ Sound(q) /\ Valued(x, q)
  <2>1. CASE obj[y].hasValue
    BY <1>1, <2>1, ReturnedFacts
  <2>2. CASE ~obj[y].hasValue
    <3>1. payload(obj[y]) \in Contents(x, FALSE)
      BY <1>2, <2>2, PayloadTyped
    <3>2. Typed(x, q)
      BY <1>1, <2>2, <3>1, AlternativeTyped
    <3>3. Sound(q) /\ Valued(x, q)
      BY <1>1, <2>2 DEF alternative, Sound, member, Valued
    <3> QED
      BY <3>2, <3>3
  <2> QED
    BY <2>1, <2>2
<1>4. Tag(obj[y].hasValue) # "value" =>
        q.hasValue = obj[y].hasValue /\ q.val = payload(obj[y])
  BY <1>1, <1>2 DEF Tag, alternative
<1>5. Mapped(IF "value" = "value" THEN ThenName(mv) ELSE OrElseName(mv), x, y, q, mv)
  BY <1>1
<1> QED
  BY <1>3, <1>4, <1>5, MappedSimulated

LEMMA OrElseSimulated ==
  ASSUME ResultInv, ValueInv, NEW x \in Results, NEW y \in Results, opt' = opt,
         NEW mv \in BOOLEAN, NEW r \in Returned(x), NEW v,
         \/ SameType(x, y) /\ v = payload(obj[y])
         \/ y \in VoidObjs /\ v \in ValuesOf(x),
         Mapped(OrElseName(mv), x, y,
           IF obj[y].hasValue THEN alternative("value", v) ELSE r, mv)
  PROVE  ST!Next /\ ValueInv'
<1>1. PICK q : q = IF obj[y].hasValue THEN alternative("value", v) ELSE r
  OBVIOUS
<1>2. obj[y].hasValue \in BOOLEAN
  BY PayloadTyped
<1>3. Typed(x, q) /\ Sound(q) /\ Valued(x, q)
  <2>1. CASE ~obj[y].hasValue
    BY <1>1, <2>1, ReturnedFacts
  <2>2. CASE obj[y].hasValue
    <3>1. v \in Contents(x, TRUE)
      <4>1. SameType(x, y) => payload(obj[y]) \in Contents(x, TRUE)
        BY <1>2, <2>2, PayloadTyped
      <4>2. ValuesOf(x) \subseteq Contents(x, TRUE)
        BY DEF Contents
      <4> QED
        BY <4>1, <4>2
    <3>2. x \in VoidObjs => v = Unit
      <4>1. Valued(y, obj[y])
        BY DEF ValueInv
      <4>2. Sound(obj[y]) /\ payload(obj[y]) = obj[y].val
        BY <2>2, <4>1 DEF Valued, Sound, member, payload
      <4> QED
        BY <2>2, <4>1, <4>2 DEF Valued, SameType, ValuesOf
    <3>3. Typed(x, q)
      BY <1>1, <2>2, <3>1, AlternativeTyped
    <3>4. Sound(q) /\ Valued(x, q)
      BY <1>1, <2>2, <3>2 DEF alternative, Sound, member, Valued
    <3> QED
      BY <3>3, <3>4
  <2> QED
    BY <2>1, <2>2
<1>4. Tag(obj[y].hasValue) # "other" =>
        /\ q.hasValue = obj[y].hasValue
        /\ q.val = payload(obj[y]) \/ (obj[y].hasValue /\ y \in VoidObjs)
  BY <1>1, <1>2 DEF Tag, alternative
<1>5. PICK t : t = "other"
  OBVIOUS
<1>6. /\ Mapped(IF t = "value" THEN ThenName(mv) ELSE OrElseName(mv), x, y, q, mv)
      /\ t \in {"value", "other"}
  BY <1>1, <1>5
<1> QED
  BY <1>3, <1>4, <1>5, <1>6, MappedSimulated

(* swap().                                                                 *)
LEMMA SwappedSimulated ==
  ASSUME ResultInv, ValueInv, NEW x \in Results, NEW y \in Results, x # y,
         NEW a, NEW b, Written(x, a, y, b), Valued(x, a), Valued(y, b),
         Called("swap", x, y),
         Fit(obj[x]) /\ Fit(obj[y]) =>
           Shown(a) = Shown(obj[y]) /\ Shown(b) = Shown(obj[x])
  PROVE  ST!Next /\ ValueInv'
<1>1. "swap" \in Names
  BY DEF Names
<1>2. ASSUME Fit(obj[x]), Fit(obj[y]) PROVE ST!Effect("swap", x, y)
  <2>1. /\ slots' = [[slots EXCEPT ![y] = Shown(b)] EXCEPT ![x] = Shown(a)]
        /\ Shown(a) = slots[y] /\ Shown(b) = slots[x]
        /\ x \in Results \cup Opts /\ y \in Results \cup Opts
    BY <1>2, SlotsAfter
  <2>2. slots' = [slots EXCEPT ![x] = slots[y], ![y] = slots[x]]
    BY <2>1, SlotsDomain
  <2> QED
    BY <2>2, EffectNames
<1> QED
  BY <1>1, <1>2, Simulated

(* Alternatives that differ: tmp takes x, x takes y, y takes tmp.          *)
LEMMA ExchangedFacts ==
  ASSUME ResultInv, ValueInv, NEW x \in Results, NEW y \in Results, x # y,
         SameType(x, y), Exists(x), Exists(y)
  PROVE  \E a, b :
           /\ Exchanged(x, y) = [[obj EXCEPT ![x] = a] EXCEPT ![y] = b]
           /\ Valued(x, a) /\ Valued(y, b)
           /\ Fit(obj[x]) /\ Fit(obj[y]) =>
                Shown(a) = Shown(obj[y]) /\ Shown(b) = Shown(obj[x])
<1>1. /\ Typed(x, obj[x]) /\ Valued(x, obj[x]) /\ obj[x].hasValue \in BOOLEAN
      /\ Typed(y, obj[y]) /\ Valued(y, obj[y]) /\ obj[y].hasValue \in BOOLEAN
      /\ SameType(y, x)
  BY DEF ResultInv, ValueInv, Storage, SameType
<1>2. PICK tmp : tmp = constructFromResult(monostate(FALSE), obj[x], payload(obj[x]))
  OBVIOUS
<1>3. PICK a : a = assignFromResult(movedFrom(obj[x]), obj[y], payload(obj[y]))
  OBVIOUS
<1>4. PICK b : b = assignFromResult(movedFrom(obj[y]), tmp, payload(tmp))
  OBVIOUS
<1>5. Exchanged(x, y) = [[obj EXCEPT ![x] = a] EXCEPT ![y] = b]
  BY <1>2, <1>3, <1>4 DEF Exchanged
<1>6. /\ tmp.hasValue = obj[x].hasValue /\ Sound(tmp) /\ tmp.val = payload(obj[x])
      /\ payload(tmp) = payload(obj[x])
  BY <1>1, <1>2 DEF constructFromResult, constructValue, constructError, construct,
                    monostate, Sound, member, payload
<1>7. /\ payload(obj[y]) \in Contents(x, obj[y].hasValue)
      /\ payload(tmp) \in Contents(y, tmp.hasValue)
      /\ tmp.hasValue \in BOOLEAN
  BY <1>1, <1>6, PayloadTyped
<1>8. /\ Typed(x, movedFrom(obj[x])) /\ Valued(x, movedFrom(obj[x]))
      /\ Typed(y, movedFrom(obj[y])) /\ Valued(y, movedFrom(obj[y]))
  BY <1>1, ReadTyped, ValuedFacts
<1>9. ASSUME NEW z \in {x, y}, z \in VoidObjs, obj[z].hasValue
      PROVE  payload(obj[z]) = Unit
  BY <1>1, <1>9 DEF Valued, payload, Sound, member
<1>10. Valued(x, a)
  BY <1>1, <1>3, <1>7, <1>8, <1>9, ValuedFromResult DEF SameType
<1>11. Valued(y, b)
  BY <1>1, <1>4, <1>6, <1>7, <1>8, <1>9, ValuedFromResult DEF SameType
<1>12. ASSUME Fit(obj[x]), Fit(obj[y])
       PROVE  Shown(a) = Shown(obj[y]) /\ Shown(b) = Shown(obj[x])
  <2>1. Sound(obj[x]) /\ Sound(obj[y])
    BY <1>12 DEF Fit, Exists
  <2>2. Sound(movedFrom(obj[x])) /\ Sound(movedFrom(obj[y]))
    BY <1>1, <2>1, ShownMoved
  <2>3. Shown(a) = [tag |-> Tag(obj[y].hasValue), val |-> payload(obj[y])]
    BY <1>1, <1>3, <1>7, <1>8, <2>2, ShownFromResult
  <2>4. Shown(b) = [tag |-> Tag(tmp.hasValue), val |-> payload(tmp)]
    BY <1>4, <1>7, <1>8, <2>2, ShownFromResult
  <2> QED
    BY <1>1, <1>6, <2>1, <2>3, <2>4, ShownSound
<1> QED
  BY <1>5, <1>10, <1>11, <1>12

LEMMA SwapThrowsSimulated ==
  ASSUME ResultInv, ValueInv, NEW x \in Results, NEW y \in Results, x # y,
         SameType(x, y), Exists(x), Exists(y), opt' = opt,
         obj[x].hasValue # obj[y].hasValue, SwapThrows(x, y)
  PROVE  ST!Next /\ ValueInv'
<1>1. Called("throwSwap", x, y) /\ "throwSwap" \in Names
  BY DEF SwapThrows, Throws, Names
<1>2. CASE obj' = obj
  <2>1. PICK a : a = obj[x]
    OBVIOUS
  <2>2. Valued(x, a) /\ Written(x, a, x, a)
    BY <1>2, <2>1 DEF ValueInv, Written
  <2>3. slots' = slots
    BY <2>1, <2>2, OneSimulated
  <2>4. ST!Effect("throwSwap", x, y)
    BY <2>3, EffectNames DEF ST!Throw, ST!ThrowSwap
  <2> QED
    BY <1>1, <2>2, <2>4, OneSimulated
<1>3. CASE obj' = [obj EXCEPT ![x] = thrownInto(@, obj[y].hasValue)]
  BY <1>1, <1>3, ThrownIntoSimulated
<1>4. CASE obj' = [Exchanged(x, y) EXCEPT ![y] = thrownInto(obj[y], obj[x].hasValue)]
  <2>1. PICK a : \E b :
           /\ Exchanged(x, y) = [[obj EXCEPT ![x] = a] EXCEPT ![y] = b]
           /\ Valued(x, a)
           /\ Fit(obj[x]) /\ Fit(obj[y]) => Shown(a) = Shown(obj[y])
    BY ExchangedFacts
  <2>2. PICK d : d = destroy(obj[y])
    OBVIOUS
  <2>3. /\ Typed(x, obj[x]) /\ obj[x].hasValue \in BOOLEAN
        /\ Typed(y, obj[y]) /\ obj[y].hasValue \in BOOLEAN /\ obj[y] \in Storage
    BY DEF ResultInv, Storage
  <2>4. Written(x, a, y, d)
    <3>1. thrownInto(obj[y], obj[x].hasValue) = d
      BY <2>2, <2>3 DEF thrownInto
    <3> QED
      BY <1>4, <2>1, <3>1 DEF Written, ResultInv
  <2>5. Valued(y, d) /\ Shown(d) = ST!Broken
    BY <2>2, <2>3, ValuedFacts, ShownOthers
  <2>6. ASSUME Fit(obj[x]), Fit(obj[y]) PROVE ST!Effect("throwSwap", x, y)
    <3>1. /\ slots' = [[slots EXCEPT ![y] = Shown(d)] EXCEPT ![x] = Shown(a)]
          /\ Shown(a) = slots[y]
          /\ x \in Results \cup Opts /\ y \in Results \cup Opts
      BY <2>1, <2>4, <2>6, SlotsAfter
    <3>2. slots' = [slots EXCEPT ![x] = slots[y], ![y] = ST!Broken]
      BY <2>5, <3>1, SlotsDomain
    <3>3. slots[x].tag = Tag(obj[x].hasValue) /\ slots[y].tag = Tag(obj[y].hasValue)
      BY <2>3, <2>6, ShownSound, ResultSlot DEF Fit, Exists
    <3>4. slots[x].tag # slots[y].tag
      BY <2>3, <3>3 DEF Tag
    <3>5. ST!ThrowSwap(x, y)
      BY <3>2, <3>4 DEF ST!ThrowSwap
    <3> QED
      BY <3>5, EffectNames
  <2> QED
    BY <1>1, <2>1, <2>4, <2>5, <2>6, Simulated
<1> QED
  BY <1>2, <1>3, <1>4 DEF SwapThrows

LEMMA SwapSimulated ==
  ASSUME ResultInv, ValueInv, NEW x \in Results, NEW y \in Results, SameType(x, y),
         opt' = opt, Swap(x, y)
  PROVE  ST!Next /\ ValueInv'
<1>1. Exists(x) /\ Exists(y) /\ x # y
  BY DEF Swap
<1>2. CASE /\ obj[x].hasValue = obj[y].hasValue
           /\ obj' = [obj EXCEPT ![x].val = obj[y].val, ![y].val = obj[x].val]
           /\ Called("swap", x, y)
  <2>1. PICK a : a = [obj[x] EXCEPT !.val = obj[y].val]
    OBVIOUS
  <2>2. PICK b : b = [obj[y] EXCEPT !.val = obj[x].val]
    OBVIOUS
  <2>3. Written(x, a, y, b)
    BY <1>1, <1>2, <2>1, <2>2 DEF Written, ResultInv
  <2>4. /\ obj[x] \in Storage /\ obj[y] \in Storage
        /\ Valued(x, obj[x]) /\ Valued(y, obj[y])
        /\ Typed(x, obj[x]) /\ Typed(y, obj[y])
    BY DEF ResultInv, ValueInv
  <2>5. Valued(x, a) /\ Valued(y, b)
    BY <1>2, <2>1, <2>2, <2>4 DEF Valued, Storage, SameType
  <2>6. ASSUME Fit(obj[x]), Fit(obj[y])
        PROVE  Shown(a) = Shown(obj[y]) /\ Shown(b) = Shown(obj[x])
    <3>1. Sound(obj[x]) /\ Sound(obj[y])
      BY <1>1, <2>6 DEF Fit, Exists
    <3>2. /\ a.alive = obj[y].alive /\ a.hasValue = obj[y].hasValue /\ a.val = obj[y].val
          /\ b.alive = obj[x].alive /\ b.hasValue = obj[x].hasValue /\ b.val = obj[x].val
          /\ a \in Storage /\ b \in Storage
      BY <1>2, <2>1, <2>2, <2>4, <3>1 DEF Sound, member, Storage
    <3>3. a = obj[y] /\ b = obj[x]
      BY <2>4, <3>2 DEF Storage
    <3> QED
      BY <3>3
  <2> QED
    BY <1>1, <1>2, <2>3, <2>5, <2>6, SwappedSimulated
<1>3. CASE obj' = Exchanged(x, y) /\ Called("swap", x, y)
  <2>1. PICK a, b :
           /\ Exchanged(x, y) = [[obj EXCEPT ![x] = a] EXCEPT ![y] = b]
           /\ Valued(x, a) /\ Valued(y, b)
           /\ Fit(obj[x]) /\ Fit(obj[y]) =>
                Shown(a) = Shown(obj[y]) /\ Shown(b) = Shown(obj[x])
    BY <1>1, ExchangedFacts
  <2>2. Written(x, a, y, b)
    BY <1>1, <1>3, <2>1 DEF Written, ResultInv
  <2> QED
    BY <1>1, <1>3, <2>1, <2>2, SwappedSimulated
<1>4. CASE obj[x].hasValue # obj[y].hasValue /\ SwapThrows(x, y)
  BY <1>1, <1>4, SwapThrowsSimulated
<1> QED
  BY <1>2, <1>3, <1>4 DEF Swap

(* Every step of a Result<T, E>.                                           *)
LEMMA ResultNextSimulated ==
  ASSUME ResultInv, ValueInv, opt' = opt, ResultNext
  PROVE  ST!Next /\ ValueInv'
<1>1. PICK x \in Objs :
        \/ defaultConstruct(x) \/ arrow(x) \/ destructor(x)
        \/ \E v \in Values : inPlaceValue(x, v) \/ fromValue(x, v) \/ valueAssign(x, v)
        \/ \E e \in Errors : inPlaceError(x, e)
        \/ \E mv \in BOOLEAN :
             \/ \E f \in Failures : fromFailure(x, f, mv) \/ failureAssign(x, f, mv)
             \/ dereference(x, mv) \/ getValue(x, mv) \/ getError(x, mv)
             \/ valueOr(x, mv) \/ errorOr(x, mv)
             \/ \E y \in Objs :
                  \/ copyConstruct(x, y, mv) \/ convertConstruct(x, y, mv)
                  \/ copyAssign(x, y, mv) \/ convertAssign(x, y, mv)
                  \/ \E r \in Returned(x) : flatMapError(x, y, r, mv)
                  \/ \E e \in Errors : mapError(x, y, e, mv)
        \/ \E y \in Objs : swap(x, y)
  BY Zenon DEF ResultNext
<1>2. x \in Results /\ x \notin VoidObjs /\ Objs \subseteq Results
  BY ResultAssumption DEF Results
<1>3. /\ \A v \in Values : v \in Contents(x, "value" = "value")
                             /\ Conv[v] \in Contents(x, "value" = "value")
                             /\ v \in Contents(x, TRUE)
      /\ ValuesOf(x) = Values
  BY <1>2, ResultAssumption DEF Contents, ValuesOf
<1>4. ("error" = "value") = FALSE /\ \A e \in Errors : e \in Contents(x, FALSE)
  BY DEF Contents
<1>5. \A y \in Objs : SameType(x, y) /\ y \in Results
  BY <1>2, ResultAssumption DEF SameType, Results
<1>6. CASE defaultConstruct(x) \/ \E v \in Values : inPlaceValue(x, v) \/ fromValue(x, v)
  BY <1>2, <1>3, <1>6, DefaultValueFact, InPlaceSimulated
     DEF defaultConstruct, inPlaceValue, fromValue, InPlace
<1>7. CASE \E e \in Errors : inPlaceError(x, e)
  BY <1>2, <1>4, <1>7, InPlaceSimulated DEF inPlaceError, InPlace
<1>8. ASSUME NEW v \in Values, valueAssign(x, v) PROVE ST!Next /\ ValueInv'
  BY <1>2, <1>3, <1>8, ValueAssignSimulated, PutThrowsSimulated DEF valueAssign
<1>9. ASSUME NEW mv \in BOOLEAN,
             \/ arrow(x) \/ dereference(x, mv) \/ getValue(x, mv)
             \/ getError(x, mv) \/ valueOr(x, mv) \/ errorOr(x, mv)
      PROVE  ST!Next /\ ValueInv'
  BY <1>2, <1>9, LookSimulated DEF arrow, dereference, getValue, getError, valueOr,
                                   errorOr, HasValue, HasError
<1>10. ASSUME NEW mv \in BOOLEAN, NEW f \in Failures, fromFailure(x, f, mv)
       PROVE  ST!Next /\ ValueInv'
  <2>1. failure[f] \in Contents(x, FALSE)
    BY <1>10, FailureTaken DEF fromFailure, ResultInv
  <2> QED
    BY <1>2, <1>4, <1>10, <2>1, InPlaceSimulated DEF fromFailure
<1>11. ASSUME NEW mv \in BOOLEAN, NEW f \in Failures, failureAssign(x, f, mv)
       PROVE  ST!Next /\ ValueInv'
  <2>1. failure[f] \in Contents(x, FALSE)
    BY <1>11, FailureTaken DEF failureAssign, ResultInv
  <2> QED
    BY <1>2, <1>11, <2>1, ValueAssignSimulated, PutThrowsSimulated DEF failureAssign
<1>12. ASSUME NEW mv \in BOOLEAN, NEW y \in Objs,
              copyConstruct(x, y, mv) \/ convertConstruct(x, y, mv)
       PROVE  ST!Next /\ ValueInv'
  BY <1>2, <1>5, <1>12, ConstructSimulated, ConstructThrowsSimulated
     DEF copyConstruct, convertConstruct
<1>13. ASSUME NEW mv \in BOOLEAN, NEW y \in Objs,
              copyAssign(x, y, mv) \/ convertAssign(x, y, mv)
       PROVE  ST!Next /\ ValueInv'
  <2>1. ASSUME AssignThrows(x, y) PROVE ST!Next /\ ValueInv'
    BY <1>2, <1>5, <2>1, ThrownIntoSimulated DEF AssignThrows, Throws
  <2> QED
    BY <1>2, <1>5, <1>13, <2>1, AssignSimulated DEF copyAssign, convertAssign
<1>14. ASSUME NEW mv \in BOOLEAN, NEW y \in Objs, NEW r \in Returned(x),
              flatMapError(x, y, r, mv)
       PROVE  ST!Next /\ ValueInv'
  BY <1>2, <1>5, <1>14, OrElseSimulated DEF flatMapError
<1>15. ASSUME NEW mv \in BOOLEAN, NEW y \in Objs, NEW e \in Errors,
              mapError(x, y, e, mv)
       PROVE  ST!Next /\ ValueInv'
  <2>1. alternative("error", e) \in Returned(x)
    BY DEF Returned
  <2> QED
    BY <1>2, <1>5, <1>15, <2>1, OrElseSimulated DEF mapError
<1>16. ASSUME NEW y \in Objs, swap(x, y) PROVE ST!Next /\ ValueInv'
  BY <1>2, <1>5, <1>16, SwapSimulated DEF swap
<1>17. CASE destructor(x)
  BY <1>2, <1>17, DestructorSimulated
<1>18. CASE arrow(x)
  BY <1>9, <1>18
<1> QED
  BY <1>1, <1>6, <1>7, <1>8, <1>9, <1>10, <1>11, <1>12, <1>13, <1>14, <1>15,
     <1>16, <1>17, <1>18

(* Every step of a Result<void, E>.                                        *)
LEMMA VoidNextSimulated ==
  ASSUME ResultInv, ValueInv, opt' = opt, VoidNext
  PROVE  ST!Next /\ ValueInv'
<1>1. PICK x \in VoidObjs :
        \/ voidDefault(x) \/ destructor(x)
        \/ \E e \in Errors : voidInPlaceError(x, e)
        \/ \E mv \in BOOLEAN :
             \/ \E f \in Failures :
                  voidFromFailure(x, f, mv) \/ voidFailureAssign(x, f, mv)
             \/ voidGetError(x, mv) \/ voidErrorOr(x, mv)
             \/ \E y \in VoidObjs : \/ voidCopyConstruct(x, y, mv)
                                    \/ voidCopyAssign(x, y, mv)
                                    \/ voidConvertAssign(x, y, mv)
             \/ \E y \in Results : voidConvertConstruct(x, y, mv)
             \/ \E y \in VoidObjs, e \in Errors : voidMapError(x, y, e, mv)
        \/ \E y \in VoidObjs : voidSwap(x, y)
  BY Zenon DEF VoidNext
<1>2. x \in Results /\ VoidObjs \subseteq Results /\ ValuesOf(x) = {Unit}
  BY DEF Results, ValuesOf
<1>3. Unit \in Contents(x, "value" = "value")
  BY <1>2 DEF Contents
<1>4. ("error" = "value") = FALSE /\ \A e \in Errors : e \in Contents(x, FALSE)
  BY DEF Contents
<1>5. \A y \in VoidObjs : SameType(x, y) /\ y \in Results
  BY <1>2 DEF SameType
<1>6. CASE voidDefault(x)
  BY <1>2, <1>3, <1>6, InPlaceSimulated DEF voidDefault, InPlace
<1>7. CASE \E e \in Errors : voidInPlaceError(x, e)
  BY <1>2, <1>4, <1>7, InPlaceSimulated DEF voidInPlaceError, InPlace
<1>8. ASSUME NEW mv \in BOOLEAN, NEW f \in Failures, voidFromFailure(x, f, mv)
      PROVE  ST!Next /\ ValueInv'
  <2>1. failure[f] \in Contents(x, FALSE)
    BY <1>8, FailureTaken DEF voidFromFailure, ResultInv
  <2> QED
    BY <1>2, <1>4, <1>8, <2>1, InPlaceSimulated DEF voidFromFailure
<1>9. ASSUME NEW mv \in BOOLEAN, NEW f \in Failures, voidFailureAssign(x, f, mv)
      PROVE  ST!Next /\ ValueInv'
  <2>1. failure[f] \in Contents(x, FALSE)
    BY <1>9, FailureTaken DEF voidFailureAssign, ResultInv
  <2> QED
    BY <1>2, <1>9, <2>1, ValueAssignSimulated, PutThrowsSimulated
       DEF voidFailureAssign
<1>10. ASSUME NEW mv \in BOOLEAN, voidGetError(x, mv) \/ voidErrorOr(x, mv)
       PROVE  ST!Next /\ ValueInv'
  BY <1>2, <1>10, LookSimulated DEF voidGetError, voidErrorOr, HasError
<1>11. ASSUME NEW mv \in BOOLEAN, NEW y \in VoidObjs, voidCopyConstruct(x, y, mv)
       PROVE  ST!Next /\ ValueInv'
  BY <1>2, <1>5, <1>11, ConstructSimulated, ConstructThrowsSimulated
     DEF voidCopyConstruct
<1>12. ASSUME NEW mv \in BOOLEAN, NEW y \in VoidObjs,
              voidCopyAssign(x, y, mv) \/ voidConvertAssign(x, y, mv)
       PROVE  ST!Next /\ ValueInv'
  <2>1. ASSUME AssignThrows(x, y) PROVE ST!Next /\ ValueInv'
    BY <1>2, <1>5, <2>1, ThrownIntoSimulated DEF AssignThrows, Throws
  <2> QED
    BY <1>2, <1>5, <1>12, <2>1, AssignSimulated DEF voidCopyAssign, voidConvertAssign
<1>13. ASSUME NEW mv \in BOOLEAN, NEW y \in Results, voidConvertConstruct(x, y, mv)
       PROVE  ST!Next /\ ValueInv'
  BY <1>2, <1>13, DiscardSimulated, ConstructThrowsSimulated DEF voidConvertConstruct
<1>14. ASSUME NEW mv \in BOOLEAN, NEW y \in VoidObjs, NEW e \in Errors,
              voidMapError(x, y, e, mv)
       PROVE  ST!Next /\ ValueInv'
  <2>1. alternative("error", e) \in Returned(x) /\ Unit \in ValuesOf(x)
    BY <1>2 DEF Returned
  <2> QED
    BY <1>2, <1>5, <1>14, <2>1, OrElseSimulated DEF voidMapError
<1>15. ASSUME NEW y \in VoidObjs, voidSwap(x, y) PROVE ST!Next /\ ValueInv'
  BY <1>2, <1>5, <1>15, SwapSimulated DEF voidSwap
<1>16. CASE destructor(x)
  BY <1>2, <1>16, DestructorSimulated
<1> QED
  BY <1>1, <1>6, <1>7, <1>8, <1>9, <1>10, <1>11, <1>12, <1>13, <1>14, <1>15, <1>16

(* The mapping functions between results of any class.                     *)
LEMMA MapNextSimulated ==
  ASSUME ResultInv, ValueInv, opt' = opt, MapNext
  PROVE  ST!Next /\ ValueInv'
<1>1. PICK x \in Results, y \in Results, mv \in BOOLEAN :
        \/ \E r \in Returned(x) : \/ flatMap(x, y, r, mv)
                                  \/ voidFlatMap(x, y, r, mv)
                                  \/ voidFlatMapError(x, y, r, mv)
        \/ \E v \in ValuesOf(x) : map(x, y, v, mv) \/ voidMap(x, y, v, mv)
  BY DEF MapNext
<1>2. ASSUME NEW r \in Returned(x), flatMap(x, y, r, mv) \/ voidFlatMap(x, y, r, mv)
      PROVE  ST!Next /\ ValueInv'
  BY <1>2, ThenSimulated DEF flatMap, voidFlatMap
<1>3. ASSUME NEW r \in Returned(x), voidFlatMapError(x, y, r, mv)
      PROVE  ST!Next /\ ValueInv'
  <2>1. PICK v : v = IF x \in VoidObjs THEN Unit ELSE DefaultValue
    OBVIOUS
  <2>2. v \in ValuesOf(x)
    BY <2>1, DefaultValueFact DEF ValuesOf
  <2>3. /\ y \in VoidObjs
        /\ Mapped(OrElseName(mv), x, y,
             IF obj[y].hasValue THEN alternative("value", v) ELSE r, mv)
    BY <1>3, <2>1 DEF voidFlatMapError
  <2> QED
    BY <2>2, <2>3, OrElseSimulated
<1>4. ASSUME NEW v \in ValuesOf(x), map(x, y, v, mv) \/ voidMap(x, y, v, mv)
      PROVE  ST!Next /\ ValueInv'
  <2>1. alternative("value", v) \in Returned(x)
    BY DEF Returned
  <2> QED
    BY <1>4, <2>1, ThenSimulated DEF map, voidMap
<1> QED
  BY <1>1, <1>2, <1>3, <1>4

(* Optionals.  None is ever broken.                                        *)
OptionalShown(s) == CASE s.alive = "absent" -> ST!Absent
                      [] s.alive # "absent" /\ ~O!Sound(s) -> ST!Broken
                      [] OTHER -> [tag |-> Tag(s.hasValue), val |-> s.val]

LEMMA OptionalSlot ==
  ASSUME NEW x \in Opts
  PROVE  /\ slots[x] = OptionalShown(opt[x])
         /\ slots'[x] = OptionalShown(opt'[x])
<1>1. x \notin Results
  BY ObjectsAssumption
<1> QED
  BY <1>1, Zenon DEF slots, O!Slot, OptionalShown, Tag, O!Exists, ST!Absent, ST!Broken

LEMMA OptionalShownFacts ==
  ASSUME NEW s \in OptionalStates, s.alive # "absent"
  PROVE  /\ OptionalShown(s) = [tag |-> Tag(s.hasValue), val |-> s.val]
         /\ OptionalShown(s) \in ST!Alternatives
         /\ OptionalShown(s).tag = Tag(s.hasValue) /\ OptionalShown(s).val = s.val
         /\ OptionalShown(O!movedFrom(s)) = ST!MovedFrom(OptionalShown(s))
         /\ s.hasValue \in BOOLEAN
         /\ ~s.hasValue => s = O!empty /\ s.val = Unit
         /\ s.hasValue => /\ s = O!alternative(s.val) /\ s.val \in Values \cup {Moved}
                          /\ O!payload(s) = s.val
<1>1. ASSUME NEW q \in OptionalStates, q.alive # "absent"
      PROVE  OptionalShown(q) = [tag |-> Tag(q.hasValue), val |-> q.val]
  <2>1. O!Sound(q)
    BY <1>1, OptionalParts
  <2> QED
    BY <1>1, <2>1, Zenon DEF OptionalShown
<1>2. OptionalShown(s) = [tag |-> Tag(s.hasValue), val |-> s.val]
  BY <1>1
<1>3. /\ s.hasValue \in BOOLEAN /\ s.val \in Values \cup {Unit, Moved}
      /\ ~s.hasValue => s = O!empty /\ s.val = Unit
      /\ s.hasValue => /\ s = O!alternative(s.val) /\ s.val \in Values \cup {Moved}
                       /\ O!payload(s) = s.val /\ O!Sound(s)
  BY OptionalParts, OptionalRead DEF O!payload
<1>4. OptionalShown(s) \in ST!Alternatives
  BY <1>2, <1>3 DEF ST!Alternatives, Payload, Tag
<1>5. OptionalShown(O!movedFrom(s)) = ST!MovedFrom(OptionalShown(s))
  <2>1. CASE ~s.hasValue
    <3>1. O!movedFrom(s) = s
      BY <2>1 DEF O!movedFrom
    <3> QED
      BY <1>2, <1>3, <2>1, <3>1 DEF ST!MovedFrom
  <2>2. CASE s.hasValue
    <3>1. s.val # Unit
      BY <1>3, <2>2, ResultAssumption
    <3>2. O!movedFrom(s) = O!alternative(Moved)
      <4>1. O!movedFrom(s) = [s EXCEPT !.val = Moved]
        BY <1>3, <2>2 DEF O!movedFrom
      <4>2. s \in O!Storage /\ s.alive = "value"
        BY <2>2, OptionalForms, OptionalParts
      <4>3. [s EXCEPT !.val = Moved] = O!alternative(Moved)
        BY <2>2, <4>2, OptionalForms
      <4> QED
        BY <4>1, <4>3
    <3>3. O!movedFrom(s) \in OptionalStates /\ O!movedFrom(s).alive = s.alive
      BY OptionalRead
    <3>4. OptionalShown(O!movedFrom(s)) = [tag |-> Tag(O!movedFrom(s).hasValue),
                                           val |-> O!movedFrom(s).val]
      BY <1>1, <3>3
    <3>5. O!movedFrom(s).hasValue = TRUE /\ O!movedFrom(s).val = Moved /\ s.hasValue = TRUE
      BY <1>3, <2>2, <3>2 DEF O!alternative
    <3>6. OptionalShown(O!movedFrom(s)) = [tag |-> "value", val |-> Moved]
      BY <3>4, <3>5 DEF Tag
    <3>7. OptionalShown(s) = [tag |-> "value", val |-> s.val]
      BY <1>2, <3>5 DEF Tag
    <3>8. ST!MovedFrom(OptionalShown(s)) = [OptionalShown(s) EXCEPT !.val = Moved]
      BY <3>1, <3>7 DEF ST!MovedFrom
    <3>9. ST!MovedFrom(OptionalShown(s)) = [tag |-> "value", val |-> Moved]
      BY <3>7, <3>8
    <3> QED
      BY <3>6, <3>9
  <2> QED
    BY <2>1, <2>2
<1> QED
  BY <1>2, <1>3, <1>4, <1>5

(* What a construction or an assignment leaves: r with the value v.        *)
LEMMA OptionalMade ==
  ASSUME NEW s \in OptionalStates, s.alive # "absent",
         NEW r \in OptionalStates, NEW v \in Values \cup {Moved}
  PROVE  /\ \A flag \in BOOLEAN :
              O!constructFromOptional(O!monostate(flag), r, v) =
                IF r.hasValue THEN O!alternative(v) ELSE O!empty
         /\ O!constructFromOptional(O!empty, r, v) =
              IF r.hasValue THEN O!alternative(v) ELSE O!empty
         /\ O!assignFromOptional(s, r, v) =
              IF r.hasValue THEN O!alternative(v) ELSE O!empty
         /\ O!assignValue(s, v) = O!alternative(v)
<1>1. ASSUME NEW t \in O!Storage, t.alive = "none", t.val = Unit
      PROVE  O!constructFromOptional(t, r, v) =
               IF r.hasValue THEN O!alternative(v) ELSE O!empty
  <2>1. O!constructValue(t, v) = O!alternative(v)
    BY <1>1 DEF O!constructValue, O!alternative
  <2>2. [t EXCEPT !.hasValue = FALSE] = O!empty
    BY <1>1, OptionalForms
  <2> QED
    BY <2>1, <2>2 DEF O!constructFromOptional
<1>2. O!empty \in O!Storage /\ O!empty.alive = "none" /\ O!empty.val = Unit /\ ~O!empty.hasValue
  BY DEF O!empty, O!Storage
<1>3. ASSUME NEW flag \in BOOLEAN
      PROVE  O!constructFromOptional(O!monostate(flag), r, v) =
               IF r.hasValue THEN O!alternative(v) ELSE O!empty
  <2>1. PICK m : m = O!monostate(flag)
    OBVIOUS
  <2>2. m \in O!Storage /\ m.alive = "none" /\ m.val = Unit
    BY <2>1 DEF O!monostate, O!empty, O!Storage
  <2> QED
    BY <1>1, <2>1, <2>2
<1>4. r.hasValue \in BOOLEAN /\ s.hasValue \in BOOLEAN
  BY OptionalRead
<1>5. O!constructFromOptional(O!empty, r, v) =
        IF r.hasValue THEN O!alternative(v) ELSE O!empty
  BY <1>1, <1>2
<1>6. CASE ~s.hasValue
  <2>1. s = O!empty /\ O!destroy(s) = O!empty
    BY <1>6, OptionalShownFacts DEF O!destroy
  <2>2. O!assignValue(s, v) = O!alternative(v)
    BY <1>2, <1>6, <2>1 DEF O!assignValue, O!constructValue, O!alternative
  <2>3. O!assignFromOptional(s, r, v) =
          IF r.hasValue THEN O!alternative(v) ELSE O!empty
    <3>1. CASE r.hasValue
      BY <1>4, <1>5, <1>6, <2>1, <3>1 DEF O!assignFromOptional
    <3>2. CASE ~r.hasValue
      BY <1>4, <1>6, <2>1, <3>2 DEF O!assignFromOptional
    <3> QED
      BY <3>1, <3>2
  <2> QED
    BY <1>3, <1>5, <2>2, <2>3
<1>7. CASE s.hasValue
  <2>1. [s EXCEPT !.val = v] = O!alternative(v) /\ O!destroy(s) = O!empty
    BY <1>7, OptionalForms, OptionalParts DEF O!destroy
  <2>2. O!assignValue(s, v) = O!alternative(v)
    BY <1>7, <2>1 DEF O!assignValue
  <2>3. O!assignFromOptional(s, r, v) =
          IF r.hasValue THEN O!alternative(v) ELSE O!empty
    <3>1. CASE r.hasValue
      BY <1>4, <1>7, <2>1, <3>1 DEF O!assignFromOptional
    <3>2. CASE ~r.hasValue
      BY <1>4, <1>5, <1>7, <2>1, <3>2 DEF O!assignFromOptional
    <3> QED
      BY <3>1, <3>2
  <2> QED
    BY <1>3, <1>5, <2>2, <2>3
<1> QED
  BY <1>6, <1>7

(* A step that makes the optionals x and y hold a and b.                   *)
OptionalWritten(x, a, y, b) ==
  /\ \A z \in Opts : opt'[z] = IF z = x THEN a ELSE IF z = y THEN b ELSE opt[z]
  /\ obj' = obj

LEMMA OptionalSlotsAfter ==
  ASSUME NEW x \in Opts, NEW y \in Opts, NEW a, NEW b, OptionalWritten(x, a, y, b)
  PROVE  /\ slots' = [[slots EXCEPT ![y] = OptionalShown(b)]
                        EXCEPT ![x] = OptionalShown(a)]
         /\ slots[x] = OptionalShown(opt[x]) /\ slots[y] = OptionalShown(opt[y])
         /\ x \in Results \cup Opts /\ y \in Results \cup Opts
<1>1. DOMAIN slots = Results \cup Opts /\ DOMAIN slots' = Results \cup Opts
  BY DEF slots
<1>2. /\ slots = [z \in Results \cup Opts |-> slots[z]]
      /\ slots' = [z \in Results \cup Opts |-> slots'[z]]
  BY SlotsDomain DEF slots
<1>3. ASSUME NEW z \in Opts
      PROVE slots'[z] = IF z = x THEN OptionalShown(a)
                        ELSE IF z = y THEN OptionalShown(b) ELSE slots[z]
  BY OptionalSlot DEF OptionalWritten
<1>4. ASSUME NEW z \in Results PROVE slots'[z] = slots[z]
  BY ResultSlot DEF OptionalWritten
<1>5. ASSUME NEW z \in Results \cup Opts
      PROVE slots'[z] = [[slots EXCEPT ![y] = OptionalShown(b)]
                           EXCEPT ![x] = OptionalShown(a)][z]
  <2>1. z \in Results => z # x /\ z # y
    BY ObjectsAssumption
  <2> QED
    BY <1>1, <1>3, <1>4, <2>1
<1>6. slots' = [[slots EXCEPT ![y] = OptionalShown(b)] EXCEPT ![x] = OptionalShown(a)]
  BY <1>1, <1>2, <1>5
<1> QED
  BY <1>6, OptionalSlot

LEMMA OptionalOneAfter ==
  ASSUME NEW x \in Opts, NEW a, OptionalWritten(x, a, x, a)
  PROVE  /\ slots' = [slots EXCEPT ![x] = OptionalShown(a)]
         /\ slots[x] = OptionalShown(opt[x])
         /\ a = opt[x] => slots' = slots
         /\ x \in Results \cup Opts
<1>1. /\ slots' = [[slots EXCEPT ![x] = OptionalShown(a)] EXCEPT ![x] = OptionalShown(a)]
      /\ slots[x] = OptionalShown(opt[x]) /\ x \in Results \cup Opts
  BY OptionalSlotsAfter
<1>2. slots' = [slots EXCEPT ![x] = OptionalShown(a)]
  BY <1>1, SlotsDomain
<1> QED
  BY <1>1, <1>2, SlotsDomain

LEMMA OptionalSimulated ==
  ASSUME NEW x \in Opts, NEW y \in Opts, NEW name \in Names, O!Called(name, x, y),
         ST!Effect(name, x, y)
  PROVE  ST!Next
<1>1. op' = [name |-> name, x |-> x, y |-> y]
  BY DEF O!Called
<1>2. x \in Results \cup Opts /\ y \in Results \cup Opts
  OBVIOUS
<1>3. op' \in ST!Ops /\ op'.name = name /\ op'.x = x /\ op'.y = y
  BY <1>1, <1>2 DEF ST!Ops, Names
<1> QED
  BY <1>3 DEF ST!Next

LEMMA OptionalTakeWritten ==
  ASSUME AllInv, obj' = obj, NEW x \in Opts, NEW y \in Opts, NEW mv \in BOOLEAN,
         NEW name, NEW r \in OptionalStates, r.alive # "absent",
         O!Exists(y), O!TakeFrom(name, x, y, r, mv)
  PROVE  /\ slots' = [[slots EXCEPT ![y] = IF mv THEN ST!MovedFrom(slots[y])
                                           ELSE slots[y]]
                        EXCEPT ![x] = IF mv /\ x = y THEN ST!MovedFrom(OptionalShown(r))
                                      ELSE OptionalShown(r)]
         /\ slots[y] = OptionalShown(opt[y]) /\ O!Called(name, x, y)
         /\ opt[y] \in OptionalStates /\ opt[y].alive # "absent"
         /\ x \in Results \cup Opts /\ y \in Results \cup Opts
<1>1. opt[y] \in OptionalStates /\ opt[y].alive # "absent"
  BY OptionalTypes DEF O!Exists
<1>2. PICK a : a = IF mv /\ x = y THEN O!movedFrom(r) ELSE r
  OBVIOUS
<1>3. PICK b : b = IF mv THEN O!movedFrom(opt[y]) ELSE opt[y]
  OBVIOUS
<1>4. OptionalWritten(x, a, y, b)
  BY <1>2, <1>3 DEF O!TakeFrom, OptionalWritten, AllInv, OptionalInv
<1>5. /\ slots' = [[slots EXCEPT ![y] = OptionalShown(b)] EXCEPT ![x] = OptionalShown(a)]
      /\ slots[y] = OptionalShown(opt[y])
  BY <1>4, OptionalSlotsAfter
<1>6. OptionalShown(b) = IF mv THEN ST!MovedFrom(slots[y]) ELSE slots[y]
  BY <1>1, <1>3, <1>5, OptionalShownFacts
<1>7. OptionalShown(a) = IF mv /\ x = y THEN ST!MovedFrom(OptionalShown(r))
                         ELSE OptionalShown(r)
  BY <1>2, OptionalShownFacts
<1> QED
  BY <1>1, <1>5, <1>6, <1>7 DEF O!TakeFrom

LEMMA OptionalTakeSimulated ==
  ASSUME AllInv, obj' = obj, NEW x \in Opts, NEW y \in Opts, NEW mv \in BOOLEAN,
         NEW name, NEW v, NEW r, O!Exists(y),
         \/ name = O!CopyName(mv) /\ v = O!payload(opt[y])
         \/ name = O!ConvertName(mv) /\ v = Conv[O!payload(opt[y])],
         r = IF opt[y].hasValue THEN O!alternative(v) ELSE O!empty,
         O!TakeFrom(name, x, y, r, mv)
  PROVE  ST!Next
<1>1. /\ opt[y] \in OptionalStates /\ opt[y].alive # "absent"
      /\ v \in Values \cup {Moved}
  BY OptionalTypes, OptionalRead DEF O!Exists
<1>2. r \in OptionalStates /\ r.alive # "absent"
  BY <1>1 DEF OptionalStates, O!alternative, O!empty
<1>3. /\ slots' = [[slots EXCEPT ![y] = IF mv THEN ST!MovedFrom(slots[y])
                                        ELSE slots[y]]
                     EXCEPT ![x] = IF mv /\ x = y THEN ST!MovedFrom(OptionalShown(r))
                                   ELSE OptionalShown(r)]
      /\ slots[y] = OptionalShown(opt[y]) /\ O!Called(name, x, y)
      /\ x \in Results \cup Opts /\ y \in Results \cup Opts
  BY <1>2, OptionalTakeWritten
<1>4. /\ OptionalShown(r) = [tag |-> Tag(r.hasValue), val |-> r.val]
      /\ slots[y] = [tag |-> Tag(opt[y].hasValue), val |-> opt[y].val]
      /\ ~opt[y].hasValue => opt[y].val = Unit
      /\ opt[y].hasValue => O!payload(opt[y]) = opt[y].val
  BY <1>1, <1>2, <1>3, OptionalShownFacts
<1>5. \/ name = CopyName(mv) /\ OptionalShown(r) = slots[y]
      \/ name = ConvertName(mv) /\ OptionalShown(r) = ST!Converted(slots[y])
  <2>1. Tag(r.hasValue) = Tag(opt[y].hasValue)
    BY DEF O!alternative, O!empty, Tag
  <2>2. r.val = IF opt[y].hasValue THEN v ELSE Unit
    BY DEF O!alternative, O!empty
  <2>3. CASE name = O!CopyName(mv) /\ v = O!payload(opt[y])
    BY <1>4, <2>1, <2>2, <2>3 DEF O!CopyName, CopyName
  <2>4. CASE name = O!ConvertName(mv) /\ v = Conv[O!payload(opt[y])]
    <3>1. r.val = Conv[opt[y].val]
      BY <1>4, <2>2, <2>4, ResultAssumption
    <3>2. ST!Converted(slots[y]) = [tag |-> Tag(opt[y].hasValue), val |-> Conv[opt[y].val]]
      BY <1>4 DEF ST!Converted
    <3> QED
      BY <1>4, <2>1, <2>4, <3>1, <3>2 DEF O!ConvertName, ConvertName
  <2> QED
    BY <2>3, <2>4
<1>6. ST!Effect(name, x, y) /\ name \in Names
  BY <1>3, <1>5, TakeEffect, TakeNames
<1> QED
  BY <1>3, <1>6, OptionalSimulated

LEMMA OptionalThenSimulated ==
  ASSUME AllInv, obj' = obj, NEW x \in Opts, NEW y \in Opts, NEW mv \in BOOLEAN,
         NEW r \in OptionalStates, r.alive # "absent", ~O!Exists(x), O!Exists(y),
         ~opt[y].hasValue => r = O!empty,
         O!TakeFrom(O!ThenName(mv), x, y, r, mv)
  PROVE  ST!Next
<1>1. PICK name : name = O!ThenName(mv)
  OBVIOUS
<1>2. O!TakeFrom(name, x, y, r, mv) /\ x # y
  BY <1>1
<1>3. /\ slots' = [[slots EXCEPT ![y] = IF mv THEN ST!MovedFrom(slots[y])
                                        ELSE slots[y]]
                     EXCEPT ![x] = IF mv /\ x = y THEN ST!MovedFrom(OptionalShown(r))
                                   ELSE OptionalShown(r)]
      /\ slots[y] = OptionalShown(opt[y]) /\ O!Called(name, x, y)
      /\ opt[y] \in OptionalStates /\ opt[y].alive # "absent"
      /\ x \in Results \cup Opts /\ y \in Results \cup Opts
  BY <1>2, OptionalTakeWritten
<1>4. slots' = [[slots EXCEPT ![y] = IF mv THEN ST!MovedFrom(slots[y]) ELSE slots[y]]
                  EXCEPT ![x] = OptionalShown(r)]
  BY <1>2, <1>3
<1>5. OptionalShown(r) \in ST!Alternatives
  BY OptionalShownFacts
<1>6. slots[y].tag # "value" => OptionalShown(r) = slots[y]
  <2>1. slots[y].tag = Tag(opt[y].hasValue) /\ (~opt[y].hasValue => opt[y] = O!empty)
    BY <1>3, OptionalShownFacts
  <2> QED
    BY <1>3, <2>1 DEF Tag
<1>7. ST!Effect(IF "value" = "value" THEN ThenName(mv) ELSE OrElseName(mv), x, y)
  BY <1>2, <1>3, <1>4, <1>5, <1>6, ApplyEffect
<1>8. ST!Effect(name, x, y) /\ name \in Names
  BY <1>1, <1>7, TakeNames DEF ThenName, O!ThenName
<1> QED
  BY <1>3, <1>8, OptionalSimulated

LEMMA OptionalPutSimulated ==
  ASSUME AllInv, obj' = obj, NEW x \in Opts, NEW r \in OptionalStates,
         r.alive # "absent", O!Put(x, r)
  PROVE  ST!Next
<1>1. OptionalWritten(x, r, x, r) /\ O!Called("put", x, x) /\ "put" \in Names
  BY DEF O!Put, OptionalWritten, AllInv, OptionalInv, Names
<1>2. ST!Copy(x, OptionalShown(r)) /\ OptionalShown(r) \in ST!Alternatives
  BY <1>1, OptionalOneAfter, OptionalShownFacts DEF ST!Copy
<1>3. ST!Effect("put", x, x)
  BY <1>2, EffectNames
<1> QED
  BY <1>1, <1>3, OptionalSimulated

(* An exception leaves an optional as it was.                              *)
LEMMA OptionalThrowsSimulated ==
  ASSUME AllInv, obj' = obj, NEW x \in Opts, NEW y \in Opts,
         NEW name \in {"throw", "throwPut", "throwSwap"},
         O!AssignThrows(name, x, y) \/ (name = "throw" /\ O!ConstructThrows(x, y))
  PROVE  ST!Next
<1>1. opt' = opt
  <2>1. CASE O!AssignThrows(name, x, y)
    <3>1. (IF opt[x].hasValue THEN opt[x] ELSE O!destroy(opt[x])) = opt[x]
      BY DEF O!destroy
    <3>2. opt' = [opt EXCEPT ![x] = opt[x]]
      BY <2>1, <3>1 DEF O!AssignThrows
    <3> QED
      BY <3>2 DEF AllInv, OptionalInv
  <2> QED
    BY <2>1 DEF O!ConstructThrows
<1>2. slots' = slots
  <2>1. PICK a : a = opt[x]
    OBVIOUS
  <2>2. OptionalWritten(x, a, x, a)
    BY <1>1, <2>1 DEF OptionalWritten
  <2> QED
    BY <2>1, <2>2, OptionalOneAfter
<1>3. ST!Effect(name, x, y)
  BY <1>2, EffectNames DEF ST!Throw, ST!ThrowSwap
<1>4. O!Called(name, x, y) /\ name \in Names
  BY DEF O!AssignThrows, O!ConstructThrows, Names
<1> QED
  BY <1>3, <1>4, OptionalSimulated

LEMMA OptionalLookSimulated ==
  ASSUME AllInv, obj' = obj, NEW x \in Opts, NEW mv \in BOOLEAN,
         O!Exists(x), O!Look(x, mv)
  PROVE  ST!Next
<1>1. opt[x] \in OptionalStates /\ opt[x].alive # "absent"
  BY OptionalTypes DEF O!Exists
<1>2. PICK a : a = IF mv THEN O!movedFrom(opt[x]) ELSE opt[x]
  OBVIOUS
<1>3. PICK name : name = IF mv THEN "take" ELSE "observe"
  OBVIOUS
<1>4. OptionalWritten(x, a, x, a) /\ O!Called(name, x, x) /\ name \in Names
  BY <1>2, <1>3 DEF O!Look, OptionalWritten, AllInv, OptionalInv, Names
<1>5. ST!Effect(name, x, x)
  <2>1. CASE mv
    <3>1. OptionalShown(a) = ST!MovedFrom(slots[x])
      BY <1>1, <1>2, <2>1, OptionalShownFacts, OptionalSlot
    <3>2. ST!Copy(x, ST!MovedFrom(slots[x]))
      BY <1>4, <3>1, OptionalOneAfter DEF ST!Copy
    <3> QED
      BY <1>3, <2>1, <3>2, EffectNames
  <2>2. CASE ~mv
    <3>1. slots' = slots
      BY <1>2, <1>4, <2>2, OptionalOneAfter
    <3> QED
      BY <1>3, <2>2, <3>1, EffectNames
  <2> QED
    BY <2>1, <2>2
<1> QED
  BY <1>4, <1>5, OptionalSimulated

LEMMA OptionalDestructorSimulated ==
  ASSUME AllInv, obj' = obj, NEW x \in Opts, O!destructor(x)
  PROVE  ST!Next
<1>1. OptionalShown(O!Absent) = ST!Absent
  <2>1. O!Absent.alive = "absent"
    BY DEF O!Absent
  <2> QED
    BY <2>1, Zenon DEF OptionalShown
<1>2. OptionalWritten(x, O!Absent, x, O!Absent) /\ O!Called("drop", x, x) /\ "drop" \in Names
  BY DEF O!destructor, OptionalWritten, AllInv, OptionalInv, Names
<1>3. ST!Copy(x, ST!Absent)
  BY <1>1, <1>2, OptionalOneAfter DEF ST!Copy
<1>4. ST!Effect("drop", x, x)
  BY <1>3, EffectNames
<1> QED
  BY <1>2, <1>4, OptionalSimulated

(* swap(): the storage of the two is exchanged whatever they hold.         *)
LEMMA OptionalSwapSimulated ==
  ASSUME AllInv, obj' = obj, NEW x \in Opts, NEW y \in Opts, O!swap(x, y)
  PROVE  ST!Next
<1>1. /\ O!Exists(x) /\ O!Exists(y) /\ x # y /\ O!Called("swap", x, y)
      /\ opt \in [Opts -> OptionalStates] /\ "swap" \in Names
  BY DEF O!swap, AllInv, OptionalInv, Names
<1>2. /\ opt[x] \in OptionalStates /\ opt[x].alive # "absent"
      /\ opt[y] \in OptionalStates /\ opt[y].alive # "absent"
      /\ opt[x].hasValue \in BOOLEAN /\ opt[y].hasValue \in BOOLEAN
      /\ opt[x] \in O!Storage /\ opt[y] \in O!Storage
  BY <1>1, OptionalTypes, OptionalRead, OptionalForms DEF O!Exists
<1>3. OptionalWritten(x, opt[y], y, opt[x])
  <2>1. CASE opt[x].hasValue = opt[y].hasValue
    <3>1. ASSUME NEW s \in OptionalStates, NEW t \in OptionalStates,
                 s.alive # "absent", t.alive # "absent", s.hasValue = t.hasValue
          PROVE  [s EXCEPT !.val = t.val] = t
      <4>1. s \in O!Storage /\ t \in O!Storage
        BY OptionalForms
      <4>2. s.alive = t.alive
        BY <3>1, OptionalParts
      <4>3. PICK u : u = [s EXCEPT !.val = t.val]
        OBVIOUS
      <4>4. /\ u \in O!Storage /\ u.alive = t.alive
            /\ u.hasValue = t.hasValue /\ u.val = t.val
        BY <3>1, <4>1, <4>2, <4>3 DEF O!Storage
      <4>5. u = t
        BY <4>1, <4>4, OptionalSame
      <4> QED
        BY <4>3, <4>5
    <3>2. /\ [opt[x] EXCEPT !.val = opt[y].val] = opt[y]
          /\ [opt[y] EXCEPT !.val = opt[x].val] = opt[x]
      BY <1>2, <2>1, <3>1
    <3>3. opt' = [opt EXCEPT ![x].val = opt[y].val, ![y].val = opt[x].val]
      BY <2>1 DEF O!swap
    <3>4. opt' = [[opt EXCEPT ![x] = opt[y]] EXCEPT ![y] = opt[x]]
      BY <1>1, <3>2, <3>3
    <3> QED
      BY <1>1, <3>4 DEF OptionalWritten
  <2>2. CASE opt[x].hasValue # opt[y].hasValue
    <3>1. PICK tmp : tmp = O!constructFromOptional(O!empty, opt[x], O!payload(opt[x]))
      OBVIOUS
    <3>2. PICK a : a = O!assignFromOptional(O!movedFrom(opt[x]), opt[y], O!payload(opt[y]))
      OBVIOUS
    <3>3. PICK b : b = O!assignFromOptional(O!movedFrom(opt[y]), tmp, O!payload(tmp))
      OBVIOUS
    <3>4. opt' = [[opt EXCEPT ![x] = a] EXCEPT ![y] = b]
      BY <1>1, <2>2, <3>1, <3>2, <3>3 DEF O!swap
    <3>5. /\ O!movedFrom(opt[x]) \in OptionalStates
          /\ O!movedFrom(opt[y]) \in OptionalStates
          /\ O!movedFrom(opt[x]).alive # "absent"
          /\ O!movedFrom(opt[y]).alive # "absent"
          /\ O!payload(opt[x]) \in Values \cup {Moved}
          /\ O!payload(opt[y]) \in Values \cup {Moved}
      BY <1>2, OptionalRead
    <3>6. ASSUME NEW s \in OptionalStates, s.alive # "absent"
          PROVE  s = IF s.hasValue THEN O!alternative(O!payload(s)) ELSE O!empty
      BY <3>6, OptionalShownFacts
    <3>7. tmp = opt[x]
      BY <1>2, <3>1, <3>5, <3>6, OptionalMade
    <3>8. a = opt[y]
      BY <1>2, <3>2, <3>5, <3>6, OptionalMade
    <3>9. b = opt[x]
      BY <1>2, <3>3, <3>5, <3>6, <3>7, OptionalMade
    <3> QED
      BY <1>1, <3>4, <3>8, <3>9 DEF OptionalWritten
  <2> QED
    BY <2>1, <2>2
<1>4. PICK a : a = opt[y]
  OBVIOUS
<1>5. PICK b : b = opt[x]
  OBVIOUS
<1>6. OptionalWritten(x, a, y, b)
  BY <1>3, <1>4, <1>5
<1>7. /\ slots' = [[slots EXCEPT ![y] = slots[x]] EXCEPT ![x] = slots[y]]
      /\ x \in Results \cup Opts /\ y \in Results \cup Opts
  BY <1>4, <1>5, <1>6, OptionalSlotsAfter
<1>8. slots' = [slots EXCEPT ![x] = slots[y], ![y] = slots[x]]
  BY <1>1, <1>7, SlotsDomain
<1>9. ST!Effect("swap", x, y)
  BY <1>8, EffectNames
<1> QED
  BY <1>1, <1>9, OptionalSimulated

(* The move out of tmp throws: y stays empty and what x held is lost.      *)
LEMMA OptionalSwapLosesSimulated ==
  ASSUME AllInv, obj' = obj, NEW x \in Opts, NEW y \in Opts,
         O!Exists(x), O!Exists(y), opt[x].hasValue, ~opt[y].hasValue,
         opt' = [opt EXCEPT ![x] = O!destroy(@)], O!Called("throwSwap", x, y)
  PROVE  ST!Next
<1>1. /\ opt[x] \in OptionalStates /\ opt[x].alive # "absent"
      /\ opt[y] \in OptionalStates /\ opt[y].alive # "absent"
      /\ "throwSwap" \in Names
  BY OptionalTypes DEF O!Exists, Names
<1>2. opt[y] = O!empty /\ O!destroy(opt[x]) = O!empty
  BY <1>1, OptionalShownFacts DEF O!destroy
<1>3. OptionalWritten(x, O!empty, x, O!empty)
  BY <1>2 DEF OptionalWritten, AllInv, OptionalInv
<1>4. /\ slots' = [slots EXCEPT ![x] = OptionalShown(O!empty)] /\ slots[x] = OptionalShown(opt[x])
      /\ slots[y] = OptionalShown(opt[y]) /\ slots[y] = OptionalShown(O!empty)
      /\ x \in Results \cup Opts /\ y \in Results \cup Opts
  BY <1>2, <1>3, OptionalOneAfter, OptionalSlot
<1>5. /\ slots[x].tag = Tag(opt[x].hasValue) /\ slots[y].tag = Tag(opt[y].hasValue)
      /\ slots[y] \in ST!Alternatives /\ slots[y].val = Unit
  BY <1>1, <1>4, OptionalShownFacts
<1>6. slots[x].tag # slots[y].tag
  BY <1>5 DEF Tag
<1>7. slots' = [slots EXCEPT ![x] = slots[y], ![y] = slots[y]]
  BY <1>4, SlotsDomain
<1>8. slots[y] \in {ST!Broken} \cup ({slots[y]} \cap {a \in ST!Alternatives : a.val = Unit})
  BY <1>5
<1>9. ST!ThrowSwap(x, y)
  BY <1>6, <1>7, <1>8 DEF ST!ThrowSwap
<1>10. ST!Effect("throwSwap", x, y)
  BY <1>9, EffectNames
<1> QED
  BY <1>1, <1>10, OptionalSimulated

(* Every step of an optional.                                              *)
LEMMA OptionalNextSimulated ==
  ASSUME AllInv, ValueInv, UNCHANGED <<obj, failure>>, O!Next
  PROVE  ST!Next /\ ValueInv'
<1>1. PICK x \in Opts :
        \/ O!defaultConstruct(x) \/ O!arrow(x) \/ O!destructor(x)
        \/ \E v \in Values : \/ O!inPlaceValue(x, v) \/ O!fromValue(x, v)
                             \/ O!valueAssign(x, v)
        \/ \E mv \in BOOLEAN :
             \/ O!dereference(x, mv) \/ O!getValue(x, mv) \/ O!valueOr(x, mv)
             \/ \E y \in Opts :
                  \/ O!copyConstruct(x, y, mv) \/ O!convertConstruct(x, y, mv)
                  \/ O!copyAssign(x, y, mv) \/ O!convertAssign(x, y, mv)
                  \/ \E r \in {O!empty} \cup {O!alternative(v) : v \in Values} :
                       O!flatMap(x, y, r, mv)
                  \/ \E v \in Values : O!map(x, y, v, mv)
        \/ \E y \in Opts : O!swap(x, y) \/ O!swapThrows(x, y)
  BY Zenon DEF O!Next
<1>2. /\ O!empty \in OptionalStates /\ O!empty.alive # "absent"
      /\ \A v \in Values : /\ O!alternative(v) \in OptionalStates
                           /\ O!alternative(Conv[v]) \in OptionalStates
                           /\ O!alternative(v).alive # "absent"
                           /\ O!alternative(Conv[v]).alive # "absent"
  BY ResultAssumption DEF OptionalStates, O!alternative, O!empty
<1>3. ValueInv' /\ obj' = obj
  BY DEF ValueInv
<1>4. CASE \/ O!defaultConstruct(x)
           \/ \E v \in Values : O!inPlaceValue(x, v) \/ O!fromValue(x, v)
  BY <1>2, <1>3, <1>4, OptionalPutSimulated
     DEF O!defaultConstruct, O!inPlaceValue, O!fromValue
<1>5. ASSUME NEW v \in Values, O!valueAssign(x, v) PROVE ST!Next
  <2>1. opt[x] \in OptionalStates /\ opt[x].alive # "absent"
    BY <1>5, OptionalTypes DEF O!valueAssign, O!Exists
  <2>2. O!assignValue(opt[x], v) = O!alternative(v)
    BY <2>1, OptionalMade
  <2> QED
    BY <1>2, <1>3, <1>5, <2>2, OptionalPutSimulated, OptionalThrowsSimulated
       DEF O!valueAssign
<1>6. ASSUME NEW mv \in BOOLEAN,
             O!arrow(x) \/ O!dereference(x, mv) \/ O!getValue(x, mv) \/ O!valueOr(x, mv)
      PROVE  ST!Next
  BY <1>3, <1>6, OptionalLookSimulated
     DEF O!arrow, O!dereference, O!getValue, O!valueOr, O!HasValue
<1>7. CASE O!destructor(x)
  BY <1>3, <1>7, OptionalDestructorSimulated
<1>8. ASSUME NEW mv \in BOOLEAN, NEW y \in Opts,
             O!copyConstruct(x, y, mv) \/ O!convertConstruct(x, y, mv)
      PROVE  ST!Next
  <2>1. O!Exists(y)
    BY <1>8 DEF O!copyConstruct, O!convertConstruct
  <2>2. /\ O!payload(opt[y]) \in Values \cup {Moved}
        /\ Conv[O!payload(opt[y])] \in Values \cup {Moved}
        /\ opt[y] \in OptionalStates /\ opt[y].alive # "absent"
    BY <2>1, OptionalTypes, OptionalRead DEF O!Exists
  <2>3. ASSUME NEW v \in Values \cup {Moved}, NEW flag \in BOOLEAN, NEW name,
               \/ name = O!CopyName(mv) /\ v = O!payload(opt[y])
               \/ name = O!ConvertName(mv) /\ v = Conv[O!payload(opt[y])],
               O!TakeFrom(name, x, y,
                 O!constructFromOptional(O!monostate(flag), opt[y], v), mv)
        PROVE  ST!Next
    <3>1. PICK r : r = O!constructFromOptional(O!monostate(flag), opt[y], v)
      OBVIOUS
    <3>2. r = IF opt[y].hasValue THEN O!alternative(v) ELSE O!empty
      BY <2>2, <3>1, OptionalMade
    <3>3. O!TakeFrom(name, x, y, r, mv)
      BY <2>3, <3>1
    <3> QED
      BY <1>3, <2>1, <2>3, <3>2, <3>3, OptionalTakeSimulated
  <2> QED
    BY <1>3, <1>8, <2>2, <2>3, OptionalThrowsSimulated
       DEF O!copyConstruct, O!convertConstruct
<1>9. ASSUME NEW mv \in BOOLEAN, NEW y \in Opts,
             O!copyAssign(x, y, mv) \/ O!convertAssign(x, y, mv)
      PROVE  ST!Next
  <2>1. O!Exists(x) /\ O!Exists(y)
    BY <1>9 DEF O!copyAssign, O!convertAssign
  <2>2. /\ O!payload(opt[y]) \in Values \cup {Moved}
        /\ Conv[O!payload(opt[y])] \in Values \cup {Moved}
        /\ opt[y] \in OptionalStates
        /\ opt[x] \in OptionalStates /\ opt[x].alive # "absent"
    BY <2>1, OptionalTypes, OptionalRead DEF O!Exists
  <2>3. ASSUME NEW v \in Values \cup {Moved}, NEW name,
               \/ name = O!CopyName(mv) /\ v = O!payload(opt[y])
               \/ name = O!ConvertName(mv) /\ v = Conv[O!payload(opt[y])],
               O!TakeFrom(name, x, y, O!assignFromOptional(opt[x], opt[y], v), mv)
        PROVE  ST!Next
    <3>1. PICK r : r = O!assignFromOptional(opt[x], opt[y], v)
      OBVIOUS
    <3>2. r = IF opt[y].hasValue THEN O!alternative(v) ELSE O!empty
      BY <2>2, <3>1, OptionalMade
    <3>3. O!TakeFrom(name, x, y, r, mv)
      BY <2>3, <3>1
    <3> QED
      BY <1>3, <2>1, <2>3, <3>2, <3>3, OptionalTakeSimulated
  <2> QED
    BY <1>3, <1>9, <2>2, <2>3, OptionalThrowsSimulated
       DEF O!copyAssign, O!convertAssign
<1>10. ASSUME NEW mv \in BOOLEAN, NEW y \in Opts, NEW r \in OptionalStates,
              r.alive # "absent", O!flatMap(x, y, r, mv)
       PROVE  ST!Next
  <2>1. PICK q : q = IF opt[y].hasValue THEN r ELSE O!empty
    OBVIOUS
  <2>2. q \in OptionalStates /\ q.alive # "absent" /\ (~opt[y].hasValue => q = O!empty)
    BY <1>2, <1>10, <2>1
  <2>3. ~O!Exists(x) /\ O!Exists(y) /\ O!TakeFrom(O!ThenName(mv), x, y, q, mv)
    BY <1>10, <2>1 DEF O!flatMap
  <2> QED
    BY <1>3, <2>2, <2>3, OptionalThenSimulated
<1>11. ASSUME NEW mv \in BOOLEAN, NEW y \in Opts, NEW v \in Values, O!map(x, y, v, mv)
       PROVE  ST!Next
  <2>1. O!flatMap(x, y, O!alternative(v), mv)
    BY <1>11 DEF O!map, O!flatMap
  <2> QED
    BY <1>2, <1>10, <2>1
<1>12. ASSUME NEW y \in Opts, O!swap(x, y) PROVE ST!Next
  BY <1>3, <1>12, OptionalSwapSimulated
<1>13. ASSUME NEW y \in Opts, O!swapThrows(x, y) PROVE ST!Next
  <2>1. /\ opt[x].hasValue \in BOOLEAN /\ opt[y].hasValue \in BOOLEAN
        /\ O!Exists(x) /\ O!Exists(y) /\ opt[x].hasValue # opt[y].hasValue
    BY <1>13, OptionalTypes, OptionalRead DEF O!swapThrows
  <2>2. CASE O!ConstructThrows(x, y)
    BY <1>3, <2>2, OptionalThrowsSimulated
  <2>3. CASE O!AssignThrows("throwSwap", x, y)
    BY <1>3, <2>3, OptionalThrowsSimulated
  <2>4. CASE /\ opt[x].hasValue /\ opt' = [opt EXCEPT ![x] = O!destroy(@)]
             /\ O!Called("throwSwap", x, y)
    <3>1. ~opt[y].hasValue
      BY <2>1, <2>4
    <3> QED
      BY <1>3, <2>1, <2>4, <3>1, OptionalSwapLosesSimulated
  <2> QED
    BY <1>13, <2>2, <2>3, <2>4 DEF O!swapThrows
<1>14. ASSUME NEW mv \in BOOLEAN, NEW y \in Opts,
              NEW r \in {O!empty} \cup {O!alternative(v) : v \in Values},
              O!flatMap(x, y, r, mv)
       PROVE  ST!Next
  <2>1. r \in OptionalStates /\ r.alive # "absent"
    BY <1>2
  <2> QED
    BY <1>10, <1>14, <2>1
<1>15. CASE O!arrow(x)
  BY <1>3, <1>6, <1>15
<1> QED
  BY <1>1, <1>3, <1>4, <1>5, <1>6, <1>7, <1>8, <1>9, <1>11, <1>12, <1>13,
     <1>14, <1>15

(* Every step of the program is a step of the sum type or leaves its slots *)
(* and the last call alone.                                                *)
LEMMA StepSimulated ==
  ASSUME AllInv, ValueInv, [MCNext]_<<vars, opt>>
  PROVE  [ST!Next]_(ST!vars) /\ ValueInv'
<1>1. CASE FailureNext /\ UNCHANGED opt
  <2>1. UNCHANGED <<obj, op, opt>>
    BY <1>1 DEF FailureNext, failureConstruct, fail, failureSet, failureCopy,
                failureSwap, failureTake, failureDestroy
  <2>2. UNCHANGED slots
    BY <2>1, Zenon DEF slots, Slot, Exists, O!Slot, O!Exists
  <2> QED
    BY <2>1, <2>2 DEF ST!vars, ValueInv
<1>2. CASE (ResultNext \/ VoidNext \/ MapNext) /\ UNCHANGED opt
  BY <1>2, ResultNextSimulated, VoidNextSimulated, MapNextSimulated DEF AllInv
<1>3. CASE O!Next /\ UNCHANGED <<obj, failure>>
  BY <1>3, OptionalNextSimulated
<1>4. CASE UNCHANGED <<vars, opt>>
  <2>1. UNCHANGED <<obj, op, opt>>
    BY <1>4 DEF vars
  <2>2. UNCHANGED slots
    BY <2>1, Zenon DEF slots, Slot, Exists, O!Slot, O!Exists
  <2> QED
    BY <2>1, <2>2 DEF ST!vars, ValueInv
<1> QED
  BY <1>1, <1>2, <1>3, <1>4 DEF MCNext, Next

LEMMA InitSimulated == ASSUME MCInit PROVE ST!Init /\ ValueInv
<1>1. /\ obj = [x \in Results |-> Absent] /\ opt = [x \in Opts |-> O!Absent]
      /\ op \in [name : {"none"}, x : Results, y : Results]
  BY DEF MCInit, Init, O!Init
<1>2. ASSUME NEW x \in Results \cup Opts PROVE slots[x] = ST!Absent
  <2>1. CASE x \in Results
    <3>1. obj[x].alive = "absent"
      BY <1>1, <2>1 DEF Absent
    <3> QED
      BY <2>1, <3>1, ResultSlot, ShownOthers
  <2>2. CASE x \in Opts
    <3>1. opt[x].alive = "absent"
      BY <1>1, <2>2 DEF O!Absent
    <3>2. OptionalShown(opt[x]) = ST!Absent
      BY <3>1, Zenon DEF OptionalShown
    <3> QED
      BY <2>2, <3>2, OptionalSlot
  <2> QED
    BY <2>1, <2>2
<1>3. slots = [x \in Results \cup Opts |-> ST!Absent]
  BY <1>2, SlotsDomain
<1>4. op \in ST!Ops /\ op.name = "none"
  BY <1>1 DEF ST!Ops
<1>5. ValueInv
  BY <1>1 DEF ValueInv, Valued, Absent
<1> QED
  BY <1>3, <1>4, <1>5 DEF ST!Init

(* Results and optionals implement the sum type, however many there are    *)
(* and whatever they hold: every call gives the objects it names exactly   *)
(* the content the class promises and leaves all others alone, and only a  *)
(* result of which an operation threw is ever broken (ResultStorage and    *)
(* OptionalStorage, Result.hpp and Optional.hpp).                          *)
THEOREM SumTypeTheorem == MCSpec => ImplementsSumType
<1>1. MCInit => ST!Init /\ ValueInv
  BY InitSimulated
<1>2. AllInv /\ ValueInv /\ [MCNext]_<<vars, opt>> => [ST!Next]_(ST!vars) /\ ValueInv'
  BY StepSimulated
<1> QED
  BY <1>1, <1>2, Invariance, PTL DEF MCSpec, ImplementsSumType, ST!Spec
=============================================================================
