---------------------------- MODULE StartupProofs ---------------------------
(***************************************************************************)
(* Theorems about the start of pimc and of mclst, each for either program  *)
(* with any command line and any file, and for both as MCStartup starts    *)
(* them.                                                                   *)
(*                                                                         *)
(* PrivilegesContained of IPv4PIMIntf: packing, loading and parsing play   *)
(* no part, what they leave alone is all that is used of them.             *)
(*                                                                         *)
(* CommandLineHonoured of GetOptLong: the invariant says what the parser   *)
(* has made of the elements before optind; the rest is that both tables of *)
(* options are tables (IsTable), and what flattening a sequence returns,   *)
(* which is proved by the least element at which it would go wrong.        *)
(*                                                                         *)
(* LoadedConfigExact of PimcMain: loader by loader, what it accepts and    *)
(* what it makes of that, for the documents over any set of nodes that     *)
(* IsYaml() describes (ConfigFacts).  The loops over a list of sources and *)
(* over the groups are folds; they are read along the prefixes of the list *)
(* (ListRead, GroupsRead), a builder with an error never losing it.        *)
(*                                                                         *)
(* StartupOutcome of MCStartup: what each stage of pimc, and the           *)
(* configuration of mclst, say of the stages before them (StageInv and     *)
(* MclstInv), on top of the other invariants.                              *)
(***************************************************************************)
EXTENDS MCStartup, FiniteSetTheorems, WellFoundedInduction, TLAPS

Both == { Caps[k] : k \in DOMAIN Caps }
Calls == {"drop", "get", "free", "set", "socket", "reuse", "hdrincl", "bind"}
WithSocket == {"reuse", "hdrincl", "bind"}

(* What create() has got so far at each of its steps: the capabilities up  *)
(* to nextCap, and from "raised" on the CapState that will drop them; the  *)
(* socket is open exactly between its opening and the return.              *)
IntfInv ==
  /\ permitted \subseteq Both
  /\ effective \subseteq Both
  /\ nextCap \in 1 .. 3
  /\ failedCalls \subseteq Calls
  /\ create \in {"idle", "raise", "raised", "intf", "failed"} \cup WithSocket
  /\ create \in {"idle", "raise"} => ~rcap
  /\ create = "idle" => nextCap = 1
  /\ create = "raise" => /\ nextCap > 1 => "NET_RAW" \in effective
                         /\ nextCap > 2 => "NET_BIND_SERVICE" \in effective
  /\ create \in {"idle", "raise", "raised"} => socket = "none"
  /\ create \in WithSocket => socket = "open"
  /\ PrivilegesContained
-----------------------------------------------------------------------------
LEMMA CapsFacts ==
  /\ DOMAIN Caps = {1, 2} /\ Len(Caps) = 2
  /\ Caps[1] = "NET_RAW" /\ Caps[2] = "NET_BIND_SERVICE"
  /\ Both = {"NET_RAW", "NET_BIND_SERVICE"}
<1>1. /\ DOMAIN Caps = {1, 2} /\ Len(Caps) = 2
      /\ Caps[1] = "NET_RAW" /\ Caps[2] = "NET_BIND_SERVICE"
  BY DEF Caps
<1> QED
  BY <1>1 DEF Both

LEMMA InitIntfInv == ASSUME IntfInit PROVE IntfInv
<1>1. permitted \subseteq Both /\ effective \subseteq Both
  BY DEF IntfInit, Both
<1> QED
  BY <1>1 DEF IntfInit, IntfInv, PrivilegesContained, WithSocket

LEMMA CreateStartsStep == ASSUME IntfInv, CreateStarts PROVE IntfInv'
BY DEF IntfInv, CreateStarts, PrivilegesContained, WithSocket

(* A return of create(), by which ~CapState() drops what was raised.       *)
LEMMA ReturnStep ==
  ASSUME IntfInv, create \in {"raised"} \cup WithSocket,
         NEW outcome \in {"intf", "failed"}, NEW failed \in SUBSET Calls,
         Return(outcome, failed), UNCHANGED nextCap,
         socket' = "open" => \/ outcome = "intf"
                             \/ "reuse" \in failed,
         outcome = "intf" => socket' = "open"
  PROVE  IntfInv'
<1>1. rcap
  BY DEF IntfInv, PrivilegesContained, WithSocket
<1>2. create' = outcome /\ dropAllCaps(failed)
  BY <1>1 DEF Return
<1>3. effective' # {} => "drop" \in failedCalls'
  BY <1>2 DEF dropAllCaps
<1>4. failed \subseteq failedCalls' /\ failedCalls' \subseteq Calls
  BY <1>2 DEF dropAllCaps, IntfInv, Calls
<1>5. permitted' \subseteq Both /\ effective' \subseteq Both
  BY <1>2 DEF dropAllCaps, IntfInv
<1>6. PrivilegesContained'
  BY <1>2, <1>3, <1>4 DEF PrivilegesContained
<1> QED
  BY <1>2, <1>4, <1>5, <1>6 DEF IntfInv, WithSocket

LEMMA IntfNextStep == ASSUME IntfInv, IntfNext PROVE IntfInv'
<1> USE DEF IntfInv
<1>1. CASE RaiseFailsEarly
  BY <1>1 DEF RaiseFailsEarly, PrivilegesContained, WithSocket, Calls
<1>2. CASE RaiseRefused
  <2>1. create' = "failed" /\ (effective' # {} => "drop" \in failedCalls')
    BY <1>2 DEF RaiseRefused, dropAllCaps
  <2>2. failedCalls' \subseteq Calls
    BY <1>2 DEF RaiseRefused, dropAllCaps, Calls
  <2>3. permitted' \subseteq Both /\ effective' \subseteq Both
    BY <1>2 DEF RaiseRefused, dropAllCaps
  <2> QED
    BY <1>2, <2>1, <2>2, <2>3 DEF RaiseRefused, PrivilegesContained, WithSocket
<1>3. CASE RaiseCap
  <2>1. effective' \subseteq Both
    BY <1>3, CapsFacts DEF RaiseCap, Both
  <2>2. CASE create' = "failed"
    BY <1>3, <2>1, <2>2 DEF RaiseCap, PrivilegesContained, WithSocket, Calls
  <2>3. CASE nextCap' = nextCap + 1 /\ UNCHANGED <<create, failedCalls>>
    <3>1. nextCap' \in {2, 3}
      BY <1>3, <2>3, CapsFacts DEF RaiseCap
    <3>2. /\ "NET_RAW" \in effective'
          /\ nextCap' = 3 => "NET_BIND_SERVICE" \in effective'
      BY <1>3, <2>3, CapsFacts DEF RaiseCap
    <3> QED
      BY <1>3, <2>1, <2>3, <3>1, <3>2 DEF RaiseCap, PrivilegesContained, WithSocket
  <2> QED
    BY <1>3, <2>2, <2>3 DEF RaiseCap
<1>4. CASE RaiseReturns
  <2>1. effective = Both
    <3>1. create = "raise" /\ nextCap > 2
      BY <1>4, CapsFacts DEF RaiseReturns
    <3>2. "NET_RAW" \in effective /\ "NET_BIND_SERVICE" \in effective
      BY <3>1
    <3> QED
      BY <3>2, CapsFacts
  <2>2. rcap' = TRUE /\ UNCHANGED <<permitted, effective, failedCalls>>
    BY <1>4 DEF RaiseReturns, Moved
  <2> QED
    BY <1>4, <2>1, <2>2 DEF RaiseReturns, PrivilegesContained, WithSocket, Both
<1>5. CASE OpenSocket \/ AllowReuse \/ SetHdrIncl
  BY <1>5 DEF OpenSocket, AllowReuse, SetHdrIncl, PrivilegesContained, WithSocket
<1>6. CASE OpenFails
  BY <1>6, ReturnStep DEF OpenFails, Calls
<1>7. CASE AllowReuseFails
  BY <1>7, ReturnStep DEF AllowReuseFails, Calls, WithSocket
<1>8. CASE ConfigureFails
  <2>1. {create} \in SUBSET Calls /\ create \in WithSocket
    BY <1>8 DEF ConfigureFails, Calls, WithSocket
  <2> QED
    BY <1>8, <2>1, ReturnStep DEF ConfigureFails
<1>9. CASE BindAndReturn
  BY <1>9, ReturnStep DEF BindAndReturn, WithSocket
<1> QED
  BY <1>1, <1>2, <1>3, <1>4, <1>5, <1>6, <1>7, <1>8, <1>9 DEF IntfNext

LEMMA IntfSame == ASSUME IntfInv, UNCHANGED intfVars PROVE IntfInv'
BY DEF IntfInv, intfVars, PrivilegesContained

LEMMA PimcStep == ASSUME IntfInv, PimcNext PROVE IntfInv'
<1>1. CASE OpenLogger
  BY <1>1, CreateStartsStep, IntfSame DEF OpenLogger
<1>2. CASE CreateInterface
  BY <1>2, IntfNextStep DEF CreateInterface
<1>3. CASE UNCHANGED intfVars
  BY <1>3, IntfSame
<1> QED
  BY <1>1, <1>2, <1>3
     DEF PimcNext, ParseArgs, PimcArgsEnd, PimcUseArgs, LoadFails, LoadConfig,
         BuildConfig, ShowConfig
-----------------------------------------------------------------------------
(* The start of pimc with one command line and one file.                   *)
PimcSpec(commandLine, file) ==
  IntfInit /\ PimcInit(commandLine, file) /\ [][PimcNext]_<<pimcVars, golVars, intfVars>>

(* Whatever the command line and the file, whatever capabilities pimc has  *)
(* and whichever system calls fail, in any combination: create() has both  *)
(* capabilities while it needs them, and leaves one raised or a socket     *)
(* open only where PrivilegesContained says so (IPv4PIMIntf.cpp:21-65,     *)
(* CapState.hpp:75-143).                                                   *)
THEOREM PimcPrivileges ==
  ASSUME NEW commandLine, NEW file
  PROVE  PimcSpec(commandLine, file) => []PrivilegesContained
<1>1. IntfInit => IntfInv
  BY InitIntfInv
<1>2. IntfInv /\ [PimcNext]_<<pimcVars, golVars, intfVars>> => IntfInv'
  BY PimcStep, IntfSame
<1>3. IntfInv => PrivilegesContained
  BY DEF IntfInv
<1> QED
  BY <1>1, <1>2, <1>3, PTL DEF PimcSpec

(* The same of the two programs as the run starts them; mclst never raises *)
(* a capability of its own.                                                *)
THEOREM StartupPrivileges == MCSpec => []PrivilegesContained
<1>1. MCInit => IntfInv
  BY InitIntfInv DEF MCInit
<1>2. IntfInv /\ [MCNext]_allVars => IntfInv'
  BY PimcStep, IntfSame DEF MCNext, allVars
<1>3. IntfInv => PrivilegesContained
  BY DEF IntfInv
<1> QED
  BY <1>1, <1>2, <1>3, PTL DEF MCSpec
-----------------------------------------------------------------------------
LEMMA LeastNat ==
  ASSUME NEW T, T \subseteq Nat, T # {}
  PROVE  \E m \in T : \A k \in T : m <= k
<1>1. IsWellFoundedOn(OpToRel(<, Nat), Nat)
  BY NatLessThanWellFounded
<1>2. PICK m \in T : \A k \in T : ~(<<k, m>> \in OpToRel(<, Nat))
  BY <1>1, WFMin
<1>3. \A k \in T : ~(k < m)
  BY <1>2, Zenon DEF OpToRel
<1> QED
  BY <1>3

(* f runs over the values that F makes of a and the elements of s.         *)
Iterates(f, F, a, s, N) == f[0] = a /\ \A i \in 1 .. N : f[i] = F[<<f[i - 1], s[i]>>]

(* A function given by a first value and one step exists.                  *)
LEMMA IterationExists ==
  ASSUME NEW A, NEW B, NEW F \in [A \X B -> A], NEW a \in A, NEW N \in Nat, NEW s \in [1 .. N -> B]
  PROVE  \E f \in [0 .. N -> A] : Iterates(f, F, a, s, N)
<1> DEFINE Good(n, f) == f[0] = a /\ \A i \in 1 .. n : f[i] = F[<<f[i - 1], s[i]>>]
           Failing == { n \in 0 .. N : ~\E f \in [0 .. n -> A] : Good(n, f) }
<1>1. SUFFICES Failing = {}
  <2>1. N \in 0 .. N
    OBVIOUS
  <2> QED
    BY <1>1, <2>1 DEF Iterates
<1>2. SUFFICES ASSUME Failing # {} PROVE FALSE
  OBVIOUS
<1>3. PICK m \in Failing : \A k \in Failing : m <= k
  <2>1. Failing \subseteq Nat
    OBVIOUS
  <2> HIDE DEF Failing
  <2> QED
    BY <1>2, <2>1, LeastNat
<1>4. m # 0
  <2>1. ASSUME m = 0 PROVE FALSE
    <3> DEFINE f == [i \in 0 .. 0 |-> a]
    <3>1. f \in [0 .. 0 -> A] /\ Good(0, f)
      OBVIOUS
    <3> QED
      BY <2>1, <3>1
  <2> QED
    BY <2>1
<1>5. m \in 1 .. N /\ m - 1 \in 0 .. N /\ m - 1 \notin Failing
  <2>1. m \in 1 .. N
    BY <1>4
  <2> HIDE DEF Failing
  <2> QED
    BY <1>3, <2>1
<1>6. PICK f \in [0 .. m - 1 -> A] : Good(m - 1, f)
  BY <1>5
<1> DEFINE g == [i \in 0 .. m |-> IF i = m THEN F[<<f[m - 1], s[m]>>] ELSE f[i]]
<1>7. F[<<f[m - 1], s[m]>>] \in A
  BY <1>5, <1>6
<1>8. g \in [0 .. m -> A]
  BY <1>5, <1>6, <1>7
<1>9. Good(m, g)
  <2>1. g[0] = a
    BY <1>5, <1>6
  <2>2. ASSUME NEW i \in 1 .. m PROVE g[i] = F[<<g[i - 1], s[i]>>]
    <3>1. i - 1 \in 0 .. m /\ i - 1 # m /\ i \in 0 .. m
      BY <1>5
    <3>2. g[i - 1] = f[i - 1]
      BY <3>1
    <3>3. CASE i = m
      BY <3>1, <3>2, <3>3
    <3>4. CASE i # m
      <4>1. i \in 1 .. m - 1
        BY <1>5, <3>4
      <4>2. f[i] = F[<<f[i - 1], s[i]>>]
        BY <1>6, <4>1
      <4> QED
        BY <3>1, <3>2, <3>4, <4>2
    <3> QED
      BY <3>3, <3>4
  <2> HIDE DEF g
  <2> QED
    BY <2>1, <2>2
<1> QED
  BY <1>3, <1>8, <1>9

LEMMA FlattenType ==
  ASSUME NEW T, NEW ss \in Seq(Seq(T))
  PROVE  Seqs!FlattenSeq(ss) \in Seq(T)
<1>1. CASE Len(ss) = 0
  BY <1>1 DEF Seqs!FlattenSeq
<1>2. CASE Len(ss) # 0
  <2> DEFINE N == Len(ss)
             Eq(h) == h = [i \in 1 .. N |-> IF i = 1 THEN ss[i] ELSE h[i - 1] \o ss[i]]
  <2>1. N \in Nat \ {0} /\ ss \in [1 .. N -> Seq(T)]
    BY <1>2
  <2>2. \E h : Eq(h)
    <3> PICK n : n = N
      OBVIOUS
    <3>0. n \in Nat \ {0} /\ ss \in [1 .. n -> Seq(T)]
      BY <2>1
    <3>1. PICK F \in [Seq(T) \X Seq(T) -> Seq(T)] : \A x, y \in Seq(T) : F[<<x, y>>] = x \o y
      <4> DEFINE F == [p \in Seq(T) \X Seq(T) |-> p[1] \o p[2]]
      <4>1. F \in [Seq(T) \X Seq(T) -> Seq(T)]
        OBVIOUS
      <4>2. \A x, y \in Seq(T) : F[<<x, y>>] = x \o y
        OBVIOUS
      <4> QED
        BY <4>1, <4>2, Zenon
    <3>2. PICK e \in Seq(T) : e = << >>
      <4>1. << >> \in Seq(T)
        OBVIOUS
      <4> QED
        BY <4>1, Zenon
    <3>3. PICK f \in [0 .. n -> Seq(T)] :
            f[0] = e /\ \A i \in 1 .. n : f[i] = F[<<f[i - 1], ss[i]>>]
      <4>1. \E f \in [0 .. n -> Seq(T)] :
              f[0] = e /\ \A i \in 1 .. n : f[i] = F[<<f[i - 1], ss[i]>>]
        <5>1. PICK A : A = Seq(T)
          OBVIOUS
        <5>2. F \in [A \X A -> A] /\ e \in A /\ n \in Nat /\ ss \in [1 .. n -> A]
          BY <3>0, <3>1, <3>2, <5>1
        <5>3. \E f \in [0 .. n -> A] : Iterates(f, F, e, ss, n)
          BY <5>2, IterationExists, Zenon
        <5> QED
          BY <5>1, <5>3 DEF Iterates
      <4> QED
        BY <4>1
    <3>4. \A i \in 1 .. n : /\ i - 1 \in 0 .. n /\ i \in 0 .. n
                            /\ f[i - 1] \in Seq(T) /\ ss[i] \in Seq(T)
      <4>1. \A i \in 1 .. n : i - 1 \in 0 .. n /\ i \in 0 .. n
        BY <3>0
      <4> QED
        BY <3>0, <4>1, Zenon
    <3>5. \A i \in 1 .. n : f[i] = f[i - 1] \o ss[i]
      BY <3>1, <3>3, <3>4, Zenon
    <3>6. f[1] = ss[1]
      <4>1. 1 \in 1 .. n /\ 1 - 1 = 0 /\ ss[1] \in Seq(T)
        BY <3>0
      <4>2. f[1] = << >> \o ss[1]
        BY <3>2, <3>3, <3>5, <4>1
      <4> QED
        BY <4>1, <4>2
    <3> DEFINE h == [i \in 1 .. n |-> f[i]]
    <3>7. ASSUME NEW i \in 1 .. n
          PROVE  h[i] = IF i = 1 THEN ss[i] ELSE h[i - 1] \o ss[i]
      <4>1. CASE i = 1
        BY <3>6, <4>1
      <4>2. CASE i # 1
        <5>1. i - 1 \in 1 .. n
          BY <3>0, <4>2
        <5> QED
          BY <3>5, <4>2, <5>1
      <4> QED
        BY <4>1, <4>2
    <3>8. Eq(h)
      BY <3>7
    <3> QED
      BY <3>8
  <2> DEFINE h == CHOOSE g : Eq(g)
  <2>3. Eq(h)
    BY <2>2
  <2>4. Seqs!FlattenSeq(ss) = h[N]
    BY <1>2 DEF Seqs!FlattenSeq
  <2> HIDE DEF h
  <2>5. \A i \in 1 .. N : h[i] = IF i = 1 THEN ss[i] ELSE h[i - 1] \o ss[i]
    BY <2>3
  <2> DEFINE Failing == { i \in 1 .. N : h[i] \notin Seq(T) }
  <2>6. Failing = {}
    <3>1. SUFFICES ASSUME Failing # {} PROVE FALSE
      OBVIOUS
    <3>2. PICK m \in Failing : \A k \in Failing : m <= k
      <4>1. Failing \subseteq Nat
        OBVIOUS
      <4> HIDE DEF Failing
      <4> QED
        BY <3>1, <4>1, LeastNat
    <3>3. CASE m = 1
      BY <2>1, <2>5, <3>3
    <3>4. CASE m # 1
      <4>1. m - 1 \in 1 .. N /\ m - 1 \notin Failing
        <5>1. m - 1 \in 1 .. N /\ m \in Int /\ ~(m <= m - 1)
          BY <2>1, <3>4
        <5> HIDE DEF Failing
        <5> QED
          BY <3>2, <5>1
      <4>2. h[m] = h[m - 1] \o ss[m]
        BY <2>5, <3>4
      <4>3. h[m - 1] \in Seq(T) /\ ss[m] \in Seq(T)
        BY <2>1, <4>1
      <4>4. h[m] \in Seq(T)
        BY <4>2, <4>3
      <4> QED
        BY <4>4
    <3> QED
      BY <3>3, <3>4
  <2> QED
    BY <2>1, <2>4, <2>6
<1> QED
  BY <1>1, <1>2

(* A table as the constructor and addOption() build it: the help option is *)
(* the first and the only one of its kind, the others are flags or take    *)
(* one value, and no short name is a ':' or a '?'.                         *)
IsTable(table) ==
  /\ table \in Seq({ table[k] : k \in DOMAIN table })
  /\ NoDuplicates(table)
  /\ \A k \in DOMAIN table :
       /\ table[k].shortOpt \in Nat \ {Colon, QuestionMark}
       /\ table[k].flag \in BOOLEAN
       /\ table[k].multiple <=> k = 1
       /\ table[k].longOpt = "help" <=> k = 1
       /\ k = 1 => table[k].flag

CodeOf(e, k) == IF e.kind = "short" THEN e.short ELSE -k

LEMMA TableFacts ==
  ASSUME NEW table, IsTable(table)
  PROVE  /\ Len(table) \in Nat /\ DOMAIN table = 1 .. Len(table)
         /\ \A k \in DOMAIN table : k \in Nat \ {0}
         /\ \A k \in DOMAIN table : isHelp(table[k]) <=> k = 1
<1>1. Len(table) \in Nat /\ DOMAIN table = 1 .. Len(table)
  BY DEF IsTable
<1>2. \A k \in DOMAIN table : isHelp(table[k]) <=> k = 1
  BY DEF IsTable, isHelp
<1> QED
  BY <1>1, <1>2

LEMMA LineFacts ==
  ASSUME NEW line, IsCommandLine(line)
  PROVE  /\ Len(line) \in Nat /\ DOMAIN line = 1 .. Len(line)
         /\ \A j \in DOMAIN line :
              /\ line[j].kind \in {"word", "short", "long"}
              /\ line[j].kind = "short" => line[j].short \in Nat \ {0}
              /\ line[j].kind = "long" => line[j].long # ""
<1>1. PICK S : line \in Seq(S)
  BY DEF IsCommandLine
<1>2. Len(line) \in Nat /\ DOMAIN line = 1 .. Len(line)
  BY <1>1
<1> QED
  BY <1>2, Zenon DEF IsCommandLine, LongOnly

(* An option has one element of the table at most.                         *)
LEMMA NamedOnce ==
  ASSUME IsTable(ois), IsCommandLine(argv), NEW j \in DOMAIN argv, NEW k \in Named(argv[j])
  PROVE  Named(argv[j]) = {k} /\ k \in DOMAIN ois /\ argv[j].kind # "word"
<1> PICK e : e = argv[j]
  OBVIOUS
<1>1. /\ e.kind = "short" => e.short \in Nat \ {0}
      /\ e.kind = "long" => e.long # ""
  BY LineFacts
<1>2. ASSUME NEW l \in Named(e) PROVE l = k
  <2>1. k \in Named(e)
    OBVIOUS
  <2> QED
    BY <1>1, <1>2, <2>1 DEF Named, IsTable, NoDuplicates, LongOnly
<1>3. k \in DOMAIN ois /\ e.kind # "word"
  BY DEF Named
<1> QED
  BY <1>2, <1>3

(* What getopt_long() returns for an option, and that its code leads back  *)
(* to it.                                                                  *)
LEMMA ReturnedCode ==
  ASSUME IsTable(ois), IsCommandLine(argv), NEW j \in DOMAIN argv, argv[j].kind # "word"
  PROVE  /\ Named(argv[j]) = {} => getopt_long(argv[j]).c = QuestionMark
         /\ \A k \in Named(argv[j]) :
              /\ ois[k].flag /\ argv[j].arg # NoArg => getopt_long(argv[j]).c = QuestionMark
              /\ ~ois[k].flag /\ argv[j].arg = NoArg =>
                   /\ getopt_long(argv[j]).c = Colon
                   /\ getopt_long(argv[j]).optopt = CodeOf(argv[j], k)
              /\ (ois[k].flag <=> argv[j].arg = NoArg) =>
                   getopt_long(argv[j]).c = CodeOf(argv[j], k)
<1> PICK e : e = argv[j]
  OBVIOUS
<1>1. e.kind \in {"short", "long"}
  BY LineFacts
<1> DEFINE named == { k \in DOMAIN ois :
                        IF e.kind = "short" THEN ois[k].shortOpt = e.short
                                            ELSE ois[k].longOpt = e.long }
<1>2. named = Named(e)
  BY <1>1 DEF Named
<1>3. CASE Named(e) = {}
  BY <1>2, <1>3 DEF getopt_long
<1>4. ASSUME NEW k \in Named(e)
      PROVE  /\ ois[k].flag /\ e.arg # NoArg => getopt_long(e).c = QuestionMark
             /\ ~ois[k].flag /\ e.arg = NoArg =>
                  getopt_long(e).c = Colon /\ getopt_long(e).optopt = CodeOf(e, k)
             /\ (ois[k].flag <=> e.arg = NoArg) => getopt_long(e).c = CodeOf(e, k)
  <2>1. named = {k} /\ k \in DOMAIN ois
    BY <1>2, <1>4, NamedOnce, SMTT(30)
  <2>2. (CHOOSE l \in named : TRUE) = k
    BY <2>1, SMTT(30)
  <2>3. ois[k].flag \in BOOLEAN
    BY <2>1, SMTT(30) DEF IsTable
  <2>4. CASE ois[k].flag /\ e.arg # NoArg
    BY <2>1, <2>2, <2>4 DEF getopt_long
  <2>5. CASE ~ois[k].flag /\ e.arg = NoArg
    BY <2>1, <2>2, <2>5, SMTT(30) DEF getopt_long, CodeOf
  <2>6. CASE ois[k].flag <=> e.arg = NoArg
    BY <2>1, <2>2, <2>3, <2>6 DEF getopt_long, CodeOf
  <2> QED
    BY <2>3, <2>4, <2>5, <2>6
<1> QED
  BY <1>2, <1>3, <1>4

LEMMA CodeLeadsBack ==
  ASSUME IsTable(ois), IsCommandLine(argv), NEW j \in DOMAIN argv, NEW k \in Named(argv[j])
  PROVE  /\ optMap(CodeOf(argv[j], k)) = {k}
         /\ CodeOf(argv[j], k) \notin {Colon, QuestionMark}
         /\ CodeOf(argv[j], k) = -1 <=> argv[j].kind = "long" /\ argv[j].long = "help"
         /\ CodeOf(argv[j], k) = -1 => k = 1
<1> PICK e : e = argv[j]
  OBVIOUS
<1>1. /\ e.kind \in {"short", "long"}
      /\ e.kind = "short" => e.short \in Nat \ {0}
      /\ e.kind = "long" => e.long # ""
  BY LineFacts, NamedOnce
<1>2. k \in DOMAIN ois /\ k \in Nat \ {0} /\ \A l \in DOMAIN ois : l \in Nat \ {0}
  BY TableFacts, NamedOnce
<1>3. /\ \A l \in DOMAIN ois : ois[l].shortOpt \in Nat \ {Colon, QuestionMark}
      /\ ois[k].longOpt = "help" <=> k = 1
  BY <1>2 DEF IsTable
<1>4. CASE e.kind = "short"
  <2>1. ois[k].shortOpt = e.short
    BY <1>4 DEF Named
  <2>2. CodeOf(e, k) = e.short /\ e.short \in Nat \ {0, Colon, QuestionMark}
    BY <1>1, <1>2, <1>3, <1>4, <2>1 DEF CodeOf
  <2>3. \A l \in DOMAIN ois : e.short # -l /\ (ois[l].shortOpt = e.short => ois[l].shortOpt # 0)
    BY <1>2, <2>2
  <2>4. optMap(e.short) = { l \in DOMAIN ois : ois[l].shortOpt = e.short }
    BY <2>3, Zenon DEF optMap, LongOnly
  <2>5. Named(e) = { l \in DOMAIN ois : ois[l].shortOpt = e.short }
    BY <1>4, Zenon DEF Named
  <2> QED
    BY <1>2, <1>4, <2>2, <2>4, <2>5, NamedOnce
<1>5. CASE e.kind = "long"
  <2>1. ois[k].longOpt = e.long /\ CodeOf(e, k) = -k
    BY <1>5 DEF Named, CodeOf
  <2>2. \A l \in DOMAIN ois : ois[l].shortOpt # -k /\ (-k = -l <=> l = k)
    BY <1>2, <1>3
  <2>3. optMap(-k) = { l \in DOMAIN ois : ois[l].longOpt # "" /\ l = k }
    BY <2>2, Zenon DEF optMap
  <2>4. optMap(-k) = {k}
    BY <1>1, <1>2, <1>5, <2>1, <2>3
  <2> QED
    BY <1>2, <1>3, <1>5, <2>1, <2>4 DEF Colon, QuestionMark
<1> QED
  BY <1>1, <1>4, <1>5
-----------------------------------------------------------------------------
(* The elements before the n-th that name option k.                        *)
Taken(k, n) == { j \in 1 .. n - 1 : k \in Named(argv[j]) }

Clean(j) == ~Malformed(argv[j]) /\ 1 \notin Named(argv[j])

(* The value of option k is what the elements js, which name it, say.      *)
HasValueOf(k, js) ==
  /\ flagValue[ois[k].id] <=> ois[k].flag /\ js # {}
  /\ ~ois[k].flag =>
       /\ js = {} => values[ois[k].id] = << >>
       /\ \A j \in js : js = {j} /\ values[ois[k].id] = << argv[j].arg >>

(* The elements before the n-th have been dealt with.                      *)
Parsed(n) ==
  /\ \A j \in 1 .. n - 1 : Clean(j)
  /\ \A k \in DOMAIN ois : HasValueOf(k, Taken(k, n))

(* The words before the n-th element are those that have been moved.       *)
WordsMoved(n) ==
  /\ Len(nonOptions) = Cardinality(WordsBefore(n))
  /\ \A j \in WordsBefore(n) : nonOptions[Cardinality(WordsBefore(j)) + 1] = argv[j].arg

Args == { argv[j].arg : j \in DOMAIN argv }

GolTypeOK ==
  /\ IsTable(ois) /\ IsCommandLine(argv)
  /\ optind \in 1 .. Len(argv) + 1
  /\ flagValue \in [Ids -> BOOLEAN] /\ values \in [Ids -> Seq(Args)]
  /\ nonOptions \in Seq(Args)
  /\ parse \in {"args", "result", "help", "error"}

GolInv ==
  /\ GolTypeOK
  /\ parse = "args" => Parsed(optind) /\ WordsMoved(optind)
  /\ CommandLineHonoured

(* The first two conjuncts of what CommandLineHonoured says of a result.   *)
OptionsHonoured ==
  /\ \A j \in Seen : ~Malformed(argv[j]) /\ ~\E k \in Named(argv[j]) : isHelp(ois[k])
  /\ \A k \in DOMAIN ois : HasValueOf(k, Given(ois[k].id))

WordsHonoured ==
  IF Seen = DOMAIN argv
  THEN /\ Len(positional) = Cardinality(WordsBefore(Len(argv) + 1))
       /\ \A j \in WordsBefore(Len(argv) + 1) :
            positional[Cardinality(WordsBefore(j)) + 1] = argv[j].arg
  ELSE \A n \in 1 .. Len(positional) : positional[n] \in
         {OptionWord} \cup { argv[j].arg : j \in DOMAIN argv \ Seen }

LEMMA HonouredParts ==
  CommandLineHonoured <=>
    parse # "fatal" /\ (parse = "result" => OptionsHonoured /\ WordsHonoured)
<1> DEFINE Clean0 == \A j \in Seen : ~Malformed(argv[j]) /\ ~\E k \in Named(argv[j]) : isHelp(ois[k])
           Values0 == \A k \in DOMAIN ois : HasValueOf(k, Given(ois[k].id))
<1>1. CommandLineHonoured <=>
        /\ parse # "fatal"
        /\ parse = "result" => Clean0 /\ Values0 /\ WordsHonoured
  BY Zenon DEF CommandLineHonoured, WordsHonoured, HasValueOf
<1>2. OptionsHonoured <=> Clean0 /\ Values0
  BY Zenon DEF OptionsHonoured
<1> QED
  BY <1>1, <1>2, Zenon

LEMMA HelpNamed ==
  ASSUME IsTable(ois), IsCommandLine(argv), NEW j \in DOMAIN argv,
         argv[j].kind = "long", argv[j].long = "help", Clean(j)
  PROVE  FALSE
<1>1. PICK k : k \in Named(argv[j])
  BY DEF Clean, Malformed
<1>2. k \in DOMAIN ois /\ ois[k].longOpt = "help"
  BY <1>1 DEF Named
<1>3. k = 1
  BY <1>2, Zenon DEF IsTable
<1> QED
  BY <1>1, <1>3 DEF Clean

(* The parser stops at the end or at a --help: what it has seen.           *)
LEMMA SeenIs ==
  ASSUME IsTable(ois), IsCommandLine(argv), NEW n \in 1 .. Len(argv) + 1,
         \A j \in 1 .. n - 1 : Clean(j),
         n \in DOMAIN argv => argv[n].kind = "long" /\ argv[n].long = "help"
  PROVE  Seen = 1 .. n - 1
<1> DEFINE Help(j) == argv[j].kind = "long" /\ argv[j].long = "help"
<1>1. Len(argv) \in Nat /\ DOMAIN argv = 1 .. Len(argv)
  BY LineFacts
<1>2. \A j \in 1 .. n - 1 : j \in DOMAIN argv /\ ~Help(j)
  BY <1>1, HelpNamed
<1>3. n \in DOMAIN argv => Help(n)
  OBVIOUS
<1>4. Seen = { j \in DOMAIN argv : ~\E k \in 1 .. j : Help(k) }
  BY DEF Seen
<1> HIDE DEF Help
<1>5. ASSUME NEW j \in 1 .. n - 1 PROVE j \in Seen
  BY <1>1, <1>2, <1>4
<1>6. ASSUME NEW j \in Seen PROVE j \in 1 .. n - 1
  <2>1. j \in 1 .. Len(argv) /\ \A k \in 1 .. j : ~Help(k)
    BY <1>1, <1>4
  <2>2. n \in 1 .. j => n \in DOMAIN argv
    BY <1>1, <2>1
  <2> QED
    BY <1>1, <1>3, <2>1, <2>2
<1> QED
  BY <1>5, <1>6

LEMMA GivenIs ==
  ASSUME IsTable(ois), IsCommandLine(argv), NEW n \in 1 .. Len(argv) + 1,
         Seen = 1 .. n - 1, NEW k \in DOMAIN ois
  PROVE  Given(ois[k].id) = Taken(k, n)
<1>1. \A l \in DOMAIN ois : ois[l].id = ois[k].id => l = k
  BY Zenon DEF IsTable, NoDuplicates
<1>2. \A j : Named(argv[j]) \subseteq DOMAIN ois
  BY DEF Named
<1> QED
  BY <1>1, <1>2, Zenon DEF Given, Taken

LEMMA ParsedHonoured ==
  ASSUME IsTable(ois), IsCommandLine(argv), NEW n \in 1 .. Len(argv) + 1,
         Seen = 1 .. n - 1, Parsed(n)
  PROVE  OptionsHonoured
<1>1. \A k \in DOMAIN ois : Given(ois[k].id) = Taken(k, n)
  BY GivenIs
<1>2. \A k \in DOMAIN ois : HasValueOf(k, Given(ois[k].id))
  BY <1>1, Zenon DEF Parsed
<1>3. \A j : \A k \in Named(argv[j]) : k \in DOMAIN ois
  BY DEF Named
<1>4. \A j \in Seen : ~Malformed(argv[j]) /\ ~\E k \in Named(argv[j]) : isHelp(ois[k])
  BY <1>3, TableFacts, Zenon DEF Parsed, Clean
<1> QED
  BY <1>2, <1>4 DEF OptionsHonoured
-----------------------------------------------------------------------------
LEMMA WordsBeforeFacts ==
  ASSUME IsCommandLine(argv), NEW n \in 1 .. Len(argv)
  PROVE  /\ IsFiniteSet(WordsBefore(n)) /\ Cardinality(WordsBefore(n)) \in Nat
         /\ argv[n].kind = "word" =>
              /\ WordsBefore(n + 1) = WordsBefore(n) \cup {n}
              /\ Cardinality(WordsBefore(n + 1)) = Cardinality(WordsBefore(n)) + 1
         /\ argv[n].kind # "word" => WordsBefore(n + 1) = WordsBefore(n)
<1>1. Len(argv) \in Nat /\ DOMAIN argv = 1 .. Len(argv)
  BY LineFacts
<1>2. WordsBefore(n) \in SUBSET (1 .. Len(argv))
  BY <1>1 DEF WordsBefore
<1>3. IsFiniteSet(WordsBefore(n))
  <2>1. IsFiniteSet(1 .. Len(argv))
    BY <1>1, FS_Interval
  <2> QED
    BY <1>2, <2>1, FS_Subset
<1>4. Cardinality(WordsBefore(n)) \in Nat
  BY <1>3, FS_CardinalityType
<1>5. \A i \in DOMAIN argv : i < n + 1 <=> i < n \/ i = n
  BY <1>1
<1>6. ASSUME argv[n].kind = "word" PROVE WordsBefore(n + 1) = WordsBefore(n) \cup {n}
  BY <1>1, <1>5, <1>6 DEF WordsBefore
<1>7. ASSUME argv[n].kind # "word" PROVE WordsBefore(n + 1) = WordsBefore(n)
  BY <1>1, <1>5, <1>7 DEF WordsBefore
<1>8. n \notin WordsBefore(n)
  BY <1>1 DEF WordsBefore
<1>9. ASSUME argv[n].kind = "word"
      PROVE  Cardinality(WordsBefore(n + 1)) = Cardinality(WordsBefore(n)) + 1
  BY <1>3, <1>6, <1>8, <1>9, FS_AddElement
<1> QED
  BY <1>3, <1>4, <1>6, <1>7, <1>9

(* The smaller of two words stands in front.                               *)
LEMMA WordsCounted ==
  ASSUME IsCommandLine(argv), NEW n \in 1 .. Len(argv), NEW j \in WordsBefore(n)
  PROVE  Cardinality(WordsBefore(j)) + 1 \in 1 .. Cardinality(WordsBefore(n))
<1>1. Len(argv) \in Nat /\ DOMAIN argv = 1 .. Len(argv)
  BY LineFacts
<1>2. j \in 1 .. Len(argv) /\ j < n /\ argv[j].kind = "word"
  BY <1>1 DEF WordsBefore
<1>3. WordsBefore(j + 1) \in SUBSET WordsBefore(n)
  BY <1>1, <1>2 DEF WordsBefore
<1>4. Cardinality(WordsBefore(j + 1)) <= Cardinality(WordsBefore(n))
  BY <1>3, WordsBeforeFacts, FS_Subset
<1>5. Cardinality(WordsBefore(j + 1)) = Cardinality(WordsBefore(j)) + 1
      /\ Cardinality(WordsBefore(j)) \in Nat
  BY <1>2, WordsBeforeFacts
<1> QED
  BY <1>4, <1>5, WordsBeforeFacts

LEMMA SameElements ==
  ASSUME UNCHANGED <<ois, argv>>
  PROVE  /\ \A e : Named(e)' = Named(e)
         /\ \A e : Malformed(e)' <=> Malformed(e)
         /\ \A j : Clean(j)' <=> Clean(j)
         /\ \A k, n : Taken(k, n)' = Taken(k, n)
         /\ \A n : WordsBefore(n)' = WordsBefore(n)
         /\ Seen' = Seen /\ Args' = Args /\ Ids' = Ids
         /\ \A id : Given(id)' = Given(id)
<1>1. \A e : Named(e)' = Named(e)
  BY DEF Named
<1>2. \A e : Malformed(e)' <=> Malformed(e)
  BY <1>1 DEF Malformed
<1>3. \A j : Clean(j)' <=> Clean(j)
  BY <1>1, <1>2 DEF Clean
<1>4. \A k, n : Taken(k, n)' = Taken(k, n)
  BY <1>1 DEF Taken
<1>5. \A n : WordsBefore(n)' = WordsBefore(n)
  BY DEF WordsBefore
<1>6. Seen' = Seen /\ Args' = Args /\ Ids' = Ids
  BY DEF Seen, Args, Ids
<1>7. \A id : Given(id)' = Given(id)
  BY <1>1, <1>6 DEF Given
<1> QED
  BY <1>1, <1>2, <1>3, <1>4, <1>5, <1>6, <1>7

LEMMA SameOptions ==
  ASSUME UNCHANGED <<ois, argv, flagValue, values>>
  PROVE  /\ \A k, js : HasValueOf(k, js)' <=> HasValueOf(k, js)
         /\ \A n : Parsed(n)' <=> Parsed(n)
         /\ OptionsHonoured' <=> OptionsHonoured
<1>1. \A k, js : HasValueOf(k, js)' <=> HasValueOf(k, js)
  BY Zenon DEF HasValueOf
<1>2. \A n : Parsed(n)' <=> Parsed(n)
  BY <1>1, SameElements, Zenon DEF Parsed
<1>3. OptionsHonoured' <=> OptionsHonoured
  BY <1>1, SameElements, Zenon DEF OptionsHonoured
<1> QED
  BY <1>1, <1>2, <1>3
-----------------------------------------------------------------------------
LEMMA SkipWordStep == ASSUME GolInv, SkipWord PROVE GolInv'
<1> PICK n : n = optind
  OBVIOUS
<1>1. /\ UNCHANGED <<ois, argv, flagValue, values, positional, parse>>
      /\ parse = "args" /\ argv[n].kind = "word" /\ n \in 1 .. Len(argv)
      /\ optind' = n + 1 /\ nonOptions' = Append(nonOptions, argv[n].arg)
  BY DEF SkipWord, GolInv, GolTypeOK
<1>2. /\ GolTypeOK /\ Parsed(n) /\ WordsMoved(n)
      /\ IsTable(ois) /\ IsCommandLine(argv)
  BY <1>1 DEF GolInv, GolTypeOK
<1>3. Len(argv) \in Nat /\ DOMAIN argv = 1 .. Len(argv)
  BY <1>2, LineFacts
<1>4. nonOptions \in Seq(Args) /\ argv[n].arg \in Args
  BY <1>1, <1>2, <1>3 DEF GolTypeOK, Args
<1>5. GolTypeOK'
  BY <1>1, <1>2, <1>3, <1>4, SameElements DEF GolTypeOK
<1>6. Named(argv[n]) = {} /\ Clean(n)
  BY <1>1 DEF Named, Clean, Malformed
<1>7. \A k : Taken(k, n + 1) = Taken(k, n)
  BY <1>1, <1>3, <1>6 DEF Taken
<1>8. Parsed(n + 1)
  <2>1. \A j \in 1 .. n : j \in 1 .. n - 1 \/ j = n
    BY <1>1, <1>3
  <2>2. (n + 1) - 1 = n
    BY <1>1, <1>3
  <2> QED
    BY <1>2, <1>6, <1>7, <2>1, <2>2, Zenon DEF Parsed
<1>9. Parsed(optind)'
  BY <1>1, <1>8, SameOptions DEF Parsed
<1>10. WordsMoved(optind)'
  <2>1. /\ WordsBefore(n + 1) = WordsBefore(n) \cup {n}
        /\ Cardinality(WordsBefore(n + 1)) = Cardinality(WordsBefore(n)) + 1
        /\ Cardinality(WordsBefore(n)) \in Nat
    BY <1>1, <1>2, WordsBeforeFacts
  <2>2. /\ Len(nonOptions') = Cardinality(WordsBefore(n + 1))
        /\ nonOptions'[Cardinality(WordsBefore(n)) + 1] = argv[n].arg
    BY <1>1, <1>2, <1>4, <2>1 DEF WordsMoved
  <2>3. ASSUME NEW j \in WordsBefore(n)
        PROVE  nonOptions'[Cardinality(WordsBefore(j)) + 1] = argv[j].arg
    <3>1. Cardinality(WordsBefore(j)) + 1 \in 1 .. Len(nonOptions)
      BY <1>1, <1>2, WordsCounted DEF WordsMoved
    <3> QED
      BY <1>1, <1>2, <1>4, <3>1 DEF WordsMoved
  <2>4. WordsMoved(n + 1)'
    <3>1. \A j \in WordsBefore(n + 1) : nonOptions'[Cardinality(WordsBefore(j)) + 1] = argv[j].arg
      BY <2>1, <2>2, <2>3
    <3> QED
      BY <1>1, <2>2, <3>1, SameElements, Zenon DEF WordsMoved
  <2> QED
    BY <1>1, <2>4 DEF WordsMoved
<1>11. CommandLineHonoured'
  BY <1>1, HonouredParts DEF CommandLineHonoured
<1> QED
  BY <1>5, <1>9, <1>10, <1>11 DEF GolInv

(* A step that ends the parse without a result.                            *)
LEMMA NoResultStep ==
  ASSUME GolInv, UNCHANGED <<ois, argv, nonOptions>>, optind' \in 1 .. Len(argv) + 1,
         flagValue' \in [Ids -> BOOLEAN], values' \in [Ids -> Seq(Args)],
         parse' \in {"help", "error"}
  PROVE  GolInv'
<1>1. GolTypeOK'
  BY SameElements DEF GolInv, GolTypeOK
<1>2. CommandLineHonoured'
  BY DEF CommandLineHonoured
<1> QED
  BY <1>1, <1>2 DEF GolInv

LEMMA MissingArgumentStep == ASSUME GolInv, MissingArgument PROVE GolInv'
<1> PICK n : n = optind
  OBVIOUS
<1>1. /\ UNCHANGED <<ois, argv, optind, nonOptions, flagValue, values>>
      /\ argv[n].kind # "word" /\ n \in 1 .. Len(argv)
      /\ getopt_long(argv[n]).c = Colon
      /\ parse' = IF optMap(getopt_long(argv[n]).optopt) # {} THEN "error" ELSE "fatal"
  BY DEF MissingArgument, AtOption, GolInv, GolTypeOK
<1>2. GolTypeOK /\ IsTable(ois) /\ IsCommandLine(argv) /\ n \in DOMAIN argv
  BY <1>1, LineFacts DEF GolInv, GolTypeOK
<1>3. PICK k : k \in Named(argv[n])
  BY <1>1, <1>2, ReturnedCode DEF Colon, QuestionMark
<1>4. ~ois[k].flag /\ argv[n].arg = NoArg
  <2>1. ois[k].flag \in BOOLEAN
    BY <1>2, <1>3, NamedOnce DEF IsTable
  <2>2. CodeOf(argv[n], k) # Colon
    BY <1>2, <1>3, CodeLeadsBack
  <2> QED
    BY <1>1, <1>2, <1>3, <2>1, <2>2, ReturnedCode DEF Colon, QuestionMark
<1>5. optMap(getopt_long(argv[n]).optopt) = {k}
  BY <1>1, <1>2, <1>3, <1>4, ReturnedCode, CodeLeadsBack
<1> QED
  BY <1>1, <1>2, <1>5, NoResultStep DEF GolTypeOK

LEMMA UnrecognizedStep == ASSUME GolInv, Unrecognized PROVE GolInv'
BY NoResultStep DEF Unrecognized, GolInv, GolTypeOK
-----------------------------------------------------------------------------
(* An option is taken note of: the elements before the next one are parsed *)
(* if its value has been added and those of the others are what they were. *)
LEMMA ParsedOneMore ==
  ASSUME GolTypeOK, NEW n \in 1 .. Len(argv), NEW k \in Named(argv[n]), Clean(n), Parsed(n),
         UNCHANGED <<ois, argv>>,
         HasValueOf(k, Taken(k, n) \cup {n})',
         \A l \in DOMAIN ois \ {k} : /\ flagValue'[ois[l].id] = flagValue[ois[l].id]
                                     /\ values'[ois[l].id] = values[ois[l].id]
  PROVE  Parsed(n + 1)'
<1>0. IsTable(ois) /\ IsCommandLine(argv)
  BY DEF GolTypeOK
<1>1. IsTable(ois) /\ IsCommandLine(argv) /\ n \in DOMAIN argv /\ n \in Nat
  <2>1. Len(argv) \in Nat /\ DOMAIN argv = 1 .. Len(argv)
    BY <1>0, LineFacts
  <2> QED
    BY <1>0, <2>1
<1>2. Named(argv[n]) = {k} /\ k \in DOMAIN ois
  BY <1>1, NamedOnce
<1>3. (n + 1) - 1 = n /\ \A j \in 1 .. n : j \in 1 .. n - 1 \/ j = n
  BY <1>1
<1>4. \A j \in 1 .. n : Clean(j)
  BY <1>3, Zenon DEF Parsed
<1>5. Taken(k, n + 1) = Taken(k, n) \cup {n}
  BY <1>1, <1>2, <1>3 DEF Taken
<1>6. \A l \in DOMAIN ois \ {k} : Taken(l, n + 1) = Taken(l, n)
  BY <1>1, <1>2, <1>3 DEF Taken
<1>7. ASSUME NEW l \in DOMAIN ois \ {k} PROVE HasValueOf(l, Taken(l, n))'
  <2>1. HasValueOf(l, Taken(l, n))
    BY DEF Parsed
  <2>2. PICK js : js = Taken(l, n) /\ js = Taken(l, n)'
    BY SameElements
  <2>3. HasValueOf(l, js)'
    BY <1>7, <2>1, <2>2, Zenon DEF HasValueOf
  <2> QED
    BY <2>2, <2>3 DEF HasValueOf
<1>8. \A l \in DOMAIN ois : HasValueOf(l, Taken(l, n + 1))'
  <2>1. SUFFICES ASSUME NEW l \in DOMAIN ois PROVE HasValueOf(l, Taken(l, n + 1))'
    OBVIOUS
  <2>2. PICK js : js = Taken(l, n + 1) /\ js = Taken(l, n + 1)'
    BY SameElements
  <2>3. HasValueOf(l, js)'
    <3>1. CASE l = k
      <4>1. js = Taken(k, n)' \cup {n}
        BY <1>5, <2>2, <3>1, SameElements
      <4> QED
        BY <3>1, <4>1 DEF HasValueOf
    <3>2. CASE l # k
      <4>1. js = Taken(l, n)'
        BY <1>6, <2>2, <3>2, SameElements
      <4> QED
        BY <1>7, <3>2, <4>1 DEF HasValueOf
    <3> QED
      BY <3>1, <3>2
  <2> QED
    BY <2>2, <2>3 DEF HasValueOf
<1> QED
  BY <1>3, <1>4, <1>8, SameElements, Zenon DEF Parsed

LEMMA OptionStep == ASSUME GolInv, NEW c, Option(c) PROVE GolInv'
<1> PICK n : n = optind
  OBVIOUS
<1>1. /\ UNCHANGED <<ois, argv, nonOptions, positional>>
      /\ parse = "args" /\ argv[n].kind # "word" /\ n \in 1 .. Len(argv)
      /\ optind' = n + 1
      /\ getopt_long(argv[n]).c = c /\ c \notin {-1, Colon, QuestionMark}
  BY DEF Option, AtOption, GolInv, GolTypeOK
<1>2. /\ GolTypeOK /\ Parsed(n) /\ WordsMoved(n)
      /\ IsTable(ois) /\ IsCommandLine(argv)
  BY <1>1 DEF GolInv, GolTypeOK
<1>3. Len(argv) \in Nat /\ DOMAIN argv = 1 .. Len(argv) /\ n \in DOMAIN argv
  BY <1>1, <1>2, LineFacts
<1>4. PICK k : k \in Named(argv[n])
  BY <1>1, <1>2, <1>3, ReturnedCode
<1>5. k \in DOMAIN ois /\ ois[k].flag \in BOOLEAN /\ Named(argv[n]) = {k}
  BY <1>2, <1>3, <1>4, NamedOnce DEF IsTable
<1>6. ois[k].flag <=> argv[n].arg = NoArg
  BY <1>1, <1>2, <1>3, <1>4, <1>5, ReturnedCode
<1>7. c = CodeOf(argv[n], k) /\ optMap(c) = {k}
  BY <1>1, <1>2, <1>3, <1>4, <1>6, ReturnedCode, CodeLeadsBack
<1>8. CASE isHelp(ois[k])
  <2>1. parse' = "help" /\ UNCHANGED <<flagValue, values>>
    BY <1>7, <1>8 DEF Option
  <2> QED
    BY <1>1, <1>2, <1>3, <2>1, NoResultStep DEF GolTypeOK
<1>9. CASE ~isHelp(ois[k])
  <2>1. setValue(ois[k], argv[n].arg)
    BY <1>7, <1>9 DEF Option
  <2>2. k # 1 /\ ~ois[k].multiple
    BY <1>2, <1>5, <1>9, TableFacts, Zenon DEF IsTable
  <2>3. Clean(n)
    BY <1>5, <1>6, <2>2 DEF Clean, Malformed
  <2>4. /\ ois[k].id \in Ids /\ argv[n].arg \in Args
        /\ flagValue \in [Ids -> BOOLEAN] /\ values \in [Ids -> Seq(Args)]
    BY <1>2, <1>3, <1>5 DEF GolTypeOK, Ids, Args
  <2>5. \A l \in DOMAIN ois \ {k} : ois[l].id # ois[k].id /\ ois[l].id \in Ids
    BY <1>2, <1>5, Zenon DEF IsTable, NoDuplicates, Ids
  <2>6. HasValueOf(k, Taken(k, n))
    BY <1>2, <1>5 DEF Parsed
  <2>7. WordsMoved(n + 1)'
    <3>1. WordsBefore(n + 1) = WordsBefore(n)
      BY <1>1, <1>2, WordsBeforeFacts
    <3> QED
      BY <1>1, <1>2, <3>1, SameElements, Zenon DEF WordsMoved
  <2>8. ASSUME Parsed(n + 1)', parse' = "args",
               flagValue' \in [Ids -> BOOLEAN], values' \in [Ids -> Seq(Args)]
        PROVE  GolInv'
    <3>1. GolTypeOK'
      BY <1>1, <1>2, <1>3, <2>8, SameElements DEF GolTypeOK
    <3>2. Parsed(optind)' /\ WordsMoved(optind)'
      BY <1>1, <2>7, <2>8 DEF Parsed, WordsMoved
    <3>3. CommandLineHonoured'
      BY <2>8 DEF CommandLineHonoured
    <3> QED
      BY <3>1, <3>2, <3>3 DEF GolInv
  <2>9. CASE ois[k].flag
    <3>1. flagValue' = [flagValue EXCEPT ![ois[k].id] = TRUE] /\ UNCHANGED <<values, parse>>
      BY <2>1, <2>9 DEF setValue
    <3>2. flagValue'[ois[k].id] = TRUE /\ flagValue' \in [Ids -> BOOLEAN]
      BY <2>4, <3>1
    <3>3. \A l \in DOMAIN ois \ {k} : flagValue'[ois[l].id] = flagValue[ois[l].id]
      BY <2>4, <2>5, <3>1
    <3>4. HasValueOf(k, Taken(k, n) \cup {n})'
      BY <1>1, <2>9, <3>2, SameElements DEF HasValueOf
    <3>5. Parsed(n + 1)'
      BY <1>1, <1>2, <1>4, <2>3, <3>1, <3>3, <3>4, ParsedOneMore
    <3> QED
      BY <1>1, <2>4, <2>8, <3>1, <3>2, <3>5
  <2>10. CASE ~ois[k].flag /\ values[ois[k].id] # << >>
    <3>1. parse' = "error" /\ UNCHANGED <<flagValue, values>>
      BY <2>1, <2>2, <2>10 DEF setValue
    <3> QED
      BY <1>1, <1>2, <1>3, <3>1, NoResultStep DEF GolTypeOK
  <2>11. CASE ~ois[k].flag /\ values[ois[k].id] = << >>
    <3>1. /\ values' = [values EXCEPT ![ois[k].id] = Append(@, argv[n].arg)]
          /\ UNCHANGED <<flagValue, parse>>
      BY <2>1, <2>2, <2>11 DEF setValue
    <3>2. values'[ois[k].id] = << argv[n].arg >> /\ values' \in [Ids -> Seq(Args)]
      BY <2>4, <2>11, <3>1
    <3>3. \A l \in DOMAIN ois \ {k} : values'[ois[l].id] = values[ois[l].id]
      BY <2>4, <2>5, <3>1
    <3>4. \A a : << a >> # << >>
      OBVIOUS
    <3>5. Taken(k, n) = {}
      BY <2>6, <2>11, <3>4, Zenon DEF HasValueOf
    <3>6. flagValue'[ois[k].id] = FALSE
      <4>1. flagValue[ois[k].id] \in BOOLEAN
        BY <2>4
      <4> QED
        BY <2>6, <2>11, <3>1, <4>1 DEF HasValueOf
    <3>7. HasValueOf(k, {n})'
      BY <1>1, <2>11, <3>2, <3>6 DEF HasValueOf
    <3>8. HasValueOf(k, Taken(k, n) \cup {n})'
      <4>1. Taken(k, n)' \cup {n} = {n}
        BY <1>1, <3>5, SameElements
      <4> QED
        BY <3>7, <4>1, Zenon DEF HasValueOf
    <3>9. Parsed(n + 1)'
      BY <1>1, <1>2, <1>4, <2>3, <3>1, <3>3, <3>8, ParsedOneMore
    <3> QED
      BY <1>1, <2>4, <2>8, <3>1, <3>2, <3>9
  <2> QED
    BY <1>5, <2>9, <2>10, <2>11
<1> QED
  BY <1>8, <1>9
-----------------------------------------------------------------------------
(* The loop is left with a result: what was parsed is honoured.            *)
LEMMA ResultStep ==
  ASSUME GolTypeOK, NEW n \in 1 .. Len(argv) + 1, Parsed(n), Seen = 1 .. n - 1,
         UNCHANGED <<ois, argv, nonOptions, flagValue, values>>,
         optind' \in 1 .. Len(argv) + 1, parse' = "result", WordsHonoured'
  PROVE  GolInv'
<1>1. IsTable(ois) /\ IsCommandLine(argv)
  BY DEF GolTypeOK
<1>2. OptionsHonoured'
  BY <1>1, ParsedHonoured, SameOptions
<1>3. CommandLineHonoured'
  <2>1. CommandLineHonoured' <=>
          (parse # "fatal" /\ (parse = "result" => OptionsHonoured /\ WordsHonoured))'
    BY HonouredParts, PTL
  <2> QED
    BY <1>2, <2>1
<1>4. GolTypeOK'
  BY SameElements DEF GolTypeOK
<1> QED
  BY <1>3, <1>4 DEF GolInv

LEMMA EndOfArgumentsStep == ASSUME GolInv, EndOfArguments PROVE GolInv'
<1> PICK n : n = optind
  OBVIOUS
<1>1. /\ UNCHANGED <<ois, argv, optind, nonOptions, flagValue, values>>
      /\ parse = "args" /\ optind > Len(argv) /\ Leave(nonOptions)
      /\ GolTypeOK /\ Parsed(n) /\ WordsMoved(n) /\ IsTable(ois) /\ IsCommandLine(argv)
  BY DEF EndOfArguments, GolInv, GolTypeOK
<1>2. Len(argv) \in Nat /\ DOMAIN argv = 1 .. Len(argv)
  BY <1>1, LineFacts
<1>3. n = Len(argv) + 1 /\ n \notin DOMAIN argv
  BY <1>1, <1>2 DEF GolTypeOK
<1>4. Seen = 1 .. n - 1 /\ Seen = DOMAIN argv
  <2>1. n \in 1 .. Len(argv) + 1 /\ 1 .. n - 1 = DOMAIN argv
    BY <1>2, <1>3
  <2> QED
    BY <1>1, <1>3, <2>1, SeenIs DEF Parsed
<1>5. CASE parse' = "error"
  BY <1>1, <1>5, NoResultStep DEF GolTypeOK
<1>6. CASE parse' = "result" /\ positional' = nonOptions
  <2>1. WordsHonoured'
    BY <1>1, <1>3, <1>4, <1>6, SameElements DEF WordsHonoured, WordsMoved
  <2> QED
    BY <1>1, <1>2, <1>3, <1>4, <1>6, <2>1, ResultStep
<1> QED
  BY <1>1, <1>5, <1>6 DEF Leave
-----------------------------------------------------------------------------
LEMMA WordsType ==
  ASSUME IsCommandLine(argv), NEW n \in 1 .. Len(argv), Seen = 1 .. n - 1
  PROVE  Words(n + 1) \in Seq({OptionWord} \cup { argv[j].arg : j \in DOMAIN argv \ Seen })
<1> PICK T : T = {OptionWord} \cup { argv[j].arg : j \in DOMAIN argv \ Seen }
  OBVIOUS
<1>1. Len(argv) \in Nat /\ DOMAIN argv = 1 .. Len(argv)
  BY LineFacts
<1> DEFINE Of(e) == IF e.kind = "word" THEN << e.arg >>
                    ELSE IF e.arg = NoArg THEN << OptionWord >> ELSE << OptionWord, e.arg >>
           parts == [k \in 1 .. Len(argv) - (n + 1) + 1 |-> Of(argv[(n + 1) + k - 1])]
<1>2. ASSUME NEW k \in 1 .. Len(argv) - (n + 1) + 1
      PROVE  Of(argv[(n + 1) + k - 1]) \in Seq(T)
  <2>1. (n + 1) + k - 1 \in DOMAIN argv \ Seen
    BY <1>1
  <2>2. argv[(n + 1) + k - 1].arg \in T /\ OptionWord \in T
    BY <2>1
  <2>3. PICK a, w : a = argv[(n + 1) + k - 1].arg /\ w = OptionWord
    OBVIOUS
  <2>4. a \in T /\ w \in T
    BY <2>2, <2>3
  <2>5. << a >> \in Seq(T) /\ << w >> \in Seq(T) /\ << w, a >> \in Seq(T)
    BY <2>4
  <2> QED
    BY <2>3, <2>5, Zenon
<1>3. parts \in Seq(Seq(T))
  <2>1. Len(argv) - (n + 1) + 1 \in Nat
    BY <1>1
  <2>2. PICK m, A : m \in Nat /\ m = Len(argv) - (n + 1) + 1 /\ A = Seq(T)
    BY <2>1
  <2> HIDE DEF Of
  <2>3. parts \in [1 .. m -> A]
    BY <1>2, <2>2
  <2> HIDE DEF parts
  <2>4. parts \in Seq(A)
    BY <2>2, <2>3
  <2> QED
    BY <2>2, <2>4
<1>4. Words(n + 1) = Seqs!FlattenSeq(parts)
  BY DEF Words
<1> HIDE DEF parts
<1> QED
  BY <1>3, <1>4, FlattenType

LEMMA OptionTakenForEndStep == ASSUME GolInv, OptionTakenForEnd PROVE GolInv'
<1> PICK n : n = optind
  OBVIOUS
<1>1. /\ UNCHANGED <<ois, argv, nonOptions, flagValue, values>>
      /\ optind' = n + 1
      /\ parse = "args" /\ n \in 1 .. Len(argv) /\ argv[n].kind # "word"
      /\ getopt_long(argv[n]).c = -1 /\ Leave(Words(n + 1))
      /\ GolTypeOK /\ Parsed(n) /\ IsTable(ois) /\ IsCommandLine(argv)
  BY DEF OptionTakenForEnd, AtOption, GolInv, GolTypeOK
<1>2. Len(argv) \in Nat /\ DOMAIN argv = 1 .. Len(argv) /\ n \in DOMAIN argv
  BY <1>1, LineFacts
<1>3. PICK k : k \in Named(argv[n])
  BY <1>1, <1>2, ReturnedCode DEF QuestionMark
<1>4. CodeOf(argv[n], k) = -1
  <2>1. k \in DOMAIN ois /\ ois[k].flag \in BOOLEAN
    BY <1>1, <1>2, <1>3, NamedOnce DEF IsTable
  <2> QED
    BY <1>1, <1>2, <1>3, <2>1, ReturnedCode DEF QuestionMark, Colon
<1>5. argv[n].kind = "long" /\ argv[n].long = "help"
  BY <1>1, <1>2, <1>3, <1>4, CodeLeadsBack
<1>6. n \in 1 .. Len(argv) + 1 /\ n + 1 \in 1 .. Len(argv) + 1
  BY <1>1, <1>2
<1>7. Seen = 1 .. n - 1
  BY <1>1, <1>5, <1>6, SeenIs DEF Parsed
<1>8. CASE parse' = "error"
  BY <1>1, <1>6, <1>8, NoResultStep DEF GolTypeOK, GolInv
<1>9. CASE parse' = "result" /\ positional' = Words(n + 1)
  <2>1. PICK T : T = {OptionWord} \cup { argv[j].arg : j \in DOMAIN argv \ Seen }
    OBVIOUS
  <2>2. positional' \in Seq(T)
    BY <1>1, <1>7, <1>9, <2>1, WordsType
  <2>3. \A i \in 1 .. Len(positional') : positional'[i] \in T
    BY <2>2
  <2>4. n \notin Seen
    BY <1>2, <1>7
  <2>5. Seen # DOMAIN argv
    BY <1>2, <2>4
  <2>6. T = {OptionWord} \cup { argv'[j].arg : j \in DOMAIN argv' \ Seen' }
    BY <1>1, <2>1, SameElements
  <2>7. WordsHonoured'
    BY <1>1, <2>3, <2>5, <2>6, SameElements DEF WordsHonoured
  <2> QED
    BY <1>1, <1>6, <1>7, <1>9, <2>7, ResultStep
<1> QED
  BY <1>1, <1>8, <1>9 DEF Leave

LEMMA GolNextStep == ASSUME GolInv, GolNext PROVE GolInv'
BY SkipWordStep, EndOfArgumentsStep, OptionTakenForEndStep, MissingArgumentStep,
   UnrecognizedStep, OptionStep DEF GolNext

LEMMA GolSame == ASSUME GolInv, UNCHANGED golVars PROVE GolInv'
<1>1. UNCHANGED <<ois, argv, flagValue, values>> /\ UNCHANGED <<optind, nonOptions, positional, parse>>
  BY DEF golVars
<1>2. GolTypeOK'
  BY <1>1, SameElements DEF GolInv, GolTypeOK
<1>3. parse' = "args" => Parsed(optind)' /\ WordsMoved(optind)'
  <2> PICK n : n = optind
    OBVIOUS
  <2>1. parse = "args" => Parsed(n)' /\ WordsMoved(n)'
    BY <1>1, SameOptions, SameElements, Zenon DEF GolInv, WordsMoved
  <2> QED
    BY <1>1, <2>1 DEF Parsed, WordsMoved
<1>4. CommandLineHonoured'
  <2>1. CommandLineHonoured' <=>
          (parse # "fatal" /\ (parse = "result" => OptionsHonoured /\ WordsHonoured))'
    BY HonouredParts, PTL
  <2>2. parse # "fatal" /\ (parse = "result" => OptionsHonoured /\ WordsHonoured)
    BY HonouredParts DEF GolInv
  <2>3. WordsHonoured' <=> WordsHonoured
    BY <1>1 DEF WordsHonoured, WordsBefore, Seen
  <2> QED
    BY <1>1, <2>1, <2>2, <2>3, SameOptions
<1> QED
  BY <1>2, <1>3, <1>4 DEF GolInv

LEMMA GolInitInv ==
  ASSUME NEW table, NEW line, IsTable(table), IsCommandLine(line), GolInit(table, line)
  PROVE  GolInv
<1>1. /\ ois = table /\ argv = line /\ optind = 1 /\ nonOptions = << >>
      /\ flagValue = [id \in Ids |-> FALSE] /\ values = [id \in Ids |-> << >>]
      /\ parse = "args"
  BY DEF GolInit, IsTable
<1>2. IsTable(ois) /\ IsCommandLine(argv)
  BY <1>1
<1>3. Len(argv) \in Nat /\ DOMAIN argv = 1 .. Len(argv)
  BY <1>2, LineFacts
<1>4. GolTypeOK
  <2>1. << >> \in Seq(Args)
    OBVIOUS
  <2> QED
    BY <1>1, <1>2, <1>3, <2>1 DEF GolTypeOK
<1>5. \A k : Taken(k, 1) = {}
  BY DEF Taken
<1>6. Parsed(1)
  <2>1. \A k \in DOMAIN ois : ois[k].id \in Ids
    BY DEF Ids
  <2>2. \A k \in DOMAIN ois : flagValue[ois[k].id] = FALSE /\ values[ois[k].id] = << >>
    BY <1>1, <2>1
  <2>3. \A k \in DOMAIN ois : HasValueOf(k, {})
    BY <2>2 DEF HasValueOf
  <2>4. \A j \in 1 .. 1 - 1 : Clean(j)
    OBVIOUS
  <2> QED
    BY <1>5, <2>3, <2>4, Zenon DEF Parsed
<1>7. WordsMoved(1)
  <2>1. WordsBefore(1) = {}
    BY <1>3 DEF WordsBefore
  <2>2. Cardinality(WordsBefore(1)) = 0 /\ Len(nonOptions) = 0
    BY <1>1, <2>1, FS_EmptySet
  <2> QED
    BY <2>1, <2>2 DEF WordsMoved
<1>8. CommandLineHonoured
  BY <1>1 DEF CommandLineHonoured
<1> QED
  BY <1>1, <1>4, <1>6, <1>7, <1>8 DEF GolInv
-----------------------------------------------------------------------------
LEMMA AppendFacts ==
  ASSUME NEW S, NEW t \in Seq(S), NEW r \in S, NEW u, u = Append(t, r)
  PROVE  /\ Len(t) \in Nat /\ DOMAIN t = 1 .. Len(t)
         /\ DOMAIN u = (1 .. Len(t)) \cup {Len(t) + 1} /\ DOMAIN u = 1 .. Len(t) + 1
         /\ Len(t) + 1 \notin 1 .. Len(t)
         /\ Len(u) = Len(t) + 1 /\ u \in Seq(S)
         /\ u[Len(t) + 1] = r
         /\ \A k \in 1 .. Len(t) : u[k] = t[k]
         /\ u # << >>
<1>1. /\ Len(t) \in Nat /\ DOMAIN t = 1 .. Len(t)
      /\ DOMAIN u = 1 .. Len(t) + 1
      /\ Len(u) = Len(t) + 1 /\ u \in Seq(S)
      /\ u[Len(t) + 1] = r
      /\ \A k \in 1 .. Len(t) : u[k] = t[k]
  BY SMTT(30)
<1> PICK N \in Nat : N = Len(t)
  BY <1>1
<1>2. 1 .. N + 1 = (1 .. N) \cup {N + 1} /\ N + 1 \notin 1 .. N
  OBVIOUS
<1>3. u # << >>
  BY <1>1
<1> QED
  BY <1>1, <1>2, <1>3, SMTT(30)

LEMMA AppendRange ==
  ASSUME NEW S, NEW t \in Seq(S), NEW r \in S
  PROVE  RangeOf(Append(t, r)) = RangeOf(t) \cup {r}
<1> PICK u : u = Append(t, r)
  OBVIOUS
<1>1. PICK n : DOMAIN u = DOMAIN t \cup {n} /\ u[n] = r /\ \A k \in DOMAIN t : u[k] = t[k]
  BY AppendFacts
<1> QED
  BY <1>1 DEF RangeOf

LEMMA InOwnRange == ASSUME NEW S, NEW u \in Seq(S) PROVE u \in Seq({ u[k] : k \in DOMAIN u })
<1>1. PICK R : R = { u[k] : k \in DOMAIN u }
  OBVIOUS
<1>2. \A k \in 1 .. Len(u) : u[k] \in R
  BY <1>1
<1>3. u \in Seq(R)
  BY <1>2
<1> QED
  BY <1>1, <1>3

(* A table with one option more is a table.                                *)
LEMMA AppendOption ==
  ASSUME NEW t, IsTable(t), t # << >>, NEW r,
         r.shortOpt \in Nat \ {Colon, QuestionMark}, r.flag \in BOOLEAN, r.multiple = FALSE,
         r.longOpt # "help",
         \A o \in RangeOf(t) : /\ o.id # r.id /\ o.longOpt # r.longOpt
                               /\ r.shortOpt # LongOnly => o.shortOpt # r.shortOpt
  PROVE  /\ IsTable(Append(t, r)) /\ Append(t, r) # << >>
         /\ RangeOf(Append(t, r)) = RangeOf(t) \cup {r}
<1> PICK u : u = Append(t, r)
  OBVIOUS
<1>1. PICK S : t \in Seq(S) /\ r \in S
  <2>1. PICK S : t \in Seq(S)
    BY DEF IsTable
  <2>2. t \in Seq(S \cup {r})
    BY <2>1
  <2> QED
    BY <2>2
<1> PICK N : N = Len(t)
  OBVIOUS
<1>4. /\ N \in Nat /\ DOMAIN t = 1 .. N
      /\ DOMAIN u = (1 .. N) \cup {N + 1} /\ N + 1 \notin 1 .. N
      /\ u \in Seq(S) /\ u[N + 1] = r /\ \A k \in 1 .. N : u[k] = t[k]
  BY <1>1, AppendFacts
<1>5. N # 0
  BY <1>1
<1>6. RangeOf(u) = RangeOf(t) \cup {r} /\ u # << >>
  <2>1. RangeOf(u) = RangeOf(t) \cup {r}
    BY <1>1, AppendRange
  <2>2. u # << >>
    BY <1>1
  <2> QED
    BY <2>1, <2>2
<1>7. u \in Seq({ u[k] : k \in DOMAIN u })
  BY <1>4, InOwnRange
<1>8. NoDuplicates(u)
  <2>1. SUFFICES ASSUME NEW j \in DOMAIN u, NEW k \in DOMAIN u, j # k
                 PROVE  /\ u[j].id # u[k].id
                        /\ u[j].shortOpt # LongOnly => u[j].shortOpt # u[k].shortOpt
                        /\ u[j].longOpt # "" => u[j].longOpt # u[k].longOpt
    BY Zenon DEF NoDuplicates
  <2>2. \A l \in 1 .. N : t[l] \in RangeOf(t)
    BY <1>4 DEF RangeOf
  <2>3. CASE j \in 1 .. N /\ k \in 1 .. N
    <3>1. NoDuplicates(t)
      BY DEF IsTable
    <3> QED
      <4>1. u[j] = t[j] /\ u[k] = t[k] /\ j \in DOMAIN t /\ k \in DOMAIN t
        BY <1>4, <2>3, Zenon
      <4> QED
        BY <2>1, <3>1, <4>1, Zenon DEF NoDuplicates
  <2>4. CASE j \in 1 .. N /\ k = N + 1
    <3>1. u[j] = t[j] /\ u[k] = r /\ t[j] \in RangeOf(t)
      BY <1>4, <2>2, <2>4, Zenon
    <3> QED
      BY <3>1, Zenon
  <2>5. CASE j = N + 1 /\ k \in 1 .. N
    <3>1. \A o \in RangeOf(t) : /\ r.id # o.id /\ r.longOpt # o.longOpt
                                 /\ r.shortOpt # LongOnly => r.shortOpt # o.shortOpt
      OBVIOUS
    <3> QED
      <4>1. u[k] = t[k] /\ u[j] = r /\ t[k] \in RangeOf(t)
        BY <1>4, <2>2, <2>5, Zenon
      <4> QED
        BY <3>1, <4>1, Zenon
  <2> QED
    BY <1>4, <2>1, <2>3, <2>4, <2>5
<1>9. ASSUME NEW k \in DOMAIN u
      PROVE  /\ u[k].shortOpt \in Nat \ {Colon, QuestionMark}
             /\ u[k].flag \in BOOLEAN
             /\ u[k].multiple <=> k = 1
             /\ u[k].longOpt = "help" <=> k = 1
             /\ k = 1 => u[k].flag
  <2>1. CASE k = N + 1
    <3>1. k # 1 /\ u[k] = r
      <4>1. 1 \in 1 .. N
        BY <1>4, <1>5
      <4> QED
        BY <1>4, <2>1, <4>1, Zenon
    <3> QED
      BY <3>1, Zenon
  <2>2. CASE k \in 1 .. N
    <3>1. u[k] = t[k] /\ k \in DOMAIN t
      BY <1>4, <2>2
    <3> QED
      BY <3>1, Zenon DEF IsTable
  <2> QED
    BY <1>4, <2>1, <2>2
<1>10. IsTable(u)
  BY <1>7, <1>8, <1>9, Zenon DEF IsTable
<1> QED
  BY <1>6, <1>10

(* The option o has no name of another.                                    *)
Differs(o, id, short, long) ==
  o.id # id /\ o.longOpt # long /\ (short # LongOnly => o.shortOpt # short)

OptionRecord(id, short, long, isFlag) ==
  [id |-> id, shortOpt |-> short, longOpt |-> long,
   flag |-> isFlag, optional |-> TRUE, multiple |-> FALSE]

(* A table with these options.                                             *)
TableOf(t, options) == IsTable(t) /\ t # << >> /\ RangeOf(t) = options

(* addOption() makes a table of a table.                                   *)
LEMMA AddOption ==
  ASSUME NEW t, NEW R, TableOf(t, R),
         NEW id, NEW short \in Nat \ {Colon, QuestionMark}, NEW long, NEW isFlag \in BOOLEAN,
         long # "help", \A o \in R : Differs(o, id, short, long)
  PROVE  TableOf(addOption(t, id, short, long, isFlag, TRUE, FALSE),
                 R \cup {OptionRecord(id, short, long, isFlag)})
<1> PICK r, u : /\ r = OptionRecord(id, short, long, isFlag)
                /\ u = addOption(t, id, short, long, isFlag, TRUE, FALSE)
  OBVIOUS
<1>1. /\ r.id = id /\ r.shortOpt = short /\ r.longOpt = long
      /\ r.flag = isFlag /\ r.multiple = FALSE
  BY DEF OptionRecord
<1>2. u = Append(t, r)
  BY Zenon DEF addOption, OptionRecord
<1>3. IsTable(t) /\ t # << >> /\ RangeOf(t) = R
  BY DEF TableOf
<1>4. \A o \in RangeOf(t) : /\ o.id # r.id /\ o.longOpt # r.longOpt
                            /\ r.shortOpt # LongOnly => o.shortOpt # r.shortOpt
  BY <1>1, <1>3, Zenon DEF Differs
<1>5. /\ r.shortOpt \in Nat \ {Colon, QuestionMark} /\ r.flag \in BOOLEAN
      /\ r.multiple = FALSE /\ r.longOpt # "help"
  BY <1>1, Zenon
<1>6. IsTable(u) /\ u # << >> /\ RangeOf(u) = RangeOf(t) \cup {r}
  BY <1>2, <1>3, <1>4, <1>5, AppendOption
<1> QED
  BY <1>3, <1>6 DEF TableOf

HelpOption ==
  [id |-> HelpId, shortOpt |-> 104, longOpt |-> "help",
   flag |-> TRUE, optional |-> TRUE, multiple |-> TRUE]

LEMMA HelpTable == TableOf(GetOptLong, {HelpOption})
<1> PICK t : t = GetOptLong
  OBVIOUS
<1>1. t = << HelpOption >>
  BY DEF GetOptLong, addOption, HelpOption
<1>2. DOMAIN t = {1} /\ t[1] = HelpOption /\ t # << >>
  BY <1>1
<1>3. { t[k] : k \in DOMAIN t } = {HelpOption} /\ RangeOf(t) = {HelpOption}
  BY <1>2 DEF RangeOf
<1>4. t \in Seq({ t[k] : k \in DOMAIN t })
  <2>1. t \in Seq({HelpOption})
    BY <1>1
  <2> QED
    BY <1>3, <2>1
<1>5. NoDuplicates(t)
  BY <1>2 DEF NoDuplicates
<1>6. IsTable(t)
  <2>1. /\ HelpOption.shortOpt \in Nat \ {Colon, QuestionMark}
        /\ HelpOption.flag = TRUE /\ HelpOption.multiple = TRUE /\ HelpOption.longOpt = "help"
    BY DEF HelpOption, Colon, QuestionMark
  <2>2. \A k \in DOMAIN t : k = 1 /\ t[k] = HelpOption
    BY <1>2
  <2> QED
    BY <1>4, <1>5, <2>1, <2>2, Zenon DEF IsTable
<1> QED
  BY <1>2, <1>3, <1>6 DEF TableOf
-----------------------------------------------------------------------------
(* The options the two programs add to --help.                             *)
InterfaceOption == OptionRecord("Interface", 105, "interface", FALSE)
SourceOfGOption == OptionRecord("SourceOfG", 83, "source", FALSE)
TimeoutOption == OptionRecord("Timeout", 116, "timeout", FALSE)
ShowPayloadOption == OptionRecord("ShowPayload", 88, "hex-ascii", TRUE)
SenderOption == OptionRecord("Sender", 115, "sender", TRUE)
SetTTLOption == OptionRecord("SetTTL", LongOnly, "ttl", FALSE)
CountOption == OptionRecord("Count", 99, "count", FALSE)
NoColorsOption == OptionRecord("NoColors", LongOnly, "no-colors", TRUE)
ShowConfigOption == OptionRecord("ShowConfig", LongOnly, "show-config", TRUE)
ShowVersionOption == OptionRecord("ShowVersion", 118, "version", TRUE)

(* The options of pimc, and that its table is one.                         *)
LEMMA PimcTable ==
  TableOf(PimcOptions, { HelpOption, ShowConfigOption, ShowVersionOption })
<1>0. PICK t0 : t0 = GetOptLong /\ TableOf(t0, { HelpOption })
  BY HelpTable, Zenon
<1>1. PICK t1 :
        /\ t1 = addOption(t0, "ShowConfig", LongOnly, "show-config", TRUE, TRUE, FALSE)
        /\ TableOf(t1, { HelpOption, ShowConfigOption })
  <2>1. \A o \in { HelpOption } :
          Differs(o, "ShowConfig", LongOnly, "show-config")
    BY DEF OptionRecord, HelpId, Differs, LongOnly, HelpOption
  <2>2. LongOnly \in Nat \ {Colon, QuestionMark} /\ "show-config" # "help"
    BY DEF Colon, QuestionMark, LongOnly
  <2>3. TableOf(addOption(t0, "ShowConfig", LongOnly, "show-config", TRUE, TRUE, FALSE),
          { HelpOption } \cup {ShowConfigOption})
    BY <1>0, <2>1, <2>2, AddOption, Zenon DEF ShowConfigOption
  <2>4. { HelpOption } \cup {ShowConfigOption}
        = { HelpOption, ShowConfigOption }
    OBVIOUS
  <2> QED
    BY <2>3, <2>4, Zenon
<1>2. PICK t2 :
        /\ t2 = addOption(t1, "ShowVersion", 118, "version", TRUE, TRUE, FALSE)
        /\ TableOf(t2, { HelpOption, ShowConfigOption, ShowVersionOption })
  <2>1. \A o \in { HelpOption, ShowConfigOption } :
          Differs(o, "ShowVersion", 118, "version")
    BY DEF OptionRecord, HelpId, Differs, LongOnly, HelpOption, ShowConfigOption
  <2>2. 118 \in Nat \ {Colon, QuestionMark} /\ "version" # "help"
    BY DEF Colon, QuestionMark, LongOnly
  <2>3. TableOf(addOption(t1, "ShowVersion", 118, "version", TRUE, TRUE, FALSE),
          { HelpOption, ShowConfigOption } \cup {ShowVersionOption})
    BY <1>1, <2>1, <2>2, AddOption, Zenon DEF ShowVersionOption
  <2>4. { HelpOption, ShowConfigOption } \cup {ShowVersionOption}
        = { HelpOption, ShowConfigOption, ShowVersionOption }
    OBVIOUS
  <2> QED
    BY <2>3, <2>4, Zenon
<1>3. PimcOptions = t2
  BY <1>0, <1>1, <1>2, Zenon DEF PimcOptions, flag, optional
<1> QED
  BY <1>2, <1>3, Zenon

(* The same of mclst.                                                      *)
LEMMA MclstTable ==
  TableOf(MclstOptions,
    { HelpOption, InterfaceOption, SourceOfGOption, TimeoutOption, ShowPayloadOption,
      SenderOption, SetTTLOption, CountOption, NoColorsOption, ShowConfigOption,
      ShowVersionOption })
<1>0. PICK t0 : t0 = GetOptLong /\ TableOf(t0, { HelpOption })
  BY HelpTable, Zenon
<1>1. PICK t1 :
        /\ t1 = addOption(t0, "Interface", 105, "interface", FALSE, TRUE, FALSE)
        /\ TableOf(t1, { HelpOption, InterfaceOption })
  <2>1. \A o \in { HelpOption } :
          Differs(o, "Interface", 105, "interface")
    BY DEF OptionRecord, HelpId, Differs, LongOnly, HelpOption
  <2>2. 105 \in Nat \ {Colon, QuestionMark} /\ "interface" # "help"
    BY DEF Colon, QuestionMark, LongOnly
  <2>3. TableOf(addOption(t0, "Interface", 105, "interface", FALSE, TRUE, FALSE),
          { HelpOption } \cup {InterfaceOption})
    BY <1>0, <2>1, <2>2, AddOption, Zenon DEF InterfaceOption
  <2>4. { HelpOption } \cup {InterfaceOption}
        = { HelpOption, InterfaceOption }
    OBVIOUS
  <2> QED
    BY <2>3, <2>4, Zenon
<1>2. PICK t2 :
        /\ t2 = addOption(t1, "SourceOfG", 83, "source", FALSE, TRUE, FALSE)
        /\ TableOf(t2, { HelpOption, InterfaceOption, SourceOfGOption })
  <2>1. \A o \in { HelpOption, InterfaceOption } :
          Differs(o, "SourceOfG", 83, "source")
    BY DEF OptionRecord, HelpId, Differs, LongOnly, HelpOption, InterfaceOption
  <2>2. 83 \in Nat \ {Colon, QuestionMark} /\ "source" # "help"
    BY DEF Colon, QuestionMark, LongOnly
  <2>3. TableOf(addOption(t1, "SourceOfG", 83, "source", FALSE, TRUE, FALSE),
          { HelpOption, InterfaceOption } \cup {SourceOfGOption})
    BY <1>1, <2>1, <2>2, AddOption, Zenon DEF SourceOfGOption
  <2>4. { HelpOption, InterfaceOption } \cup {SourceOfGOption}
        = { HelpOption, InterfaceOption, SourceOfGOption }
    OBVIOUS
  <2> QED
    BY <2>3, <2>4, Zenon
<1>3. PICK t3 :
        /\ t3 = addOption(t2, "Timeout", 116, "timeout", FALSE, TRUE, FALSE)
        /\ TableOf(t3, { HelpOption, InterfaceOption, SourceOfGOption, TimeoutOption })
  <2>1. \A o \in { HelpOption, InterfaceOption, SourceOfGOption } :
          Differs(o, "Timeout", 116, "timeout")
    BY DEF OptionRecord, HelpId, Differs, LongOnly, HelpOption, InterfaceOption,
         SourceOfGOption
  <2>2. 116 \in Nat \ {Colon, QuestionMark} /\ "timeout" # "help"
    BY DEF Colon, QuestionMark, LongOnly
  <2>3. TableOf(addOption(t2, "Timeout", 116, "timeout", FALSE, TRUE, FALSE),
          { HelpOption, InterfaceOption, SourceOfGOption } \cup {TimeoutOption})
    BY <1>2, <2>1, <2>2, AddOption, Zenon DEF TimeoutOption
  <2>4. { HelpOption, InterfaceOption, SourceOfGOption } \cup {TimeoutOption}
        = { HelpOption, InterfaceOption, SourceOfGOption, TimeoutOption }
    OBVIOUS
  <2> QED
    BY <2>3, <2>4, Zenon
<1>4. PICK t4 :
        /\ t4 = addOption(t3, "ShowPayload", 88, "hex-ascii", TRUE, TRUE, FALSE)
        /\ TableOf(t4,
             { HelpOption, InterfaceOption, SourceOfGOption, TimeoutOption,
               ShowPayloadOption })
  <2>1. \A o \in { HelpOption, InterfaceOption, SourceOfGOption, TimeoutOption } :
          Differs(o, "ShowPayload", 88, "hex-ascii")
    BY DEF OptionRecord, HelpId, Differs, LongOnly, HelpOption, InterfaceOption,
         SourceOfGOption, TimeoutOption
  <2>2. 88 \in Nat \ {Colon, QuestionMark} /\ "hex-ascii" # "help"
    BY DEF Colon, QuestionMark, LongOnly
  <2>3. TableOf(addOption(t3, "ShowPayload", 88, "hex-ascii", TRUE, TRUE, FALSE),
          { HelpOption, InterfaceOption, SourceOfGOption, TimeoutOption } \cup {ShowPayloadOption})
    BY <1>3, <2>1, <2>2, AddOption, Zenon DEF ShowPayloadOption
  <2>4. { HelpOption, InterfaceOption, SourceOfGOption, TimeoutOption } \cup {ShowPayloadOption}
        = { HelpOption, InterfaceOption, SourceOfGOption, TimeoutOption,
            ShowPayloadOption }
    OBVIOUS
  <2> QED
    BY <2>3, <2>4, Zenon
<1>5. PICK t5 :
        /\ t5 = addOption(t4, "Sender", 115, "sender", TRUE, TRUE, FALSE)
        /\ TableOf(t5,
             { HelpOption, InterfaceOption, SourceOfGOption, TimeoutOption,
               ShowPayloadOption, SenderOption })
  <2>1. \A o \in
          { HelpOption, InterfaceOption, SourceOfGOption, TimeoutOption,
            ShowPayloadOption } :
            Differs(o, "Sender", 115, "sender")
    BY DEF OptionRecord, HelpId, Differs, LongOnly, HelpOption, InterfaceOption,
         SourceOfGOption, TimeoutOption, ShowPayloadOption
  <2>2. 115 \in Nat \ {Colon, QuestionMark} /\ "sender" # "help"
    BY DEF Colon, QuestionMark, LongOnly
  <2>3. TableOf(addOption(t4, "Sender", 115, "sender", TRUE, TRUE, FALSE),
          { HelpOption, InterfaceOption, SourceOfGOption, TimeoutOption,
            ShowPayloadOption }
            \cup {SenderOption})
    BY <1>4, <2>1, <2>2, AddOption, Zenon DEF SenderOption
  <2>4. { HelpOption, InterfaceOption, SourceOfGOption, TimeoutOption,
          ShowPayloadOption }
          \cup {SenderOption}
        = { HelpOption, InterfaceOption, SourceOfGOption, TimeoutOption,
            ShowPayloadOption, SenderOption }
    OBVIOUS
  <2> QED
    BY <2>3, <2>4, Zenon
<1>6. PICK t6 :
        /\ t6 = addOption(t5, "SetTTL", LongOnly, "ttl", FALSE, TRUE, FALSE)
        /\ TableOf(t6,
             { HelpOption, InterfaceOption, SourceOfGOption, TimeoutOption,
               ShowPayloadOption, SenderOption, SetTTLOption })
  <2>1. \A o \in
          { HelpOption, InterfaceOption, SourceOfGOption, TimeoutOption,
            ShowPayloadOption, SenderOption } :
            Differs(o, "SetTTL", LongOnly, "ttl")
    BY DEF OptionRecord, HelpId, Differs, LongOnly, HelpOption, InterfaceOption,
         SourceOfGOption, TimeoutOption, ShowPayloadOption, SenderOption
  <2>2. LongOnly \in Nat \ {Colon, QuestionMark} /\ "ttl" # "help"
    BY DEF Colon, QuestionMark, LongOnly
  <2>3. TableOf(addOption(t5, "SetTTL", LongOnly, "ttl", FALSE, TRUE, FALSE),
          { HelpOption, InterfaceOption, SourceOfGOption, TimeoutOption,
            ShowPayloadOption, SenderOption }
            \cup {SetTTLOption})
    BY <1>5, <2>1, <2>2, AddOption, Zenon DEF SetTTLOption
  <2>4. { HelpOption, InterfaceOption, SourceOfGOption, TimeoutOption,
          ShowPayloadOption, SenderOption }
          \cup {SetTTLOption}
        = { HelpOption, InterfaceOption, SourceOfGOption, TimeoutOption,
            ShowPayloadOption, SenderOption, SetTTLOption }
    OBVIOUS
  <2> QED
    BY <2>3, <2>4, Zenon
<1>7. PICK t7 :
        /\ t7 = addOption(t6, "Count", 99, "count", FALSE, TRUE, FALSE)
        /\ TableOf(t7,
             { HelpOption, InterfaceOption, SourceOfGOption, TimeoutOption,
               ShowPayloadOption, SenderOption, SetTTLOption, CountOption })
  <2>1. \A o \in
          { HelpOption, InterfaceOption, SourceOfGOption, TimeoutOption,
            ShowPayloadOption, SenderOption, SetTTLOption } :
            Differs(o, "Count", 99, "count")
    BY DEF OptionRecord, HelpId, Differs, LongOnly, HelpOption, InterfaceOption,
         SourceOfGOption, TimeoutOption, ShowPayloadOption, SenderOption, SetTTLOption
  <2>2. 99 \in Nat \ {Colon, QuestionMark} /\ "count" # "help"
    BY DEF Colon, QuestionMark, LongOnly
  <2>3. TableOf(addOption(t6, "Count", 99, "count", FALSE, TRUE, FALSE),
          { HelpOption, InterfaceOption, SourceOfGOption, TimeoutOption,
            ShowPayloadOption, SenderOption, SetTTLOption }
            \cup {CountOption})
    BY <1>6, <2>1, <2>2, AddOption, Zenon DEF CountOption
  <2>4. { HelpOption, InterfaceOption, SourceOfGOption, TimeoutOption,
          ShowPayloadOption, SenderOption, SetTTLOption }
          \cup {CountOption}
        = { HelpOption, InterfaceOption, SourceOfGOption, TimeoutOption,
            ShowPayloadOption, SenderOption, SetTTLOption, CountOption }
    OBVIOUS
  <2> QED
    BY <2>3, <2>4, Zenon
<1>8. PICK t8 :
        /\ t8 = addOption(t7, "NoColors", LongOnly, "no-colors", TRUE, TRUE, FALSE)
        /\ TableOf(t8,
             { HelpOption, InterfaceOption, SourceOfGOption, TimeoutOption,
               ShowPayloadOption, SenderOption, SetTTLOption, CountOption,
               NoColorsOption })
  <2>1. \A o \in
          { HelpOption, InterfaceOption, SourceOfGOption, TimeoutOption,
            ShowPayloadOption, SenderOption, SetTTLOption, CountOption } :
            Differs(o, "NoColors", LongOnly, "no-colors")
    BY DEF OptionRecord, HelpId, Differs, LongOnly, HelpOption, InterfaceOption,
         SourceOfGOption, TimeoutOption, ShowPayloadOption, SenderOption, SetTTLOption,
         CountOption
  <2>2. LongOnly \in Nat \ {Colon, QuestionMark} /\ "no-colors" # "help"
    BY DEF Colon, QuestionMark, LongOnly
  <2>3. TableOf(addOption(t7, "NoColors", LongOnly, "no-colors", TRUE, TRUE, FALSE),
          { HelpOption, InterfaceOption, SourceOfGOption, TimeoutOption,
            ShowPayloadOption, SenderOption, SetTTLOption, CountOption }
            \cup {NoColorsOption})
    BY <1>7, <2>1, <2>2, AddOption, Zenon DEF NoColorsOption
  <2>4. { HelpOption, InterfaceOption, SourceOfGOption, TimeoutOption,
          ShowPayloadOption, SenderOption, SetTTLOption, CountOption }
          \cup {NoColorsOption}
        = { HelpOption, InterfaceOption, SourceOfGOption, TimeoutOption,
            ShowPayloadOption, SenderOption, SetTTLOption, CountOption, NoColorsOption }
    OBVIOUS
  <2> QED
    BY <2>3, <2>4, Zenon
<1>9. PICK t9 :
        /\ t9 = addOption(t8, "ShowConfig", LongOnly, "show-config", TRUE, TRUE, FALSE)
        /\ TableOf(t9,
             { HelpOption, InterfaceOption, SourceOfGOption, TimeoutOption,
               ShowPayloadOption, SenderOption, SetTTLOption, CountOption,
               NoColorsOption, ShowConfigOption })
  <2>1. \A o \in
          { HelpOption, InterfaceOption, SourceOfGOption, TimeoutOption,
            ShowPayloadOption, SenderOption, SetTTLOption, CountOption, NoColorsOption } :
            Differs(o, "ShowConfig", LongOnly, "show-config")
    BY DEF OptionRecord, HelpId, Differs, LongOnly, HelpOption, InterfaceOption,
         SourceOfGOption, TimeoutOption, ShowPayloadOption, SenderOption, SetTTLOption,
         CountOption, NoColorsOption
  <2>2. LongOnly \in Nat \ {Colon, QuestionMark} /\ "show-config" # "help"
    BY DEF Colon, QuestionMark, LongOnly
  <2>3. TableOf(addOption(t8, "ShowConfig", LongOnly, "show-config", TRUE, TRUE, FALSE),
          { HelpOption, InterfaceOption, SourceOfGOption, TimeoutOption,
            ShowPayloadOption, SenderOption, SetTTLOption, CountOption, NoColorsOption }
            \cup {ShowConfigOption})
    BY <1>8, <2>1, <2>2, AddOption, Zenon DEF ShowConfigOption
  <2>4. { HelpOption, InterfaceOption, SourceOfGOption, TimeoutOption,
          ShowPayloadOption, SenderOption, SetTTLOption, CountOption, NoColorsOption }
          \cup {ShowConfigOption}
        = { HelpOption, InterfaceOption, SourceOfGOption, TimeoutOption,
            ShowPayloadOption, SenderOption, SetTTLOption, CountOption, NoColorsOption,
            ShowConfigOption }
    OBVIOUS
  <2> QED
    BY <2>3, <2>4, Zenon
<1>10. PICK t10 :
        /\ t10 = addOption(t9, "ShowVersion", 118, "version", TRUE, TRUE, FALSE)
        /\ TableOf(t10,
             { HelpOption, InterfaceOption, SourceOfGOption, TimeoutOption,
               ShowPayloadOption, SenderOption, SetTTLOption, CountOption,
               NoColorsOption, ShowConfigOption, ShowVersionOption })
  <2>1. \A o \in
          { HelpOption, InterfaceOption, SourceOfGOption, TimeoutOption,
            ShowPayloadOption, SenderOption, SetTTLOption, CountOption, NoColorsOption,
            ShowConfigOption } :
            Differs(o, "ShowVersion", 118, "version")
    BY DEF OptionRecord, HelpId, Differs, LongOnly, HelpOption, InterfaceOption,
         SourceOfGOption, TimeoutOption, ShowPayloadOption, SenderOption, SetTTLOption,
         CountOption, NoColorsOption, ShowConfigOption
  <2>2. 118 \in Nat \ {Colon, QuestionMark} /\ "version" # "help"
    BY DEF Colon, QuestionMark, LongOnly
  <2>3. TableOf(addOption(t9, "ShowVersion", 118, "version", TRUE, TRUE, FALSE),
          { HelpOption, InterfaceOption, SourceOfGOption, TimeoutOption,
            ShowPayloadOption, SenderOption, SetTTLOption, CountOption, NoColorsOption,
            ShowConfigOption }
            \cup {ShowVersionOption})
    BY <1>9, <2>1, <2>2, AddOption, Zenon DEF ShowVersionOption
  <2>4. { HelpOption, InterfaceOption, SourceOfGOption, TimeoutOption,
          ShowPayloadOption, SenderOption, SetTTLOption, CountOption, NoColorsOption,
          ShowConfigOption }
          \cup {ShowVersionOption}
        = { HelpOption, InterfaceOption, SourceOfGOption, TimeoutOption,
            ShowPayloadOption, SenderOption, SetTTLOption, CountOption, NoColorsOption,
            ShowConfigOption, ShowVersionOption }
    OBVIOUS
  <2> QED
    BY <2>3, <2>4, Zenon
<1>11. MclstOptions = t10
  BY <1>0, <1>1, <1>2, <1>3, <1>4, <1>5, <1>6, <1>7, <1>8, <1>9, <1>10, Zenon
     DEF MclstOptions, flag, optional
<1> QED
  BY <1>10, <1>11, Zenon
-----------------------------------------------------------------------------
LEMMA PimcGolInit ==
  ASSUME NEW commandLine, NEW file, IsCommandLine(commandLine), PimcInit(commandLine, file)
  PROVE  GolInv
<1>1. IsTable(PimcOptions)
  BY PimcTable, Zenon DEF TableOf
<1>2. GolInit(PimcOptions, commandLine)
  BY Zenon DEF PimcInit
<1> QED
  BY <1>1, <1>2, GolInitInv

LEMMA MclstGolInit ==
  ASSUME NEW commandLine, IsCommandLine(commandLine), MclstInit(commandLine)
  PROVE  GolInv
<1>1. IsTable(MclstOptions)
  BY MclstTable, Zenon DEF TableOf
<1>2. GolInit(MclstOptions, commandLine)
  BY Zenon DEF MclstInit
<1> QED
  BY <1>1, <1>2, GolInitInv

LEMMA PimcGolStep == ASSUME GolInv, PimcNext PROVE GolInv'
<1>1. CASE ParseArgs
  BY <1>1, GolNextStep, Zenon DEF ParseArgs
<1>2. CASE UNCHANGED golVars
  BY <1>2, GolSame
<1>3. ~ParseArgs => UNCHANGED golVars
  BY Zenon DEF PimcNext, PimcArgsEnd, PimcUseArgs, LoadFails, LoadConfig, BuildConfig,
       ShowConfig, OpenLogger, CreateInterface
<1> QED
  BY <1>1, <1>2, <1>3

LEMMA MclstGolStep == ASSUME GolInv, MclstNext PROVE GolInv'
<1>1. CASE MclstParseArgs
  BY <1>1, GolNextStep, Zenon DEF MclstParseArgs
<1>2. CASE UNCHANGED golVars
  BY <1>2, GolSame
<1>3. ~MclstParseArgs => UNCHANGED golVars
  BY Zenon DEF MclstNext, MclstArgsEnd, FromArgs, NoIntfTable, MclstRun
<1> QED
  BY <1>1, <1>2, <1>3

LEMMA GolHonoured == GolInv => CommandLineHonoured
BY DEF GolInv

(* Whatever is on the command line of pimc, in whatever order and however  *)
(* long: what args() hands to loadIPv4Config() is what it says, and        *)
(* nothing else gets that far (GetOptLong.cpp:380-441).                    *)
THEOREM PimcCommandLine ==
  ASSUME NEW commandLine, NEW file, IsCommandLine(commandLine)
  PROVE  PimcSpec(commandLine, file) => []CommandLineHonoured
<1>1. PimcInit(commandLine, file) => GolInv
  BY PimcGolInit
<1>2. GolInv /\ [PimcNext]_<<pimcVars, golVars, intfVars>> => GolInv'
  BY PimcGolStep, GolSame
<1> QED
  BY <1>1, <1>2, GolHonoured, PTL DEF PimcSpec

(* The same of mclst and its ten options.                                  *)
MclstSpec(commandLine) ==
  MclstInit(commandLine) /\ [][MclstNext]_<<mclstVars, golVars>>

THEOREM MclstCommandLine ==
  ASSUME NEW commandLine, IsCommandLine(commandLine)
  PROVE  MclstSpec(commandLine) => []CommandLineHonoured
<1>1. MclstInit(commandLine) => GolInv
  BY MclstGolInit
<1>2. GolInv /\ [MclstNext]_<<mclstVars, golVars>> => GolInv'
  BY MclstGolStep, GolSame
<1> QED
  BY <1>1, <1>2, GolHonoured, PTL DEF MclstSpec

LEMMA WordIsLine == IsCommandLine(<< Word(ConfigFile) >>)
<1> PICK w, l : w = Word(ConfigFile) /\ l = << w >>
  OBVIOUS
<1>1. w.kind = "word"
  BY DEF Word
<1>2. DOMAIN l = {1} /\ l[1] = w /\ l \in Seq({w})
  OBVIOUS
<1>3. { l[j] : j \in DOMAIN l } = {w}
  BY <1>2
<1>4. \A j \in DOMAIN l : l[j].kind = "word"
  BY <1>1, <1>2, Zenon
<1>5. l \in Seq({ l[j] : j \in DOMAIN l })
  BY <1>2, <1>3, Zenon
<1>6. IsCommandLine(l)
  BY <1>4, <1>5, Zenon DEF IsCommandLine
<1> QED
  BY <1>6, Zenon

(* The same of the two programs as the run starts them.                    *)
THEOREM StartupCommandLine == MCSpec => []CommandLineHonoured
<1>1. MCInit => GolInv
  BY PimcGolInit, MclstGolInit, WordIsLine, LinesAssumption DEF MCInit
<1>2. GolInv /\ [MCNext]_allVars => GolInv'
  BY PimcGolStep, MclstGolStep, GolSame DEF MCNext, allVars
<1> QED
  BY <1>1, <1>2, GolHonoured, PTL DEF MCSpec
LEMMA PairFacts ==
  ASSUME NEW N, IsYaml(N), NEW node \in N, node.type = "Map"
  PROVE  /\ DOMAIN node.items = 1 .. Len(node.items) /\ Len(node.items) \in Nat
         /\ \A i \in DOMAIN node.items : node.items[i].key \in N /\ node.items[i].value \in N
<1>1. node.items \in Seq([key : N, value : N])
  BY DEF IsYaml
<1>2. PICK P, items : P = [key : N, value : N] /\ items = node.items
  OBVIOUS
<1>3. items \in Seq(P)
  BY <1>1, <1>2
<1>4. \A i \in DOMAIN items : items[i] \in P
  BY <1>3
<1> QED
  BY <1>2, <1>3, <1>4

LEMMA ScalarIs ==
  ASSUME NEW N, IsYaml(N), NEW n \in N
  PROVE  \A text : n = Scalar(text) <=> n.type = "Scalar" /\ n.text = text
BY DEF IsYaml, Scalar, Node

(* The least of some positions of a mapping.                               *)
LEMMA FirstIn ==
  ASSUME NEW k \in Nat, NEW S \in SUBSET (1 .. k), S # {}
  PROVE  Sets!Min(S) \in S
<1>1. PICK m \in S : \A i \in S : m <= i
  <2>1. S \subseteq Nat
    OBVIOUS
  <2> QED
    BY <2>1, LeastNat
<1>2. \E x \in S : \A y \in S : x <= y
  BY <1>1
<1> QED
  BY <1>2 DEF Sets!Min

(* What extraneous() lets pass is a record of fields it knows, and the     *)
(* loaders find the fields the record has.                                 *)
LEMMA FieldsKnown ==
  ASSUME NEW N, IsYaml(N), NEW node \in N, node.type = "Map", NEW known,
         extraneous(node.items, known) = {}
  PROVE  /\ \A i \in DOMAIN node.items :
              /\ node.items[i].key.type = "Scalar" /\ node.items[i].key.text \in known
              /\ node.items[i].key \in N
         /\ \A i, j \in DOMAIN node.items :
              i # j => /\ node.items[i].key # node.items[j].key
                       /\ node.items[i].key.text # node.items[j].key.text
<1> DEFINE D == DOMAIN node.items
           key(i) == node.items[i].key
           named == { i \in D : key(i).type = "Scalar" }
<1>1. D = 1 .. Len(node.items) /\ Len(node.items) \in Nat /\ \A i \in D : key(i) \in N
  BY PairFacts
<1>2. /\ \A i \in D : key(i).type = "Scalar"
      /\ \A i \in named : key(i).text \in known
      /\ \A j, k \in named : j < k => key(k) # key(j)
  BY DEF extraneous
<1>3. \A i, j \in D : i # j => key(i) # key(j)
  <2>1. \A i, j \in D : i # j => i < j \/ j < i
    BY <1>1
  <2> QED
    BY <1>2, <2>1, Zenon
<1>4. \A i, j \in D : i # j => key(i).text # key(j).text
  <2>1. \A i \in D : key(i) = Scalar(key(i).text)
    BY <1>1, <1>2, ScalarIs
  <2> QED
    BY <1>3, <2>1, Zenon
<1> QED
  BY <1>1, <1>2, <1>3, <1>4

LEMMA RecordFacts ==
  ASSUME NEW N, IsYaml(N), NEW node \in N, NEW known, NEW needed
  PROVE  IsRecord(node, known, needed) <=>
           /\ node.type = "Map"
           /\ extraneous(node.items, known) = {}
           /\ needed \subseteq Keys(node)
<1>1. ASSUME IsRecord(node, known, needed)
      PROVE  extraneous(node.items, known) = {}
  <2>1. node.type = "Map"
    BY <1>1 DEF IsRecord
  <2>2. DOMAIN node.items = 1 .. Len(node.items) /\ Len(node.items) \in Nat
    BY <2>1, PairFacts
  <2>3. /\ \A i \in DOMAIN node.items : node.items[i].key.type = "Scalar"
        /\ \A i \in DOMAIN node.items : node.items[i].key.text \in known
        /\ \A i, j \in DOMAIN node.items : i # j => node.items[i].key # node.items[j].key
    BY <1>1 DEF IsRecord, Keys
  <2>4. \A i, j \in DOMAIN node.items : i < j => i # j
    BY <2>2
  <2> QED
    BY <2>3, <2>4 DEF extraneous
<1>2. ASSUME node.type = "Map", extraneous(node.items, known) = {}, needed \subseteq Keys(node)
      PROVE  IsRecord(node, known, needed)
  <2>1. Keys(node) \subseteq known
    BY <1>2, FieldsKnown DEF Keys
  <2> QED
    BY <1>2, <2>1, FieldsKnown, SMTT(30) DEF IsRecord
<1> QED
  BY <1>1, <1>2 DEF IsRecord

LEMMA FieldFacts ==
  ASSUME NEW N, IsYaml(N), NEW node \in N, node.type = "Map", NEW known,
         extraneous(node.items, known) = {}, NEW field
  PROVE  /\ Under(node.items, field) = {} <=> field \notin Keys(node)
         /\ field \in Keys(node) => First(node.items, field) = At(node, field)
<1> DEFINE D == DOMAIN node.items
           key(i) == node.items[i].key
<1>1. /\ \A i \in D : key(i).type = "Scalar" /\ key(i) \in N
      /\ \A i, j \in D : i # j => key(i).text # key(j).text
  BY FieldsKnown
<1>2. \A i \in D : i \in Under(node.items, field) <=> key(i).text = field
  BY <1>1, ScalarIs DEF Under
<1>3. Under(node.items, field) = {} <=> field \notin Keys(node)
  <2>1. Under(node.items, field) \subseteq D
    BY DEF Under
  <2> QED
    BY <1>2, <2>1 DEF Keys
<1>4. ASSUME field \in Keys(node) PROVE First(node.items, field) = At(node, field)
  <2>1. PICK i \in D : key(i).text = field
    BY <1>4 DEF Keys
  <2>2. \A j \in D : key(j).text = field => j = i
    BY <1>1, <2>1
  <2>3. (CHOOSE j \in D : node.items[j].key.text = field) = i
    BY <2>1, <2>2
  <2>4. Under(node.items, field) \in SUBSET (1 .. Len(node.items)) /\ Len(node.items) \in Nat
    BY PairFacts DEF Under
  <2>5. Sets!Min(Under(node.items, field)) \in Under(node.items, field)
    BY <1>3, <1>4, <2>4, FirstIn
  <2>6. Sets!Min(Under(node.items, field)) = i
    <3>1. PICK x : x = Sets!Min(Under(node.items, field))
      OBVIOUS
    <3>2. x \in D /\ x \in Under(node.items, field)
      BY <2>5, <3>1 DEF Under
    <3> QED
      BY <1>2, <2>2, <3>1, <3>2
  <2> QED
    BY <2>3, <2>6 DEF First, At
<1> QED
  BY <1>3, <1>4

LEMMA AtIn ==
  ASSUME NEW N, IsYaml(N), NEW node \in N, node.type = "Map", NEW field \in Keys(node)
  PROVE  At(node, field) \in N
<1>1. \E i \in DOMAIN node.items : node.items[i].key.text = field
  BY DEF Keys
<1>2. (CHOOSE i \in DOMAIN node.items : node.items[i].key.text = field) \in DOMAIN node.items
  BY <1>1
<1> QED
  BY <1>2, PairFacts DEF At
-----------------------------------------------------------------------------
(* n is the greatest index of a set that has it, FoldLeft()'s next one.     *)
LEMMA MaxOf ==
  ASSUME NEW n \in Nat, NEW S \in SUBSET (1 .. n), n \in S
  PROVE  Lists!Max(S) = n
<1>1. n \in S /\ \A y \in S : n >= y
  OBVIOUS
<1>2. \A x \in S : (\A y \in S : x >= y) => x = n
  OBVIOUS
<1> QED
  BY <1>1, <1>2 DEF Lists!Max

(* What a fold over a sequence s of N elements reads from right to left:   *)
(* the function on the sets of its indices that FoldLeft() chooses.        *)
FoldsBy(g, F, a, s, n) ==
  \A S \in SUBSET (1 .. n) :
    g[S] = IF S = {} THEN a ELSE F[<<g[S \ {Lists!Max(S)}], s[Lists!Max(S)]>>]

(* There is such a function, for a sequence of any length.                  *)
LEMMA FoldExists ==
  ASSUME NEW A, NEW B, NEW F \in [A \X B -> A], NEW a \in A, NEW N \in Nat,
         NEW s \in [1 .. N -> B]
  PROVE  \E g \in [SUBSET (1 .. N) -> A] : FoldsBy(g, F, a, s, N)
<1> DEFINE Failing == { n \in 0 .. N : ~\E g \in [SUBSET (1 .. n) -> A] : FoldsBy(g, F, a, s, n) }
<1>1. SUFFICES Failing = {}
  <2>1. N \in 0 .. N
    OBVIOUS
  <2> QED
    BY <1>1, <2>1
<1>2. SUFFICES ASSUME Failing # {} PROVE FALSE
  OBVIOUS
<1>3. PICK n \in Failing : \A k \in Failing : n <= k
  <2>1. Failing \subseteq Nat
    OBVIOUS
  <2> HIDE DEF Failing
  <2> QED
    BY <1>2, <2>1, LeastNat
<1>4. n # 0
  <2>1. ASSUME n = 0 PROVE FALSE
    <3> DEFINE g == [S \in SUBSET (1 .. 0) |-> a]
    <3>1. \A S \in SUBSET (1 .. 0) : S = {}
      OBVIOUS
    <3>2. g \in [SUBSET (1 .. 0) -> A] /\ \A S \in SUBSET (1 .. 0) : g[S] = a
      OBVIOUS
    <3>3. FoldsBy(g, F, a, s, 0)
      BY <3>1, <3>2, Zenon DEF FoldsBy
    <3> QED
      BY <2>1, <3>2, <3>3
  <2> QED
    BY <2>1
<1>5. n \in 1 .. N /\ n - 1 \in 0 .. N /\ n - 1 \notin Failing
  <2>1. n \in 1 .. N
    BY <1>4
  <2> HIDE DEF Failing
  <2> QED
    BY <1>3, <2>1
<1>6. PICK g \in [SUBSET (1 .. n - 1) -> A] : FoldsBy(g, F, a, s, n - 1)
  BY <1>5
<1> HIDE DEF Failing
<1> DEFINE h == [S \in SUBSET (1 .. n) |-> IF n \in S THEN F[<<g[S \ {n}], s[n]>>] ELSE g[S]]
<1>7. \A S \in SUBSET (1 .. n) : /\ n \in S => S \ {n} \in SUBSET (1 .. n - 1)
                                 /\ n \notin S => S \in SUBSET (1 .. n - 1)
  BY <1>5
<1>8. h \in [SUBSET (1 .. n) -> A]
  <2>1. ASSUME NEW S \in SUBSET (1 .. n)
        PROVE  (IF n \in S THEN F[<<g[S \ {n}], s[n]>>] ELSE g[S]) \in A
    BY <1>5, <1>6, <1>7
  <2> QED
    BY <2>1
<1>9. FoldsBy(h, F, a, s, n)
  <2>1. SUFFICES ASSUME NEW S \in SUBSET (1 .. n), S # {}
                 PROVE  h[S] = F[<<h[S \ {Lists!Max(S)}], s[Lists!Max(S)]>>]
    <3>1. {} \in SUBSET (1 .. n) /\ {} \in SUBSET (1 .. n - 1) /\ n \notin {}
      OBVIOUS
    <3>2. h[{}] = a
      BY <1>6, <3>1 DEF FoldsBy
    <3> QED
      BY <2>1, <3>2, Zenon DEF FoldsBy
  <2>2. CASE n \in S
    <3>1. Lists!Max(S) = n
      BY <1>5, <2>2, MaxOf
    <3>2. S \ {n} \in SUBSET (1 .. n) /\ n \notin S \ {n}
      OBVIOUS
    <3> QED
      BY <2>2, <3>1, <3>2
  <2>3. CASE n \notin S
    <3>1. S \in SUBSET (1 .. n - 1)
      BY <1>7, <2>3
    <3>2. PICK x : x = Lists!Max(S)
      OBVIOUS
    <3>3. S \ {x} \in SUBSET (1 .. n) /\ S \ {x} \in SUBSET (1 .. n - 1) /\ n \notin S \ {x}
      BY <2>3, <3>1
    <3>4. h[S] = g[S] /\ h[S \ {x}] = g[S \ {x}]
      BY <2>3, <3>3
    <3>5. g[S] = F[<<g[S \ {x}], s[x]>>]
      BY <1>6, <2>1, <3>1, <3>2, Zenon DEF FoldsBy
    <3> QED
      BY <3>2, <3>4, <3>5, Zenon
  <2> QED
    BY <2>2, <2>3
<1>10. n \notin Failing
  <2> HIDE DEF h
  <2> QED
    BY <1>5, <1>8, <1>9 DEF Failing
<1> QED
  BY <1>10

(* Along the prefixes of the sequence the fold takes one step after the    *)
(* other.                                                                  *)
LEMMA FoldSteps ==
  ASSUME NEW n \in Nat \ {0}
  PROVE  /\ 1 .. n \in SUBSET (1 .. n) /\ 1 .. n # {}
         /\ Lists!Max(1 .. n) = n /\ (1 .. n) \ {n} = 1 .. n - 1
<1>1. n \in 1 .. n /\ 1 .. n \in SUBSET (1 .. n) /\ (1 .. n) \ {n} = 1 .. n - 1
  OBVIOUS
<1> QED
  BY <1>1, MaxOf

(* SequencesExt takes the greatest index of a set, which is in it.          *)
LEMMA MaxIn ==
  ASSUME NEW n \in Nat, NEW S \in SUBSET (1 .. n), S # {}
  PROVE  Lists!Max(S) \in S
<1> DEFINE T == { n - k : k \in S }
<1>1. T \subseteq Nat /\ T # {}
  <2>1. \A k \in S : n - k \in Nat
    OBVIOUS
  <2> QED
    BY <2>1
<1>2. PICK m \in T : \A k \in T : m <= k
  <2> HIDE DEF T
  <2> QED
    BY <1>1, LeastNat
<1>3. PICK x \in S : m = n - x
  BY <1>2
<1>4. ASSUME NEW y \in S PROVE x >= y
  <2>1. n - y \in T
    OBVIOUS
  <2>2. n - x <= n - y
    BY <1>2, <1>3, <2>1
  <2> QED
    BY <2>2
<1> QED
  BY <1>4 DEF Lists!Max

(* Induction over 0 .. n: the numbers K for which something holds.         *)
LEMMA FromZero ==
  ASSUME NEW n \in Nat, NEW K, 0 \in K, \A k \in 1 .. n : k - 1 \in K => k \in K
  PROVE  \A k \in 0 .. n : k \in K
<1> DEFINE T == { k \in 0 .. n : k \notin K }
<1>1. SUFFICES ASSUME T # {} PROVE FALSE
  OBVIOUS
<1>2. PICK m \in T : \A k \in T : m <= k
  <2>1. T \subseteq Nat
    OBVIOUS
  <2> HIDE DEF T
  <2> QED
    BY <1>1, <2>1, LeastNat
<1>3. m \in 1 .. n /\ m - 1 \in 0 .. n /\ ~(m <= m - 1)
  OBVIOUS
<1>4. m - 1 \in K
  BY <1>2, <1>3
<1> QED
  BY <1>3, <1>4
-----------------------------------------------------------------------------
Addresses == DOMAIN ClassOf

Adr(node) == AddressOf[node.text]

(* What an error can be about and what it can say.                         *)
Abouts(N) ==
  { n.text : n \in N } \cup Addresses
    \cup {"", "Scalar", "Sequence", "Map", "Null", "RP", "Prune", "Join*", "Join"}
Whats ==
  {"unicast", "mcast", "loopback", "default", "broadcast", "not a scalar", "not a mapping",
   "not a sequence", "required", "bad key", "unrecognized field", "duplicate field", "invalid",
   "not multicast", "duplicate", "too many prunes", "empty", "no groups", "duplicate group"}
Errors(N) == [about : Abouts(N), what : Whats]

(* What a GroupConfigBuilder can hold.                                     *)
Builders(N) ==
  [group : Addresses, rp : Addresses \cup {NoAddress}, prunes : SUBSET Addresses,
   joins : SUBSET Addresses, sources : SUBSET Addresses, errors : SUBSET Errors(N)]

LEMMA ErrorIn ==
  ASSUME NEW N, NEW about \in Abouts(N), NEW what \in Whats
  PROVE  ErrorContext(about, what) \in Errors(N)
BY DEF ErrorContext, Errors

LEMMA NodeErrors ==
  ASSUME NEW N, IsYaml(N), NEW node \in N, NEW what \in Whats
  PROVE  /\ ErrorContext(node.type, what) \in Errors(N)
         /\ ErrorContext(node.text, what) \in Errors(N)
<1>1. node.type \in Abouts(N) /\ node.text \in Abouts(N)
  BY DEF IsYaml, Abouts
<1> QED
  BY <1>1, ErrorIn

LEMMA FailFacts ==
  ASSUME NEW about, NEW what
  PROVE  /\ Fail(about, what).ok = FALSE
         /\ Fail(about, what).error = ErrorContext(about, what)
BY DEF Fail

LEMMA AddressFacts ==
  ASSUME NEW N, IsYaml(N), NEW node \in N, NEW r, r = scalarAddr(node)
  PROVE  \/ /\ IsAddress(node, "unicast") /\ r = Ok(Adr(node))
            /\ Adr(node) \in Addresses /\ r.ok /\ r.value = Adr(node)
         \/ /\ ~IsAddress(node, "unicast") /\ r.ok = FALSE
            /\ r.error \in Errors(N)
<1>1. CASE IsAddress(node, "unicast")
  <2>1. Adr(node) \in Addresses
    BY <1>1, TextsAssumption DEF IsAddress, Adr, Addresses
  <2>2. r = Ok(Adr(node))
    BY <1>1 DEF IsAddress, scalarAddr, flatMap, getScalar, ucAddr, Ok, Adr
  <2> QED
    BY <1>1, <2>1, <2>2 DEF Ok
<1>2. CASE ~IsAddress(node, "unicast")
  <2>1. CASE node.type # "Scalar"
    <3>1. r = Fail(node.type, "not a scalar")
      BY <2>1 DEF scalarAddr, flatMap, getScalar, Fail
    <3>2. ErrorContext(node.type, "not a scalar") \in Errors(N)
      BY NodeErrors DEF Whats
    <3> QED
      BY <1>2, <3>1, <3>2, FailFacts, Zenon
  <2>2. CASE node.type = "Scalar" /\ node.text \notin DOMAIN AddressOf
    <3>1. r = Fail(node.text, "invalid")
      BY <2>2 DEF scalarAddr, flatMap, getScalar, Ok, ucAddr
    <3>2. ErrorContext(node.text, "invalid") \in Errors(N)
      BY NodeErrors DEF Whats
    <3> QED
      BY <1>2, <3>1, <3>2, FailFacts, Zenon
  <2>3. CASE node.type = "Scalar" /\ node.text \in DOMAIN AddressOf
    <3>1. ClassOf[Adr(node)] # "unicast"
      BY <1>2, <2>3 DEF IsAddress, Adr
    <3>2. r = Fail(node.text, ClassOf[Adr(node)])
      BY <2>3, <3>1 DEF scalarAddr, flatMap, getScalar, Ok, ucAddr, Adr
    <3>3. ClassOf[Adr(node)] \in Whats
      BY <2>3, TextsAssumption DEF Whats, Adr
    <3> QED
      <4>1. PICK what : what = ClassOf[Adr(node)]
        OBVIOUS
      <4>2. ErrorContext(node.text, what) \in Errors(N) /\ r = Fail(node.text, what)
        BY <3>2, <3>3, <4>1, NodeErrors
      <4> QED
        BY <1>2, <4>2, FailFacts, Zenon
  <2> QED
    BY <2>1, <2>2, <2>3
<1> QED
  BY <1>1, <1>2

LEMMA GroupAddressFacts ==
  ASSUME NEW N, IsYaml(N), NEW node \in N, NEW r, r = flatMap(getScalar(node), grpAddr)
  PROVE  \/ /\ IsAddress(node, "mcast") /\ Adr(node) \in Addresses
            /\ r.ok /\ r.value = Adr(node)
         \/ /\ ~IsAddress(node, "mcast") /\ r.ok = FALSE
            /\ r.error \in Errors(N)
<1>1. CASE IsAddress(node, "mcast")
  <2>1. Adr(node) \in Addresses
    BY <1>1, TextsAssumption DEF IsAddress, Adr, Addresses
  <2>2. r = Ok(Adr(node))
    BY <1>1 DEF IsAddress, flatMap, getScalar, grpAddr, Ok, Adr
  <2> QED
    BY <1>1, <2>1, <2>2 DEF Ok
<1>2. CASE ~IsAddress(node, "mcast")
  <2>0. /\ ErrorContext(node.type, "not a scalar") \in Errors(N)
        /\ ErrorContext(node.text, "invalid") \in Errors(N)
        /\ ErrorContext(node.text, "not multicast") \in Errors(N)
    BY NodeErrors DEF Whats
  <2>1. CASE node.type # "Scalar"
    <3>1. r = Fail(node.type, "not a scalar")
      BY <2>1 DEF flatMap, getScalar, Fail
    <3> QED
      BY <1>2, <3>1, <2>0, FailFacts, Zenon
  <2>2. CASE node.type = "Scalar" /\ node.text \notin DOMAIN AddressOf
    <3>1. r = Fail(node.text, "invalid")
      BY <2>2 DEF flatMap, getScalar, Ok, grpAddr
    <3> QED
      BY <1>2, <3>1, <2>0, FailFacts, Zenon
  <2>3. CASE node.type = "Scalar" /\ node.text \in DOMAIN AddressOf
    <3>1. ClassOf[Adr(node)] # "mcast"
      BY <1>2, <2>3 DEF IsAddress, Adr
    <3>2. r = Fail(node.text, "not multicast")
      BY <2>3, <3>1 DEF flatMap, getScalar, Ok, grpAddr, Adr
    <3> QED
      BY <1>2, <3>2, <2>0, FailFacts, Zenon
  <2> QED
    BY <2>1, <2>2, <2>3
<1> QED
  BY <1>1, <1>2
-----------------------------------------------------------------------------
(* Whether chkSrc() or the builder turns the source down, and the builder  *)
(* that has taken it.                                                      *)
Refused(role, c, node) ==
  \/ ~IsAddress(node, "unicast")
  \/ Adr(node) \in c.sources
  \/ role = "Prune" /\ Cardinality(c.prunes) >= MaxPruneSGrptLen

WithSource(role, c, a) ==
  [group |-> c.group, errors |-> c.errors, sources |-> c.sources \cup {a},
   rp |-> IF role = "RP" THEN a ELSE c.rp,
   prunes |-> IF role = "Prune" THEN c.prunes \cup {a} ELSE c.prunes,
   joins |-> IF role = "Join" THEN c.joins \cup {a} ELSE c.joins]

ReadsSource(role, c, d, node) ==
  IF Refused(role, c, node) THEN d.errors # {} ELSE d = WithSource(role, c, Adr(node))

LEMMA BuilderFields ==
  ASSUME NEW N, NEW c
  PROVE  c \in Builders(N) <=>
           /\ c = [group |-> c.group, rp |-> c.rp, prunes |-> c.prunes, joins |-> c.joins,
                   sources |-> c.sources, errors |-> c.errors]
           /\ c.group \in Addresses /\ c.rp \in Addresses \cup {NoAddress}
           /\ c.prunes \in SUBSET Addresses /\ c.joins \in SUBSET Addresses
           /\ c.sources \in SUBSET Addresses /\ c.errors \in SUBSET Errors(N)
BY DEF Builders

LEMMA WithErrorFacts ==
  ASSUME NEW N, NEW c \in Builders(N), NEW es \in SUBSET Errors(N)
  PROVE  /\ WithErrors(c, es) \in Builders(N)
         /\ WithErrors(c, es).errors = c.errors \cup es
         /\ es = {} => WithErrors(c, es) = c
BY DEF WithErrors, Builders

LEMMA OneErrorFacts ==
  ASSUME NEW N, NEW c \in Builders(N), NEW e \in Errors(N)
  PROVE  WithError(c, e) \in Builders(N) /\ WithError(c, e).errors # {}
BY WithErrorFacts DEF WithError

LEMMA WithSourceType ==
  ASSUME NEW N, NEW role, NEW c \in Builders(N), NEW a \in Addresses
  PROVE  WithSource(role, c, a) \in Builders(N)
BY DEF WithSource, Builders

LEMMA SourceErrors ==
  ASSUME NEW N, NEW a \in Addresses
  PROVE  /\ ErrorContext(a, "duplicate") \in Errors(N)
         /\ ErrorContext(a, "too many prunes") \in Errors(N)
BY ErrorIn DEF Abouts, Whats

LEMMA Registered ==
  ASSUME NEW N, NEW c \in Builders(N), NEW a \in Addresses,
         NEW b, b = [c EXCEPT !.sources = @ \cup {a}]
  PROVE  /\ b \in Builders(N)
         /\ acceptRP(b, a) = WithSource("RP", c, a)
         /\ acceptJoinSG(b, a) = WithSource("Join", c, a)
         /\ b.prunes = c.prunes
         /\ ~(Cardinality(c.prunes) >= MaxPruneSGrptLen) =>
              acceptPruneSGrpt(b, a) = WithSource("Prune", c, a)
<1>1. b = [group |-> c.group, rp |-> c.rp, prunes |-> c.prunes, joins |-> c.joins,
           sources |-> c.sources \cup {a}, errors |-> c.errors]
  BY BuilderFields, ZenonT(40)
<1>2. b \in Builders(N)
  BY <1>1, BuilderFields DEF Builders
<1>a. /\ b.group = c.group /\ b.rp = c.rp /\ b.prunes = c.prunes /\ b.joins = c.joins
      /\ b.sources = c.sources \cup {a} /\ b.errors = c.errors
  BY <1>1
<1>3. acceptRP(b, a) = WithSource("RP", c, a)
  <2>1. acceptRP(b, a) = [group |-> b.group, rp |-> a, prunes |-> b.prunes, joins |-> b.joins,
                          sources |-> b.sources, errors |-> b.errors]
    <3>1. acceptRP(b, a) = [b EXCEPT !.rp = a]
      BY DEF acceptRP
    <3> QED
      BY <1>2, <3>1 DEF Builders
  <2>2. "RP" # "Prune" /\ "RP" # "Join"
    OBVIOUS
  <2> QED
    BY <1>a, <2>1, <2>2 DEF WithSource
<1>4. acceptJoinSG(b, a) = WithSource("Join", c, a)
  <2>1. acceptJoinSG(b, a) = [group |-> b.group, rp |-> b.rp, prunes |-> b.prunes,
                              joins |-> b.joins \cup {a}, sources |-> b.sources,
                              errors |-> b.errors]
    <3>1. acceptJoinSG(b, a) = [b EXCEPT !.joins = @ \cup {a}]
      BY DEF acceptJoinSG
    <3> QED
      BY <1>2, <3>1 DEF Builders
  <2>2. "Join" # "Prune" /\ "Join" # "RP"
    OBVIOUS
  <2> QED
    BY <1>a, <2>1, <2>2 DEF WithSource
<1>5. ASSUME ~(Cardinality(c.prunes) >= MaxPruneSGrptLen)
      PROVE  acceptPruneSGrpt(b, a) = WithSource("Prune", c, a)
  <2>1. b.prunes = c.prunes
    BY <1>1
  <2>2. acceptPruneSGrpt(b, a) = [b EXCEPT !.prunes = @ \cup {a}]
    BY <1>5, <2>1 DEF acceptPruneSGrpt
  <2>3. acceptPruneSGrpt(b, a) = [group |-> b.group, rp |-> b.rp, prunes |-> b.prunes \cup {a},
                                  joins |-> b.joins, sources |-> b.sources,
                                  errors |-> b.errors]
    BY <1>2, <2>2 DEF Builders
  <2>4. "Prune" # "Join" /\ "Prune" # "RP"
    OBVIOUS
  <2> QED
    BY <1>a, <2>3, <2>4 DEF WithSource
<1> QED
  BY <1>a, <1>2, <1>3, <1>4, <1>5

LEMMA RPStep ==
  ASSUME NEW N, IsYaml(N), NEW c \in Builders(N), NEW node \in N,
         NEW d, d = acceptSource(c, scalarAddr(node), acceptRP)
  PROVE  d \in Builders(N) /\ ReadsSource("RP", c, d, node)
<1> PICK r : r = scalarAddr(node)
  OBVIOUS
<1>1. d = IF ~r.ok THEN WithError(c, r.error)
          ELSE IF r.value \in c.sources THEN WithError(c, ErrorContext(r.value, "duplicate"))
          ELSE acceptRP([c EXCEPT !.sources = @ \cup {r.value}], r.value)
  BY DEF acceptSource, chkSrc
<1>2. CASE ~IsAddress(node, "unicast")
  <2>1. d = WithError(c, r.error) /\ r.error \in Errors(N)
    BY <1>1, <1>2, AddressFacts
  <2> QED
    BY <1>2, <2>1, OneErrorFacts DEF ReadsSource, Refused
<1>3. CASE IsAddress(node, "unicast")
  <2>1. r.ok /\ r.value = Adr(node) /\ Adr(node) \in Addresses
    BY <1>3, AddressFacts
  <2>2. CASE Adr(node) \in c.sources
    <3>1. d = WithError(c, ErrorContext(Adr(node), "duplicate"))
      BY <1>1, <2>1, <2>2
    <3> QED
      BY <2>1, <2>2, <3>1, SourceErrors, OneErrorFacts DEF ReadsSource, Refused
  <2>3. CASE Adr(node) \notin c.sources
    <3>1. d = acceptRP([c EXCEPT !.sources = @ \cup {Adr(node)}], Adr(node))
      BY <1>1, <2>1, <2>3
    <3>2. d = WithSource("RP", c, Adr(node))
      BY <2>1, <3>1, Registered
    <3> QED
      BY <1>3, <2>1, <2>3, <3>2, WithSourceType DEF ReadsSource, Refused
  <2> QED
    BY <2>2, <2>3
<1> QED
  BY <1>2, <1>3

LEMMA JoinStep ==
  ASSUME NEW N, IsYaml(N), NEW c \in Builders(N), NEW node \in N,
         NEW d, d = acceptSource(c, scalarAddr(node), acceptJoinSG)
  PROVE  d \in Builders(N) /\ ReadsSource("Join", c, d, node)
<1> PICK r : r = scalarAddr(node)
  OBVIOUS
<1>1. d = IF ~r.ok THEN WithError(c, r.error)
          ELSE IF r.value \in c.sources THEN WithError(c, ErrorContext(r.value, "duplicate"))
          ELSE acceptJoinSG([c EXCEPT !.sources = @ \cup {r.value}], r.value)
  BY DEF acceptSource, chkSrc
<1>2. CASE ~IsAddress(node, "unicast")
  <2>1. d = WithError(c, r.error) /\ r.error \in Errors(N)
    BY <1>1, <1>2, AddressFacts
  <2> QED
    BY <1>2, <2>1, OneErrorFacts DEF ReadsSource, Refused
<1>3. CASE IsAddress(node, "unicast")
  <2>1. r.ok /\ r.value = Adr(node) /\ Adr(node) \in Addresses
    BY <1>3, AddressFacts
  <2>2. CASE Adr(node) \in c.sources
    <3>1. d = WithError(c, ErrorContext(Adr(node), "duplicate"))
      BY <1>1, <2>1, <2>2
    <3> QED
      BY <2>1, <2>2, <3>1, SourceErrors, OneErrorFacts DEF ReadsSource, Refused
  <2>3. CASE Adr(node) \notin c.sources
    <3>1. d = acceptJoinSG([c EXCEPT !.sources = @ \cup {Adr(node)}], Adr(node))
      BY <1>1, <2>1, <2>3
    <3>2. d = WithSource("Join", c, Adr(node))
      BY <2>1, <3>1, Registered
    <3> QED
      BY <1>3, <2>1, <2>3, <3>2, WithSourceType DEF ReadsSource, Refused
  <2> QED
    BY <2>2, <2>3
<1> QED
  BY <1>2, <1>3

LEMMA PruneStep ==
  ASSUME NEW N, IsYaml(N), NEW c \in Builders(N), NEW node \in N,
         NEW d, d = acceptSource(c, scalarAddr(node), acceptPruneSGrpt)
  PROVE  d \in Builders(N) /\ ReadsSource("Prune", c, d, node)
<1> PICK r : r = scalarAddr(node)
  OBVIOUS
<1>1. d = IF ~r.ok THEN WithError(c, r.error)
          ELSE IF r.value \in c.sources THEN WithError(c, ErrorContext(r.value, "duplicate"))
          ELSE acceptPruneSGrpt([c EXCEPT !.sources = @ \cup {r.value}], r.value)
  BY DEF acceptSource, chkSrc
<1>2. CASE ~IsAddress(node, "unicast")
  <2>1. d = WithError(c, r.error) /\ r.error \in Errors(N)
    BY <1>1, <1>2, AddressFacts
  <2> QED
    BY <1>2, <2>1, OneErrorFacts DEF ReadsSource, Refused
<1>3. CASE IsAddress(node, "unicast")
  <2>1. r.ok /\ r.value = Adr(node) /\ Adr(node) \in Addresses
    BY <1>3, AddressFacts
  <2>2. CASE Adr(node) \in c.sources
    <3>1. d = WithError(c, ErrorContext(Adr(node), "duplicate"))
      BY <1>1, <2>1, <2>2
    <3> QED
      BY <2>1, <2>2, <3>1, SourceErrors, OneErrorFacts DEF ReadsSource, Refused
  <2>3. CASE Adr(node) \notin c.sources
    <3> PICK b : b = [c EXCEPT !.sources = @ \cup {Adr(node)}]
      OBVIOUS
    <3>1. d = acceptPruneSGrpt(b, Adr(node))
      BY <1>1, <2>1, <2>3
    <3>2. /\ b \in Builders(N) /\ b.prunes = c.prunes
          /\ ~(Cardinality(c.prunes) >= MaxPruneSGrptLen) =>
               acceptPruneSGrpt(b, Adr(node)) = WithSource("Prune", c, Adr(node))
      BY <2>1, Registered
    <3>3. CASE Cardinality(c.prunes) >= MaxPruneSGrptLen
      <4>1. d = WithError(b, ErrorContext(Adr(node), "too many prunes"))
        BY <3>1, <3>2, <3>3 DEF acceptPruneSGrpt
      <4> QED
        BY <2>1, <3>2, <3>3, <4>1, SourceErrors, OneErrorFacts DEF ReadsSource, Refused
    <3>4. CASE ~(Cardinality(c.prunes) >= MaxPruneSGrptLen)
      <4>1. d = WithSource("Prune", c, Adr(node))
        BY <3>1, <3>2, <3>4
      <4> QED
        BY <1>3, <2>1, <2>3, <3>4, <4>1, WithSourceType DEF ReadsSource, Refused
    <3> QED
      BY <3>3, <3>4
  <2> QED
    BY <2>2, <2>3
<1> QED
  BY <1>2, <1>3
-----------------------------------------------------------------------------
(* f runs over the builders while the first n nodes of s, the sources of   *)
(* one role, are read into b.                                              *)
Runs(role, f, b, s, n) ==
  f[0] = b /\ \A k \in 1 .. n : ReadsSource(role, f[k - 1], f[k], s[k])

LEMMA PruneRuns ==
  ASSUME NEW N, IsYaml(N), NEW b \in Builders(N), NEW s \in Seq(N)
  PROVE  \E f \in [0 .. Len(s) -> Builders(N)] :
           /\ Runs("Prune", f, b, s, Len(s))
           /\ f[Len(s)] = acceptList(b, Ok(s), acceptPruneSGrpt)
<1>0. PICK n, M : n = Len(s) /\ M = Builders(N)
  OBVIOUS
<1>1. n \in Nat /\ DOMAIN s = 1 .. n /\ b \in M /\ \A k \in 1 .. n : s[k] \in N
  BY <1>0
<1>2. \A c \in M, node \in N : acceptSource(c, scalarAddr(node), acceptPruneSGrpt) \in M
  BY <1>0, PruneStep
<1>3. PICK F \in [M \X N -> M] :
        \A c \in M, node \in N : F[<<c, node>>] = acceptSource(c, scalarAddr(node), acceptPruneSGrpt)
  <2> DEFINE F == [p \in M \X N |-> acceptSource(p[1], scalarAddr(p[2]), acceptPruneSGrpt)]
  <2>1. /\ F \in [M \X N -> M]
        /\ \A c \in M, node \in N : F[<<c, node>>] = acceptSource(c, scalarAddr(node), acceptPruneSGrpt)
    BY <1>2
  <2> QED
    BY <2>1, Zenon
<1>4. PICK g \in [SUBSET (1 .. n) -> M] : FoldsBy(g, F, b, s, n)
  <2>1. F \in [M \X N -> M] /\ b \in M /\ n \in Nat /\ s \in [1 .. n -> N]
    BY <1>1
  <2> QED
    BY <2>1, FoldExists, Zenon
<1> DEFINE Next1(c, node) == acceptSource(c, scalarAddr(node), acceptPruneSGrpt)
           Eq(h) == h = [S \in SUBSET (1 .. n) |->
                           IF S = {} THEN b
                           ELSE Next1(h[S \ {Lists!Max(S)}], s[Lists!Max(S)])]
           h0 == CHOOSE h : Eq(h)
<1>5. Eq(g)
  <2> HIDE DEF Next1
  <2>1. ASSUME NEW S \in SUBSET (1 .. n)
        PROVE  g[S] = IF S = {} THEN b ELSE Next1(g[S \ {Lists!Max(S)}], s[Lists!Max(S)])
    <3>1. CASE S = {}
      BY <1>4, <3>1, Zenon DEF FoldsBy
    <3>2. CASE S # {}
      <4> PICK x : x = Lists!Max(S)
        OBVIOUS
      <4>1. x \in 1 .. n
        BY <1>1, <3>2, MaxIn
      <4>2. s[x] \in N /\ g[S \ {x}] \in M
        BY <1>1, <1>4, <4>1
      <4>3. g[S] = F[<<g[S \ {x}], s[x]>>]
        BY <1>4, <3>2, Zenon DEF FoldsBy
      <4> QED
        BY <1>3, <3>2, <4>2, <4>3, Zenon DEF Next1
    <3> QED
      BY <3>1, <3>2
  <2> QED
    BY <1>4, <2>1
<1>6. Eq(h0)
  BY <1>5
<1>7. acceptList(b, Ok(s), acceptPruneSGrpt) = h0[1 .. n]
  BY <1>1 DEF acceptList, Ok, Lists!FoldLeft, Lists!MapThenFoldSet
<1> HIDE DEF h0, Next1
<1>8. \A S \in SUBSET (1 .. n) :
        h0[S] = IF S = {} THEN b ELSE Next1(h0[S \ {Lists!Max(S)}], s[Lists!Max(S)])
  BY <1>6
<1> DEFINE f == [k \in 0 .. n |-> h0[1 .. k]]
<1>9. f[0] = b /\ f[n] = h0[1 .. n]
  <2>1. 1 .. 0 = {} /\ {} \in SUBSET (1 .. n) /\ 0 \in 0 .. n /\ n \in 0 .. n
    BY <1>1
  <2> QED
    BY <1>8, <2>1
<1>10. ASSUME NEW k \in 1 .. n PROVE f[k] = Next1(f[k - 1], s[k])
  <2>1. k \in Nat \ {0} /\ 1 .. k \in SUBSET (1 .. n) /\ k - 1 \in 0 .. n /\ k \in 0 .. n
    BY <1>1
  <2>2. Lists!Max(1 .. k) = k /\ (1 .. k) \ {k} = 1 .. k - 1 /\ 1 .. k # {}
    BY <2>1, FoldSteps
  <2>3. h0[1 .. k] = Next1(h0[1 .. k - 1], s[k])
    BY <1>8, <2>1, <2>2
  <2> QED
    BY <2>1, <2>3
<1> HIDE DEF f
<1>11. \A k \in 0 .. n : f[k] \in M
  <2> DEFINE K == { k \in 0 .. n : f[k] \in M }
  <2>1. 0 \in K
    BY <1>1, <1>9
  <2>2. \A k \in 1 .. n : k - 1 \in K => k \in K
    <3>1. ASSUME NEW k \in 1 .. n, f[k - 1] \in M PROVE f[k] \in M
      BY <1>1, <1>2, <1>10, <3>1, Zenon DEF Next1
    <3>2. \A k \in 1 .. n : k \in 0 .. n
      BY <1>1
    <3> QED
      BY <3>1, <3>2
  <2> HIDE DEF K
  <2>3. \A k \in 0 .. n : k \in K
    BY <1>1, <2>1, <2>2, FromZero
  <2> QED
    BY <2>3 DEF K
<1>12. f \in [0 .. n -> M]
  BY <1>11 DEF f
<1>13. ASSUME NEW k \in 1 .. n PROVE ReadsSource("Prune", f[k - 1], f[k], s[k])
  <2>1. k - 1 \in 0 .. n
    BY <1>1
  <2>2. f[k - 1] \in Builders(N) /\ s[k] \in N
    BY <1>0, <1>1, <1>11, <2>1
  <2> QED
    BY <1>10, <2>2, PruneStep DEF Next1
<1> QED
  BY <1>0, <1>7, <1>9, <1>12, <1>13, Zenon DEF Runs

LEMMA JoinRuns ==
  ASSUME NEW N, IsYaml(N), NEW b \in Builders(N), NEW s \in Seq(N)
  PROVE  \E f \in [0 .. Len(s) -> Builders(N)] :
           /\ Runs("Join", f, b, s, Len(s))
           /\ f[Len(s)] = acceptList(b, Ok(s), acceptJoinSG)
<1>0. PICK n, M : n = Len(s) /\ M = Builders(N)
  OBVIOUS
<1>1. n \in Nat /\ DOMAIN s = 1 .. n /\ b \in M /\ \A k \in 1 .. n : s[k] \in N
  BY <1>0
<1>2. \A c \in M, node \in N : acceptSource(c, scalarAddr(node), acceptJoinSG) \in M
  BY <1>0, JoinStep
<1>3. PICK F \in [M \X N -> M] :
        \A c \in M, node \in N : F[<<c, node>>] = acceptSource(c, scalarAddr(node), acceptJoinSG)
  <2> DEFINE F == [p \in M \X N |-> acceptSource(p[1], scalarAddr(p[2]), acceptJoinSG)]
  <2>1. /\ F \in [M \X N -> M]
        /\ \A c \in M, node \in N : F[<<c, node>>] = acceptSource(c, scalarAddr(node), acceptJoinSG)
    BY <1>2
  <2> QED
    BY <2>1, Zenon
<1>4. PICK g \in [SUBSET (1 .. n) -> M] : FoldsBy(g, F, b, s, n)
  <2>1. F \in [M \X N -> M] /\ b \in M /\ n \in Nat /\ s \in [1 .. n -> N]
    BY <1>1
  <2> QED
    BY <2>1, FoldExists, Zenon
<1> DEFINE Next1(c, node) == acceptSource(c, scalarAddr(node), acceptJoinSG)
           Eq(h) == h = [S \in SUBSET (1 .. n) |->
                           IF S = {} THEN b
                           ELSE Next1(h[S \ {Lists!Max(S)}], s[Lists!Max(S)])]
           h0 == CHOOSE h : Eq(h)
<1>5. Eq(g)
  <2> HIDE DEF Next1
  <2>1. ASSUME NEW S \in SUBSET (1 .. n)
        PROVE  g[S] = IF S = {} THEN b ELSE Next1(g[S \ {Lists!Max(S)}], s[Lists!Max(S)])
    <3>1. CASE S = {}
      BY <1>4, <3>1, Zenon DEF FoldsBy
    <3>2. CASE S # {}
      <4> PICK x : x = Lists!Max(S)
        OBVIOUS
      <4>1. x \in 1 .. n
        BY <1>1, <3>2, MaxIn
      <4>2. s[x] \in N /\ g[S \ {x}] \in M
        BY <1>1, <1>4, <4>1
      <4>3. g[S] = F[<<g[S \ {x}], s[x]>>]
        BY <1>4, <3>2, Zenon DEF FoldsBy
      <4> QED
        BY <1>3, <3>2, <4>2, <4>3, Zenon DEF Next1
    <3> QED
      BY <3>1, <3>2
  <2> QED
    BY <1>4, <2>1
<1>6. Eq(h0)
  BY <1>5
<1>7. acceptList(b, Ok(s), acceptJoinSG) = h0[1 .. n]
  BY <1>1 DEF acceptList, Ok, Lists!FoldLeft, Lists!MapThenFoldSet
<1> HIDE DEF h0, Next1
<1>8. \A S \in SUBSET (1 .. n) :
        h0[S] = IF S = {} THEN b ELSE Next1(h0[S \ {Lists!Max(S)}], s[Lists!Max(S)])
  BY <1>6
<1> DEFINE f == [k \in 0 .. n |-> h0[1 .. k]]
<1>9. f[0] = b /\ f[n] = h0[1 .. n]
  <2>1. 1 .. 0 = {} /\ {} \in SUBSET (1 .. n) /\ 0 \in 0 .. n /\ n \in 0 .. n
    BY <1>1
  <2> QED
    BY <1>8, <2>1
<1>10. ASSUME NEW k \in 1 .. n PROVE f[k] = Next1(f[k - 1], s[k])
  <2>1. k \in Nat \ {0} /\ 1 .. k \in SUBSET (1 .. n) /\ k - 1 \in 0 .. n /\ k \in 0 .. n
    BY <1>1
  <2>2. Lists!Max(1 .. k) = k /\ (1 .. k) \ {k} = 1 .. k - 1 /\ 1 .. k # {}
    BY <2>1, FoldSteps
  <2>3. h0[1 .. k] = Next1(h0[1 .. k - 1], s[k])
    BY <1>8, <2>1, <2>2
  <2> QED
    BY <2>1, <2>3
<1> HIDE DEF f
<1>11. \A k \in 0 .. n : f[k] \in M
  <2> DEFINE K == { k \in 0 .. n : f[k] \in M }
  <2>1. 0 \in K
    BY <1>1, <1>9
  <2>2. \A k \in 1 .. n : k - 1 \in K => k \in K
    <3>1. ASSUME NEW k \in 1 .. n, f[k - 1] \in M PROVE f[k] \in M
      BY <1>1, <1>2, <1>10, <3>1, Zenon DEF Next1
    <3>2. \A k \in 1 .. n : k \in 0 .. n
      BY <1>1
    <3> QED
      BY <3>1, <3>2
  <2> HIDE DEF K
  <2>3. \A k \in 0 .. n : k \in K
    BY <1>1, <2>1, <2>2, FromZero
  <2> QED
    BY <2>3 DEF K
<1>12. f \in [0 .. n -> M]
  BY <1>11 DEF f
<1>13. ASSUME NEW k \in 1 .. n PROVE ReadsSource("Join", f[k - 1], f[k], s[k])
  <2>1. k - 1 \in 0 .. n
    BY <1>1
  <2>2. f[k - 1] \in Builders(N) /\ s[k] \in N
    BY <1>0, <1>1, <1>11, <2>1
  <2> QED
    BY <1>10, <2>2, JoinStep DEF Next1
<1> QED
  BY <1>0, <1>7, <1>9, <1>12, <1>13, Zenon DEF Runs

(* The addresses of the first n nodes, and what is right about them.       *)
Adrs(s, n) == { Adr(s[i]) : i \in 1 .. n }

GoodList(role, b, s, n) ==
  /\ \A i \in 1 .. n : IsAddress(s[i], "unicast") /\ Adr(s[i]) \notin b.sources
  /\ \A i, j \in 1 .. n : i # j => Adr(s[i]) # Adr(s[j])
  /\ role = "Prune" => n <= MaxPruneSGrptLen

WithSources(role, b, A) ==
  [group |-> b.group, errors |-> b.errors, sources |-> b.sources \cup A, rp |-> b.rp,
   prunes |-> IF role = "Prune" THEN b.prunes \cup A ELSE b.prunes,
   joins |-> IF role = "Join" THEN b.joins \cup A ELSE b.joins]

HasReadSources(role, b, c, s, n) ==
  /\ c.errors = {} <=> b.errors = {} /\ GoodList(role, b, s, n)
  /\ c.errors = {} => /\ c = WithSources(role, b, Adrs(s, n))
                      /\ IsFiniteSet(Adrs(s, n)) /\ Cardinality(Adrs(s, n)) = n

LEMMA GoodListGrows ==
  ASSUME NEW role, NEW b, NEW s, NEW n \in Nat, NEW k \in 1 .. n
  PROVE  /\ GoodList(role, b, s, k) <=>
              /\ GoodList(role, b, s, k - 1)
              /\ IsAddress(s[k], "unicast") /\ Adr(s[k]) \notin b.sources \cup Adrs(s, k - 1)
              /\ role = "Prune" => k <= MaxPruneSGrptLen
         /\ Adrs(s, k) = Adrs(s, k - 1) \cup {Adr(s[k])}
<1>1. 1 .. k = (1 .. k - 1) \cup {k} /\ k \notin 1 .. k - 1
  OBVIOUS
<1>2. Adrs(s, k) = Adrs(s, k - 1) \cup {Adr(s[k])}
  BY <1>1 DEF Adrs
<1>3. k \in Nat /\ k - 1 \in Int /\ (k <= MaxPruneSGrptLen => k - 1 <= MaxPruneSGrptLen)
  BY MaxPruneAssumption
<1>4. (\A i, j \in 1 .. k : i # j => Adr(s[i]) # Adr(s[j])) <=>
         /\ \A i, j \in 1 .. k - 1 : i # j => Adr(s[i]) # Adr(s[j])
         /\ \A i \in 1 .. k - 1 : Adr(s[i]) # Adr(s[k])
  BY <1>1, Zenon
<1>5. (\A i \in 1 .. k - 1 : Adr(s[i]) # Adr(s[k])) <=> Adr(s[k]) \notin Adrs(s, k - 1)
  BY Zenon DEF Adrs
<1>6. (\A i \in 1 .. k : IsAddress(s[i], "unicast") /\ Adr(s[i]) \notin b.sources) <=>
         /\ \A i \in 1 .. k - 1 : IsAddress(s[i], "unicast") /\ Adr(s[i]) \notin b.sources
         /\ IsAddress(s[k], "unicast") /\ Adr(s[k]) \notin b.sources
  BY <1>1, Zenon
<1>7. GoodList(role, b, s, k) <=>
        /\ GoodList(role, b, s, k - 1)
        /\ IsAddress(s[k], "unicast") /\ Adr(s[k]) \notin b.sources \cup Adrs(s, k - 1)
        /\ role = "Prune" => k <= MaxPruneSGrptLen
  BY <1>3, <1>4, <1>5, <1>6 DEF GoodList
<1> QED
  BY <1>2, <1>7

LEMMA ReadOneMore ==
  ASSUME NEW role \in {"Prune", "Join"}, NEW b, NEW c, NEW d, NEW s, NEW n \in Nat,
         NEW k \in 1 .. n, role = "Prune" => b.prunes = {},
         HasReadSources(role, b, c, s, k - 1), ReadsSource(role, c, d, s[k])
  PROVE  HasReadSources(role, b, d, s, k)
<1>1. /\ GoodList(role, b, s, k) <=>
           /\ GoodList(role, b, s, k - 1)
           /\ IsAddress(s[k], "unicast") /\ Adr(s[k]) \notin b.sources \cup Adrs(s, k - 1)
           /\ role = "Prune" => k <= MaxPruneSGrptLen
      /\ Adrs(s, k) = Adrs(s, k - 1) \cup {Adr(s[k])}
  BY GoodListGrows
<1>2. CASE c.errors # {}
  <2>1. d.errors # {}
    BY <1>2 DEF ReadsSource, WithSource
  <2> QED
    BY <1>1, <1>2, <2>1 DEF HasReadSources
<1>3. CASE c.errors = {}
  <2>1. /\ b.errors = {} /\ GoodList(role, b, s, k - 1)
        /\ c = WithSources(role, b, Adrs(s, k - 1))
        /\ IsFiniteSet(Adrs(s, k - 1)) /\ Cardinality(Adrs(s, k - 1)) = k - 1
    BY <1>3 DEF HasReadSources
  <2>2. c.sources = b.sources \cup Adrs(s, k - 1)
    BY <2>1 DEF WithSources
  <2>3. role = "Prune" => c.prunes = Adrs(s, k - 1)
    BY <2>1 DEF WithSources
  <2>4. Refused(role, c, s[k]) <=> ~GoodList(role, b, s, k)
    <3>1. role = "Prune" =>
            (Cardinality(c.prunes) >= MaxPruneSGrptLen <=> ~(k <= MaxPruneSGrptLen))
      BY <2>1, <2>3, MaxPruneAssumption
    <3> QED
      BY <1>1, <2>1, <2>2, <3>1 DEF Refused
  <2>5. CASE ~GoodList(role, b, s, k)
    BY <2>4, <2>5 DEF ReadsSource, HasReadSources
  <2>6. CASE GoodList(role, b, s, k)
    <3>1. d = WithSource(role, c, Adr(s[k]))
      BY <2>4, <2>6 DEF ReadsSource
    <3>2. d.errors = {}
      BY <1>3, <3>1 DEF WithSource
    <3>3. Adr(s[k]) \notin Adrs(s, k - 1)
      BY <1>1, <2>6
    <3>4. IsFiniteSet(Adrs(s, k)) /\ Cardinality(Adrs(s, k)) = k
      <4>1. Cardinality(Adrs(s, k)) = Cardinality(Adrs(s, k - 1)) + 1 /\ IsFiniteSet(Adrs(s, k))
        BY <1>1, <2>1, <3>3, FS_AddElement
      <4> QED
        BY <2>1, <4>1
    <3>5. d = WithSources(role, b, Adrs(s, k))
      <4>1. "RP" # "Prune" /\ "RP" # "Join"
        OBVIOUS
      <4>2. d = [group |-> c.group, errors |-> c.errors, sources |-> c.sources \cup {Adr(s[k])},
                 rp |-> c.rp,
                 prunes |-> IF role = "Prune" THEN c.prunes \cup {Adr(s[k])} ELSE c.prunes,
                 joins |-> IF role = "Join" THEN c.joins \cup {Adr(s[k])} ELSE c.joins]
        BY <3>1, <4>1 DEF WithSource
      <4>3. /\ c.group = b.group /\ c.errors = b.errors /\ c.rp = b.rp
            /\ c.prunes = IF role = "Prune" THEN b.prunes \cup Adrs(s, k - 1) ELSE b.prunes
            /\ c.joins = IF role = "Join" THEN b.joins \cup Adrs(s, k - 1) ELSE b.joins
        BY <2>1 DEF WithSources
      <4>4. c.sources \cup {Adr(s[k])} = b.sources \cup Adrs(s, k)
        BY <1>1, <2>2
      <4>5. /\ role = "Prune" => c.prunes \cup {Adr(s[k])} = b.prunes \cup Adrs(s, k)
            /\ role = "Join" => c.joins \cup {Adr(s[k])} = b.joins \cup Adrs(s, k)
        BY <1>1, <4>3
      <4> QED
        BY <4>2, <4>3, <4>4, <4>5 DEF WithSources
    <3> QED
      BY <2>1, <2>6, <3>2, <3>4, <3>5 DEF HasReadSources
  <2> QED
    BY <2>5, <2>6
<1> QED
  BY <1>2, <1>3

LEMMA ListRead ==
  ASSUME NEW N, NEW role \in {"Prune", "Join"}, NEW b \in Builders(N),
         role = "Prune" => b.prunes = {}, NEW n \in Nat, NEW s, NEW f, Runs(role, f, b, s, n)
  PROVE  HasReadSources(role, b, f[n], s, n)
<1> DEFINE K == { k \in 0 .. n : HasReadSources(role, b, f[k], s, k) }
<1>1. 0 \in K
  <2>1. 1 .. 0 = {} /\ 0 \in 0 .. n /\ 0 <= MaxPruneSGrptLen
    BY MaxPruneAssumption
  <2>2. Adrs(s, 0) = {} /\ GoodList(role, b, s, 0)
    BY <2>1 DEF Adrs, GoodList
  <2>3. IsFiniteSet(Adrs(s, 0)) /\ Cardinality(Adrs(s, 0)) = 0
    BY <2>2, FS_EmptySet
  <2>4. b = WithSources(role, b, {})
    BY DEF WithSources, Builders
  <2>5. f[0] = b
    BY DEF Runs
  <2>6. HasReadSources(role, b, f[0], s, 0)
    BY <2>2, <2>3, <2>4, <2>5 DEF HasReadSources
  <2> QED
    BY <2>1, <2>6
<1>2. \A k \in 1 .. n : k - 1 \in K => k \in K
  <2>1. ASSUME NEW k \in 1 .. n, k - 1 \in K PROVE k \in K
    <3>1. ReadsSource(role, f[k - 1], f[k], s[k])
      BY DEF Runs
    <3>2. HasReadSources(role, b, f[k], s, k)
      BY <2>1, <3>1, ReadOneMore
    <3> QED
      BY <3>2
  <2> QED
    BY <2>1
<1>3. n \in 0 .. n /\ \A k \in 0 .. n : k \in K
  <2> HIDE DEF K
  <2> QED
    BY <1>1, <1>2, FromZero
<1> QED
  BY <1>3
-----------------------------------------------------------------------------
Distinct(u) == \A i, j \in DOMAIN u : i # j => u[i] # u[j]

(* The sources of a list can join those that b has in the role.            *)
Joinable(role, b, u) ==
  /\ Distinct(u) /\ RangeOf(u) \cap b.sources = {}
  /\ role = "Prune" => Len(u) <= MaxPruneSGrptLen

ListLoaded(role, b, d, node) ==
  /\ d.errors = {} <=> b.errors = {} /\ IsSourceList(node) /\ Joinable(role, b, Sources(node))
  /\ d.errors = {} => d = WithSources(role, b, RangeOf(Sources(node)))

LEMMA SourcesFacts ==
  ASSUME NEW N, IsYaml(N), NEW node \in N, node.type = "Sequence"
  PROVE  /\ Len(node.items) \in Nat /\ DOMAIN node.items = 1 .. Len(node.items)
         /\ node.items \in Seq(N) /\ \A i \in DOMAIN node.items : node.items[i] \in N
         /\ DOMAIN Sources(node) = DOMAIN node.items /\ Len(Sources(node)) = Len(node.items)
         /\ \A i \in DOMAIN node.items : Sources(node)[i] = Adr(node.items[i])
         /\ RangeOf(Sources(node)) = Adrs(node.items, Len(node.items))
<1> PICK items : items = node.items
  OBVIOUS
<1>1. items \in Seq(N)
  BY DEF IsYaml
<1>2. Len(items) \in Nat /\ DOMAIN items = 1 .. Len(items) /\ \A i \in DOMAIN items : items[i] \in N
  BY <1>1
<1>3. Sources(node) = [i \in 1 .. Len(items) |-> Adr(items[i])]
  BY <1>2 DEF Sources, Adr
<1>4. /\ DOMAIN Sources(node) = 1 .. Len(items)
      /\ \A i \in 1 .. Len(items) : Sources(node)[i] = Adr(items[i])
  BY <1>3
<1>5. Len(Sources(node)) = Len(items)
  BY <1>2, <1>3
<1>6. RangeOf(Sources(node)) = Adrs(items, Len(items))
  BY <1>4, Zenon DEF RangeOf, Adrs
<1> QED
  BY <1>1, <1>2, <1>4, <1>5, <1>6

LEMMA ListIsLoaded ==
  ASSUME NEW N, IsYaml(N), NEW node \in N, node.type = "Sequence",
         NEW role, NEW b, NEW d, HasReadSources(role, b, d, node.items, Len(node.items))
  PROVE  ListLoaded(role, b, d, node)
<1> PICK n, u, items : n = Len(node.items) /\ u = Sources(node) /\ items = node.items
  OBVIOUS
<1>1. /\ n \in Nat /\ DOMAIN items = 1 .. n /\ DOMAIN u = 1 .. n /\ Len(u) = n
      /\ \A i \in 1 .. n : u[i] = Adr(items[i])
      /\ RangeOf(u) = Adrs(items, n)
  BY SourcesFacts
<1>2. GoodList(role, b, items, n) <=> IsSourceList(node) /\ Joinable(role, b, u)
  <2>1. IsSourceList(node) <=> \A i \in 1 .. n : IsAddress(items[i], "unicast")
    BY <1>1 DEF IsSourceList
  <2>2. RangeOf(u) \cap b.sources = {} <=> \A i \in 1 .. n : Adr(items[i]) \notin b.sources
    BY <1>1 DEF Adrs
  <2>3. Distinct(u) <=> \A i, j \in 1 .. n : i # j => Adr(items[i]) # Adr(items[j])
    <3>1. Distinct(u) <=> \A i, j \in 1 .. n : i # j => u[i] # u[j]
      BY <1>1 DEF Distinct
    <3> QED
      BY <1>1, <3>1
  <2> QED
    BY <1>1, <2>1, <2>2, <2>3 DEF GoodList, Joinable
<1> QED
  BY <1>1, <1>2 DEF HasReadSources, ListLoaded

LEMMA NoSequence ==
  ASSUME NEW N, IsYaml(N), NEW node \in N, node.type # "Sequence", NEW b \in Builders(N)
  PROVE  /\ getSequence(node).ok = FALSE
         /\ WithError(b, getSequence(node).error) \in Builders(N)
         /\ WithError(b, getSequence(node).error).errors # {}
         /\ ~IsSourceList(node)
<1>1. ErrorContext(node.type, "not a sequence") \in Errors(N)
  BY NodeErrors DEF Whats
<1>2. getSequence(node) = Fail(node.type, "not a sequence")
  BY DEF getSequence
<1>3. getSequence(node).ok = FALSE /\ getSequence(node).error \in Errors(N)
  BY <1>1, <1>2, FailFacts
<1> QED
  BY <1>3, OneErrorFacts DEF IsSourceList

LEMMA PruneListFacts ==
  ASSUME NEW N, IsYaml(N), NEW node \in N, NEW b \in Builders(N), b.prunes = {},
         NEW d, d = acceptList(b, getSequence(node), acceptPruneSGrpt)
  PROVE  d \in Builders(N) /\ ListLoaded("Prune", b, d, node)
<1>1. CASE node.type # "Sequence"
  <2>1. d = WithError(b, getSequence(node).error)
    BY <1>1, NoSequence DEF acceptList
  <2> QED
    BY <1>1, <2>1, NoSequence DEF ListLoaded
<1>2. CASE node.type = "Sequence"
  <2> PICK s : s = node.items
    OBVIOUS
  <2>1. s \in Seq(N) /\ Len(s) \in Nat /\ Len(s) \in 0 .. Len(s)
    BY <1>2, SourcesFacts
  <2>2. d = acceptList(b, Ok(s), acceptPruneSGrpt)
    BY <1>2 DEF getSequence
  <2>3. PICK f \in [0 .. Len(s) -> Builders(N)] :
          Runs("Prune", f, b, s, Len(s)) /\ f[Len(s)] = d
    BY <2>1, <2>2, PruneRuns
  <2>4. d \in Builders(N)
    BY <2>1, <2>3
  <2>5. HasReadSources("Prune", b, d, s, Len(s))
    BY <2>1, <2>3, ListRead
  <2> QED
    BY <1>2, <2>4, <2>5, ListIsLoaded
<1> QED
  BY <1>1, <1>2

LEMMA JoinListFacts ==
  ASSUME NEW N, IsYaml(N), NEW node \in N, NEW b \in Builders(N),
         NEW d, d = acceptList(b, getSequence(node), acceptJoinSG)
  PROVE  d \in Builders(N) /\ ListLoaded("Join", b, d, node)
<1>1. CASE node.type # "Sequence"
  <2>1. d = WithError(b, getSequence(node).error)
    BY <1>1, NoSequence DEF acceptList
  <2> QED
    BY <1>1, <2>1, NoSequence DEF ListLoaded
<1>2. CASE node.type = "Sequence"
  <2> PICK s : s = node.items
    OBVIOUS
  <2>1. s \in Seq(N) /\ Len(s) \in Nat /\ Len(s) \in 0 .. Len(s)
    BY <1>2, SourcesFacts
  <2>2. d = acceptList(b, Ok(s), acceptJoinSG)
    BY <1>2 DEF getSequence
  <2>3. PICK f \in [0 .. Len(s) -> Builders(N)] :
          Runs("Join", f, b, s, Len(s)) /\ f[Len(s)] = d
    BY <2>1, <2>2, JoinRuns
  <2>4. d \in Builders(N)
    BY <2>1, <2>3
  <2>5. HasReadSources("Join", b, d, s, Len(s))
    BY <2>1, <2>3, ListRead
  <2> QED
    BY <1>2, <2>4, <2>5, ListIsLoaded
<1> QED
  BY <1>1, <1>2
-----------------------------------------------------------------------------
LEMMA FirstType ==
  ASSUME NEW N, IsYaml(N), NEW node \in N, node.type = "Map", NEW field,
         Under(node.items, field) # {}
  PROVE  First(node.items, field) \in N
<1>1. Under(node.items, field) \in SUBSET (1 .. Len(node.items)) /\ Len(node.items) \in Nat
  BY PairFacts DEF Under
<1>2. PICK x : x = Sets!Min(Under(node.items, field))
  OBVIOUS
<1>3. x \in Under(node.items, field)
  BY <1>1, <1>2, FirstIn
<1>4. x \in DOMAIN node.items
  BY <1>3 DEF Under
<1> QED
  BY <1>2, <1>4, PairFacts DEF First

LEMMA ExtraneousErrors ==
  ASSUME NEW N, IsYaml(N), NEW node \in N, node.type = "Map", NEW known
  PROVE  extraneous(node.items, known) \in SUBSET Errors(N)
<1>1. ASSUME NEW i \in DOMAIN node.items
      PROVE  /\ ErrorContext(node.items[i].key.type, "bad key") \in Errors(N)
             /\ ErrorContext(node.items[i].key.text, "unrecognized field") \in Errors(N)
             /\ ErrorContext(node.items[i].key.text, "duplicate field") \in Errors(N)
  <2>1. node.items[i].key \in N
    BY PairFacts
  <2> QED
    BY <2>1, NodeErrors DEF Whats
<1> QED
  BY <1>1 DEF extraneous

LEMMA NoMapping ==
  ASSUME NEW N, IsYaml(N), NEW node \in N, node.type # "Map"
  PROVE  getMapping(node).ok = FALSE /\ getMapping(node).error \in Errors(N)
<1>1. ErrorContext(node.type, "not a mapping") \in Errors(N)
  BY NodeErrors DEF Whats
<1>2. getMapping(node) = Fail(node.type, "not a mapping")
  BY DEF getMapping
<1> QED
  BY <1>1, <1>2, FailFacts

LEMMA RPRead ==
  ASSUME NEW N, IsYaml(N), NEW node \in N, node.type = "Map", NEW b \in Builders(N),
         NEW d, d = acceptSource(b, flatMap(required(node.items, "RP"), scalarAddr), acceptRP)
  PROVE  /\ d \in Builders(N)
         /\ IF Under(node.items, "RP") = {} THEN d.errors # {}
            ELSE ReadsSource("RP", b, d, First(node.items, "RP"))
<1>1. CASE Under(node.items, "RP") = {}
  <2>1. required(node.items, "RP") = Fail("RP", "required")
    BY <1>1 DEF required
  <2>2. flatMap(required(node.items, "RP"), scalarAddr) = Fail("RP", "required")
    BY <2>1, FailFacts DEF flatMap
  <2>3. d = WithError(b, ErrorContext("RP", "required"))
    BY <2>2, FailFacts DEF acceptSource
  <2>4. ErrorContext("RP", "required") \in Errors(N)
    BY ErrorIn DEF Abouts, Whats
  <2> QED
    BY <1>1, <2>3, <2>4, OneErrorFacts
<1>2. CASE Under(node.items, "RP") # {}
  <2>1. required(node.items, "RP") = Ok(First(node.items, "RP"))
    BY <1>2 DEF required
  <2>2. flatMap(required(node.items, "RP"), scalarAddr) = scalarAddr(First(node.items, "RP"))
    BY <2>1 DEF flatMap, Ok
  <2>3. d = acceptSource(b, scalarAddr(First(node.items, "RP")), acceptRP)
    BY <2>2
  <2>4. d \in Builders(N) /\ ReadsSource("RP", b, d, First(node.items, "RP"))
    BY <1>2, <2>3, FirstType, RPStep
  <2> QED
    BY <1>2, <2>4
<1> QED
  BY <1>1, <1>2
PrunesIn(node) == IF "Prune" \in Keys(node) THEN Sources(At(node, "Prune")) ELSE << >>

RPIn(node) == Adr(At(node, "RP"))

RPTLoaded(b, d, node) ==
  LET withRP == WithSource("RP", b, RPIn(node)) IN
    /\ d.errors = {} <=> /\ b.errors = {} /\ IsRPT(node) /\ RPIn(node) \notin b.sources
                         /\ Joinable("Prune", withRP, PrunesIn(node))
    /\ d.errors = {} => d = WithSources("Prune", withRP, RangeOf(PrunesIn(node)))

LEMMA NothingToJoinList ==
  ASSUME NEW N, NEW b \in Builders(N), NEW role
  PROVE  /\ Joinable(role, b, << >>) /\ RangeOf(<< >>) = {}
         /\ WithSources(role, b, {}) = b
<1>1. DOMAIN << >> = {} /\ Len(<< >>) = 0 /\ RangeOf(<< >>) = {}
  BY DEF RangeOf
<1>2. Joinable(role, b, << >>)
  BY <1>1, MaxPruneAssumption DEF Joinable, Distinct
<1>3. WithSources(role, b, {}) = b
  BY DEF WithSources, Builders
<1> QED
  BY <1>1, <1>2, <1>3

(* c has read the RP of a "Join*" entry, e its prunes, d the whole of it.   *)
RPTRead(N, b, c, e, d, node) ==
  /\ c = acceptSource(b, flatMap(required(node.items, "RP"), scalarAddr), acceptRP)
  /\ c \in Builders(N) /\ e \in Builders(N) /\ d \in Builders(N)
  /\ IF Under(node.items, "Prune") = {} THEN e = c
     ELSE ListLoaded("Prune", c, e, First(node.items, "Prune"))
  /\ d = WithErrors(e, extraneous(node.items, {"RP", "Prune"}))

LEMMA RPTFieldsType ==
  ASSUME NEW N, IsYaml(N), NEW node \in N, node.type = "Map",
         NEW b \in Builders(N), b.prunes = {}, NEW d, d = loadRPTFields(b, node.items)
  PROVE  \E c, e : RPTRead(N, b, c, e, d, node)
<1> PICK c, e :
      /\ c = acceptSource(b, flatMap(required(node.items, "RP"), scalarAddr), acceptRP)
      /\ e = IF Under(node.items, "Prune") = {} THEN c
             ELSE acceptList(c, getSequence(First(node.items, "Prune")), acceptPruneSGrpt)
  OBVIOUS
<1>1. d = WithErrors(e, extraneous(node.items, {"RP", "Prune"}))
  BY DEF loadRPTFields, optionalField
<1>2. c \in Builders(N)
  BY RPRead
<1>3. c.prunes = {}
  <2>1. CASE Under(node.items, "RP") = {}
    <3>1. required(node.items, "RP") = Fail("RP", "required")
      BY <2>1 DEF required
    <3>2. flatMap(required(node.items, "RP"), scalarAddr) = Fail("RP", "required")
      BY <3>1, FailFacts DEF flatMap
    <3>3. c = WithError(b, ErrorContext("RP", "required"))
      BY <3>2, FailFacts DEF acceptSource
    <3> QED
      BY <3>3 DEF WithError, WithErrors, Builders
  <2>2. CASE Under(node.items, "RP") # {}
    <3>1. required(node.items, "RP") = Ok(First(node.items, "RP"))
      BY <2>2 DEF required
    <3>2. flatMap(required(node.items, "RP"), scalarAddr) = scalarAddr(First(node.items, "RP"))
      BY <3>1 DEF flatMap, Ok
    <3> PICK r : r = scalarAddr(First(node.items, "RP"))
      OBVIOUS
    <3>3. c = IF ~r.ok THEN WithError(b, r.error)
              ELSE IF r.value \in b.sources THEN WithError(b, ErrorContext(r.value, "duplicate"))
              ELSE acceptRP([b EXCEPT !.sources = @ \cup {r.value}], r.value)
      BY <3>2 DEF acceptSource, chkSrc
    <3>4. \A x : WithError(b, x).prunes = b.prunes
      BY DEF WithError, WithErrors, Builders
    <3>6. CASE ~r.ok
      BY <3>3, <3>4, <3>6
    <3>7. CASE r.ok /\ r.value \in b.sources
      BY <3>3, <3>4, <3>7
    <3>8. CASE r.ok /\ r.value \notin b.sources
      <4>1. c = acceptRP([b EXCEPT !.sources = b.sources \cup {r.value}], r.value)
        BY <3>3, <3>8
      <4>2. c = [[b EXCEPT !.sources = b.sources \cup {r.value}] EXCEPT !.rp = r.value]
        BY <4>1 DEF acceptRP
      <4>3. c.prunes = b.prunes
        BY <4>2 DEF Builders
      <4> QED
        BY <4>3
    <3> QED
      BY <3>6, <3>7, <3>8
  <2> QED
    BY <2>1, <2>2
<1>4. e \in Builders(N) /\
      IF Under(node.items, "Prune") = {} THEN e = c
      ELSE /\ First(node.items, "Prune") \in N
           /\ c.prunes = {} /\ ListLoaded("Prune", c, e, First(node.items, "Prune"))
  <2>1. CASE Under(node.items, "Prune") = {}
    BY <1>2, <2>1
  <2>2. CASE Under(node.items, "Prune") # {}
    <3>1. First(node.items, "Prune") \in N
      BY <2>2, FirstType
    <3>2. e \in Builders(N) /\ ListLoaded("Prune", c, e, First(node.items, "Prune"))
      BY <1>2, <1>3, <2>2, <3>1, PruneListFacts
    <3> QED
      BY <1>3, <2>2, <3>1, <3>2
  <2> QED
    BY <2>1, <2>2
<1>5. d \in Builders(N)
  BY <1>1, <1>4, ExtraneousErrors, WithErrorFacts
<1>6. RPTRead(N, b, c, e, d, node)
  BY <1>1, <1>2, <1>4, <1>5 DEF RPTRead
<1> QED
  BY <1>6, Zenon

LEMMA RPTFieldsFacts ==
  ASSUME NEW N, IsYaml(N), NEW node \in N, node.type = "Map",
         NEW b \in Builders(N), b.prunes = {}, NEW d, d = loadRPTFields(b, node.items)
  PROVE  d \in Builders(N) /\ RPTLoaded(b, d, node)
<1> PICK c, e : RPTRead(N, b, c, e, d, node)
  BY RPTFieldsType
<1>0. /\ c = acceptSource(b, flatMap(required(node.items, "RP"), scalarAddr), acceptRP)
      /\ c \in Builders(N) /\ e \in Builders(N) /\ d \in Builders(N)
      /\ IF Under(node.items, "Prune") = {} THEN e = c
         ELSE ListLoaded("Prune", c, e, First(node.items, "Prune"))
      /\ d = WithErrors(e, extraneous(node.items, {"RP", "Prune"}))
  BY DEF RPTRead
<1> SUFFICES RPTLoaded(b, d, node)
  BY <1>0
<1> DEFINE xs == extraneous(node.items, {"RP", "Prune"})
<1>1. IsRPT(node) => xs = {} /\ "RP" \in Keys(node)
  BY RecordFacts DEF IsRPT
<1>2. d.errors = e.errors \cup xs /\ (xs = {} => d = e)
  BY <1>0, ExtraneousErrors, WithErrorFacts
<1>3. CASE xs # {}
  BY <1>1, <1>2, <1>3 DEF RPTLoaded
<1>4. CASE xs = {}
  <2>1. /\ Under(node.items, "RP") = {} <=> "RP" \notin Keys(node)
        /\ Under(node.items, "Prune") = {} <=> "Prune" \notin Keys(node)
        /\ "RP" \in Keys(node) => First(node.items, "RP") = At(node, "RP")
        /\ "Prune" \in Keys(node) => First(node.items, "Prune") = At(node, "Prune")
    BY <1>4, FieldFacts
  <2>2. c.errors # {} => e.errors # {}
    BY <1>0 DEF ListLoaded
  <2>3. IsRPT(node) <=> /\ "RP" \in Keys(node) /\ IsAddress(At(node, "RP"), "unicast")
                        /\ "Prune" \in Keys(node) => IsSourceList(At(node, "Prune"))
    BY <1>4, RecordFacts DEF IsRPT
  <2>4. CASE "RP" \notin Keys(node)
    <3>1. c.errors # {}
      BY <1>0, <2>1, <2>4, RPRead
    <3> QED
      BY <1>2, <2>2, <2>3, <2>4, <3>1 DEF RPTLoaded
  <2>5. CASE "RP" \in Keys(node)
    <3> PICK rp, R : rp = At(node, "RP") /\ R = RPIn(node)
      OBVIOUS
    <3>1. ReadsSource("RP", b, c, rp) /\ R = Adr(rp) /\ rp \in N
      <4>1. Under(node.items, "RP") # {} /\ First(node.items, "RP") = rp
        BY <2>1, <2>5
      <4>2. ReadsSource("RP", b, c, First(node.items, "RP"))
        BY <1>0, <4>1, RPRead
      <4> QED
        BY <2>5, <4>1, <4>2, AtIn DEF RPIn
    <3>2. Refused("RP", b, rp) <=> ~IsAddress(rp, "unicast") \/ R \in b.sources
      BY <3>1 DEF Refused
    <3>3. CASE Refused("RP", b, rp)
      <4>1. c.errors # {}
        BY <3>1, <3>3 DEF ReadsSource
      <4>2. ~IsRPT(node) \/ R \in b.sources
        BY <2>3, <3>2, <3>3
      <4> QED
        BY <1>2, <2>2, <4>1, <4>2 DEF RPTLoaded
    <3>4. CASE ~Refused("RP", b, rp)
      <4>1. c = WithSource("RP", b, R) /\ c.errors = b.errors
        BY <3>1, <3>4 DEF ReadsSource, WithSource
      <4>2. IsRPT(node) <=> ("Prune" \in Keys(node) => IsSourceList(At(node, "Prune")))
        BY <2>3, <2>5, <3>2, <3>4
      <4>3. d = e /\ R \notin b.sources
        BY <1>2, <1>4, <3>2, <3>4
      <4>4. CASE "Prune" \notin Keys(node)
        <5>1. e = c /\ PrunesIn(node) = << >>
          BY <1>0, <2>1, <4>4 DEF PrunesIn
        <5>2. Joinable("Prune", c, << >>) /\ c = WithSources("Prune", c, RangeOf(<< >>))
          BY <1>0, NothingToJoinList
        <5> QED
          BY <4>1, <4>2, <4>3, <4>4, <5>1, <5>2 DEF RPTLoaded
      <4>5. CASE "Prune" \in Keys(node)
        <5>1. ListLoaded("Prune", c, e, At(node, "Prune")) /\ PrunesIn(node) = Sources(At(node, "Prune"))
          BY <1>0, <2>1, <4>5 DEF PrunesIn
        <5> QED
          BY <4>1, <4>2, <4>3, <4>5, <5>1 DEF RPTLoaded, ListLoaded
      <4> QED
        BY <4>4, <4>5
    <3> QED
      BY <3>3, <3>4
  <2> QED
    BY <2>4, <2>5
<1> QED
  BY <1>3, <1>4

LEMMA RPTFacts ==
  ASSUME NEW N, IsYaml(N), NEW node \in N, NEW b \in Builders(N), b.prunes = {},
         NEW d, d = loadRPTConfig(b, getMapping(node))
  PROVE  d \in Builders(N) /\ RPTLoaded(b, d, node)
<1>1. CASE node.type # "Map"
  <2>1. d = WithError(b, getMapping(node).error)
    BY <1>1, NoMapping DEF loadRPTConfig
  <2>2. ~IsRPT(node)
    BY <1>1 DEF IsRPT, IsRecord
  <2> QED
    BY <1>1, <2>1, <2>2, NoMapping, OneErrorFacts DEF RPTLoaded
<1>2. CASE node.type = "Map"
  <2>1. d = loadRPTFields(b, node.items)
    BY <1>2 DEF loadRPTConfig, getMapping, Ok
  <2> QED
    BY <1>2, <2>1, RPTFieldsFacts
<1> QED
  BY <1>1, <1>2
-----------------------------------------------------------------------------
(* What the addresses of two lists have to do with those of both.          *)
Joined(w, u, v) ==
  /\ RangeOf(w) = RangeOf(u) \cup RangeOf(v)
  /\ Distinct(w) <=> Distinct(u) /\ Distinct(v) /\ RangeOf(u) \cap RangeOf(v) = {}

LEMMA ConcatFacts ==
  ASSUME NEW S, NEW u \in Seq(S), NEW v \in Seq(S), NEW w, w = u \o v
  PROVE  w \in Seq(S) /\ Joined(w, u, v)
<1> PICK m \in Nat, n \in Nat : m = Len(u) /\ n = Len(v)
  OBVIOUS
<1>1. /\ w \in Seq(S) /\ DOMAIN u = 1 .. m /\ DOMAIN v = 1 .. n /\ DOMAIN w = 1 .. m + n
      /\ \A i \in 1 .. m : w[i] = u[i]
      /\ \A i \in 1 .. n : w[m + i] = v[i]
  OBVIOUS
<1>2. \A i \in 1 .. m + n : i \in 1 .. m \/ (i - m \in 1 .. n /\ w[i] = v[i - m])
  <2>1. ASSUME NEW i \in 1 .. m + n, i \notin 1 .. m
        PROVE  i - m \in 1 .. n /\ w[i] = v[i - m]
    <3>1. i - m \in 1 .. n /\ m + (i - m) = i
      BY <2>1
    <3>2. w[m + (i - m)] = v[i - m]
      BY <1>1, <3>1
    <3> QED
      BY <3>1, <3>2
  <2> QED
    BY <2>1
<1>3. RangeOf(w) = RangeOf(u) \cup RangeOf(v)
  <2>1. ASSUME NEW i \in 1 .. m + n PROVE w[i] \in RangeOf(u) \cup RangeOf(v)
    BY <1>1, <1>2 DEF RangeOf
  <2>2. ASSUME NEW i \in 1 .. m PROVE u[i] \in RangeOf(w)
    <3>1. i \in 1 .. m + n /\ w[i] = u[i]
      BY <1>1
    <3> QED
      BY <1>1, <3>1 DEF RangeOf
  <2>3. ASSUME NEW i \in 1 .. n PROVE v[i] \in RangeOf(w)
    <3>1. m + i \in 1 .. m + n /\ w[m + i] = v[i]
      BY <1>1
    <3> QED
      BY <1>1, <3>1 DEF RangeOf
  <2>4. /\ RangeOf(w) = { w[i] : i \in 1 .. m + n }
        /\ RangeOf(u) = { u[i] : i \in 1 .. m } /\ RangeOf(v) = { v[i] : i \in 1 .. n }
    BY <1>1 DEF RangeOf
  <2>5. \A x \in RangeOf(w) : x \in RangeOf(u) \cup RangeOf(v)
    BY <2>1, <2>4
  <2>6. \A x \in RangeOf(u) \cup RangeOf(v) : x \in RangeOf(w)
    BY <2>2, <2>3, <2>4
  <2> QED
    BY <2>5, <2>6
<1>4. ASSUME Distinct(w)
      PROVE  Distinct(u) /\ Distinct(v) /\ RangeOf(u) \cap RangeOf(v) = {}
  <2>1. \A i, j \in 1 .. m + n : i # j => w[i] # w[j]
    BY <1>1, <1>4 DEF Distinct
  <2>2. ASSUME NEW i \in 1 .. m, NEW j \in 1 .. m, i # j PROVE u[i] # u[j]
    <3>1. i \in 1 .. m + n /\ j \in 1 .. m + n
      OBVIOUS
    <3> QED
      BY <1>1, <2>1, <2>2, <3>1
  <2>3. ASSUME NEW i \in 1 .. n, NEW j \in 1 .. n, i # j PROVE v[i] # v[j]
    <3>1. m + i \in 1 .. m + n /\ m + j \in 1 .. m + n /\ m + i # m + j
      BY <2>3
    <3>2. w[m + i] # w[m + j]
      BY <2>1, <3>1
    <3>3. w[m + i] = v[i] /\ w[m + j] = v[j]
      BY <1>1
    <3> QED
      BY <3>2, <3>3
  <2>4. ASSUME NEW i \in 1 .. m, NEW j \in 1 .. n PROVE u[i] # v[j]
    <3>1. i \in 1 .. m + n /\ m + j \in 1 .. m + n /\ i # m + j
      OBVIOUS
    <3> QED
      BY <1>1, <2>1, <3>1, SMTT(30)
  <2> QED
    BY <1>1, <2>2, <2>3, <2>4 DEF Distinct, RangeOf
<1>5. ASSUME Distinct(u), Distinct(v), RangeOf(u) \cap RangeOf(v) = {}
      PROVE  Distinct(w)
  <2>1. /\ \A i, j \in 1 .. m : i # j => u[i] # u[j]
        /\ \A i, j \in 1 .. n : i # j => v[i] # v[j]
        /\ \A i \in 1 .. m : \A j \in 1 .. n : u[i] # v[j]
    <3>1. /\ \A i, j \in 1 .. m : i # j => u[i] # u[j]
          /\ \A i, j \in 1 .. n : i # j => v[i] # v[j]
      BY <1>1, <1>5 DEF Distinct
    <3>2. /\ \A i \in 1 .. m : u[i] \in RangeOf(u)
          /\ \A j \in 1 .. n : v[j] \in RangeOf(v)
      BY <1>1 DEF RangeOf
    <3>3. \A i \in 1 .. m : \A j \in 1 .. n : u[i] # v[j]
      BY <1>5, <3>2
    <3> QED
      BY <3>1, <3>3
  <2>2. ASSUME NEW i \in 1 .. m + n, NEW j \in 1 .. m + n, i # j PROVE w[i] # w[j]
    <3>1. CASE i \in 1 .. m /\ j \in 1 .. m
      BY <1>1, <2>1, <2>2, <3>1
    <3>2. CASE i \in 1 .. m /\ j \notin 1 .. m
      BY <1>1, <1>2, <2>1, <3>2
    <3>3. CASE i \notin 1 .. m /\ j \in 1 .. m
      BY <1>1, <1>2, <2>1, <3>3
    <3>4. CASE i \notin 1 .. m /\ j \notin 1 .. m
      <4>1. i - m # j - m
        BY <2>2
      <4> QED
        BY <1>2, <2>1, <3>4, <4>1
    <3> QED
      BY <3>1, <3>2, <3>3, <3>4
  <2> QED
    BY <1>1, <2>2 DEF Distinct
<1> QED
  BY <1>1, <1>3, <1>4, <1>5 DEF Joined

(* What a group must have from its "Join*" entry and from its "Join" entry. *)
GoodRPT(node) ==
  LET rpt == At(node, "Join*") IN
    /\ IsRPT(rpt) /\ Distinct(PrunesOf(node)) /\ RPIn(rpt) \notin RangeOf(PrunesOf(node))
    /\ Len(PrunesOf(node)) <= MaxPruneSGrptLen

LEMMA SourcesType ==
  ASSUME NEW N, IsYaml(N), NEW node \in N, IsSourceList(node)
  PROVE  Sources(node) \in Seq(Addresses)
<1>1. node.type = "Sequence" /\ \A i \in DOMAIN node.items : IsAddress(node.items[i], "unicast")
  BY DEF IsSourceList
<1>2. \A i \in DOMAIN node.items : AddressOf[node.items[i].text] \in Addresses
  BY <1>1, TextsAssumption DEF IsAddress, Addresses
<1>3. DOMAIN node.items = 1 .. Len(node.items) /\ Len(node.items) \in Nat
  BY <1>1, SourcesFacts
<1> QED
  BY <1>2, <1>3 DEF Sources

(* The parts of IsGroup(), with the condition on all the addresses split.  *)
LEMMA GroupParts ==
  ASSUME NEW N, IsYaml(N), NEW node \in N
  PROVE  IsGroup(node) <=>
           /\ IsRecord(node, {"Join*", "Join"}, {}) /\ Keys(node) # {}
           /\ "Join*" \in Keys(node) => GoodRPT(node)
           /\ "Join" \in Keys(node) =>
                /\ IsSourceList(At(node, "Join")) /\ Distinct(JoinsOf(node))
                /\ RangeOf(JoinsOf(node)) \cap (RangeOf(RPOf(node)) \cup RangeOf(PrunesOf(node))) = {}
<1> DEFINE R == RPOf(node) P == PrunesOf(node) J == JoinsOf(node)
<1>1. SUFFICES ASSUME IsRecord(node, {"Join*", "Join"}, {}),
                      "Join*" \in Keys(node) => IsRPT(At(node, "Join*")),
                      "Join" \in Keys(node) => IsSourceList(At(node, "Join"))
               PROVE  Distinct(R \o P \o J) /\ Len(P) <= MaxPruneSGrptLen <=>
                        /\ "Join*" \in Keys(node) => GoodRPT(node)
                        /\ "Join" \in Keys(node) =>
                             /\ Distinct(J) /\ RangeOf(J) \cap (RangeOf(R) \cup RangeOf(P)) = {}
  BY DEF IsGroup, GoodRPT, Distinct
<1>2. node.type = "Map"
  BY <1>1 DEF IsRecord
<1>3. R \in Seq(Addresses) /\ P \in Seq(Addresses)
  <2>1. CASE "Join*" \notin Keys(node)
    BY <2>1 DEF RPOf, PrunesOf
  <2>2. CASE "Join*" \in Keys(node)
    <3> PICK rpt : rpt = At(node, "Join*")
      OBVIOUS
    <3>1. rpt \in N /\ IsRPT(rpt) /\ rpt.type = "Map" /\ "RP" \in Keys(rpt)
      BY <1>1, <1>2, <2>2, AtIn DEF IsRPT, IsRecord
    <3>2. AddressOf[At(rpt, "RP").text] \in Addresses
      BY <3>1, TextsAssumption DEF IsRPT, IsAddress, Addresses
    <3>3. R \in Seq(Addresses)
      BY <2>2, <3>2 DEF RPOf
    <3>4. P \in Seq(Addresses)
      <4>1. CASE "Prune" \in Keys(rpt)
        <5>1. IsSourceList(At(rpt, "Prune")) /\ At(rpt, "Prune") \in N
          BY <3>1, <4>1, AtIn DEF IsRPT
        <5> QED
          BY <2>2, <4>1, <5>1, SourcesType DEF PrunesOf
      <4>2. CASE "Prune" \notin Keys(rpt)
        BY <2>2, <4>2 DEF PrunesOf
      <4> QED
        BY <4>1, <4>2
    <3> QED
      BY <3>3, <3>4
  <2> QED
    BY <2>1, <2>2
<1>4. J \in Seq(Addresses)
  <2>1. CASE "Join" \notin Keys(node)
    BY <2>1 DEF JoinsOf
  <2>2. CASE "Join" \in Keys(node)
    BY <1>1, <1>2, <2>2, AtIn, SourcesType DEF JoinsOf
  <2> QED
    BY <2>1, <2>2
<1>5. "Join*" \in Keys(node) => RangeOf(R) = {RPIn(At(node, "Join*"))} /\ Distinct(R)
  BY DEF RPOf, RangeOf, Distinct, RPIn, Adr
<1>6. "Join*" \notin Keys(node) => R = << >> /\ P = << >>
  BY DEF RPOf, PrunesOf
<1>7. "Join" \notin Keys(node) => J = << >>
  BY DEF JoinsOf
<1>8. Distinct(<< >>) /\ RangeOf(<< >>) = {} /\ Len(<< >>) <= MaxPruneSGrptLen
  BY MaxPruneAssumption DEF Distinct, RangeOf
<1> HIDE DEF R, P, J
<1>9. /\ Distinct(R \o P) <=> Distinct(R) /\ Distinct(P) /\ RangeOf(R) \cap RangeOf(P) = {}
      /\ R \o P \in Seq(Addresses) /\ RangeOf(R \o P) = RangeOf(R) \cup RangeOf(P)
  <2>1. R \o P \in Seq(Addresses) /\ Joined(R \o P, R, P)
    BY ONLY <1>3, ConcatFacts, Zenon
  <2> QED
    BY ONLY <2>1 DEF Joined
<1>10. Distinct(R \o P \o J) <=>
         Distinct(R \o P) /\ Distinct(J) /\ RangeOf(R \o P) \cap RangeOf(J) = {}
  <2>1. Joined(R \o P \o J, R \o P, J)
    BY ONLY <1>4, <1>9, ConcatFacts, Zenon
  <2> QED
    BY ONLY <2>1 DEF Joined
<1>11. "Join*" \in Keys(node) =>
         (GoodRPT(node) <=> /\ Distinct(P) /\ RangeOf(R) \cap RangeOf(P) = {}
                            /\ Len(P) <= MaxPruneSGrptLen)
  BY <1>1, <1>5 DEF GoodRPT, P
<1>12. CASE "Join*" \in Keys(node) /\ "Join" \in Keys(node)
  BY <1>5, <1>9, <1>10, <1>11, <1>12
<1>13. CASE "Join*" \in Keys(node) /\ "Join" \notin Keys(node)
  BY <1>5, <1>7, <1>8, <1>9, <1>10, <1>11, <1>13
<1>14. CASE "Join*" \notin Keys(node) /\ "Join" \in Keys(node)
  BY <1>6, <1>8, <1>9, <1>10, <1>14
<1>15. CASE "Join*" \notin Keys(node) /\ "Join" \notin Keys(node)
  BY <1>6, <1>7, <1>8, <1>9, <1>10, <1>15
<1> QED
  BY <1>12, <1>13, <1>14, <1>15
-----------------------------------------------------------------------------
RPValue(node) == IF RPOf(node) = << >> THEN NoAddress ELSE RPOf(node)[1]

(* c has read the "Join*" entry of a group that has one, e the other.      *)
RptPartRead(g, c, node) ==
  /\ c.errors = {} <=> ("Join*" \in Keys(node) => GoodRPT(node))
  /\ c.errors = {} =>
       c = [group |-> g, errors |-> {}, rp |-> RPValue(node),
            sources |-> RangeOf(RPOf(node)) \cup RangeOf(PrunesOf(node)),
            prunes |-> RangeOf(PrunesOf(node)), joins |-> {}]

LEMMA NewBuilder ==
  ASSUME NEW N, NEW g \in Addresses, NEW b, b = GroupConfigBuilder(g)
  PROVE  /\ b \in Builders(N) /\ b.prunes = {} /\ b.errors = {} /\ b.sources = {}
         /\ b.group = g /\ b.rp = NoAddress /\ b.joins = {}
BY DEF GroupConfigBuilder, Builders

LEMMA RptPartType ==
  ASSUME NEW N, IsYaml(N), NEW node \in N, node.type = "Map", NEW b \in Builders(N),
         b.prunes = {}, NEW c, c = loadRptPart(b, node.items)
  PROVE  /\ c \in Builders(N)
         /\ IF Under(node.items, "Join*") = {} THEN c = b
            ELSE RPTLoaded(b, c, First(node.items, "Join*"))
<1>1. CASE Under(node.items, "Join*") = {}
  BY <1>1 DEF loadRptPart, optionalField
<1>2. CASE Under(node.items, "Join*") # {}
  <2> PICK rpt : rpt = First(node.items, "Join*")
    OBVIOUS
  <2>1. c = loadRPTConfig(b, getMapping(rpt))
    BY <1>2 DEF loadRptPart, optionalField
  <2>2. rpt \in N
    BY <1>2, FirstType
  <2> QED
    BY <1>2, <2>1, <2>2, RPTFacts
<1> QED
  BY <1>1, <1>2

LEMMA SptPartType ==
  ASSUME NEW N, IsYaml(N), NEW node \in N, node.type = "Map", NEW c \in Builders(N),
         NEW e, e = loadSptPart(c, node.items)
  PROVE  /\ e \in Builders(N)
         /\ IF Under(node.items, "Join") = {} THEN e = c
            ELSE ListLoaded("Join", c, e, First(node.items, "Join"))
<1>1. CASE Under(node.items, "Join") = {}
  BY <1>1 DEF loadSptPart, optionalField
<1>2. CASE Under(node.items, "Join") # {}
  <2> PICK spt : spt = First(node.items, "Join")
    OBVIOUS
  <2>1. e = acceptList(c, getSequence(spt), acceptJoinSG)
    BY <1>2 DEF loadSptPart, loadSPTConfig, optionalField
  <2>2. spt \in N
    BY <1>2, FirstType
  <2> QED
    BY <1>2, <2>1, <2>2, JoinListFacts
<1> QED
  BY <1>1, <1>2

LEMMA RptPartFacts ==
  ASSUME NEW N, IsYaml(N), NEW node \in N, node.type = "Map", NEW g \in Addresses,
         NEW known, extraneous(node.items, known) = {},
         NEW c, c = loadRptPart(GroupConfigBuilder(g), node.items)
  PROVE  RptPartRead(g, c, node)
<1> PICK b : b = GroupConfigBuilder(g)
  OBVIOUS
<1>1. /\ b \in Builders(N) /\ b.prunes = {} /\ b.errors = {} /\ b.sources = {}
      /\ b.group = g /\ b.rp = NoAddress /\ b.joins = {}
  BY NewBuilder
<1>2. IF Under(node.items, "Join*") = {} THEN c = b
      ELSE RPTLoaded(b, c, First(node.items, "Join*"))
  BY <1>1, RptPartType
<1>3. CASE "Join*" \notin Keys(node)
  <2>1. c = b
    BY <1>2, <1>3, FieldFacts
  <2>2. RPOf(node) = << >> /\ PrunesOf(node) = << >> /\ RangeOf(<< >>) = {}
    BY <1>3 DEF RPOf, PrunesOf, RangeOf
  <2>3. RPValue(node) = NoAddress
    BY <2>2 DEF RPValue
  <2>4. b = [group |-> g, errors |-> {}, rp |-> NoAddress, sources |-> {}, prunes |-> {},
             joins |-> {}]
    BY DEF GroupConfigBuilder
  <2> QED
    BY <1>1, <1>3, <2>1, <2>2, <2>3, <2>4 DEF RptPartRead
<1>4. CASE "Join*" \in Keys(node)
  <2> PICK rpt, R, P : rpt = At(node, "Join*") /\ R = RPIn(rpt) /\ P = PrunesOf(node)
    OBVIOUS
  <2>1. RPTLoaded(b, c, rpt)
    BY <1>2, <1>4, FieldFacts
  <2>2. PrunesIn(rpt) = P
    BY <1>4 DEF PrunesIn, PrunesOf
  <2>3. RPOf(node) = << R >>
    BY <1>4 DEF RPOf, RPIn, Adr
  <2>4. RPValue(node) = R /\ RangeOf(RPOf(node)) = {R}
    BY <2>3 DEF RPValue, RangeOf
  <2> PICK w : w = WithSource("RP", b, R)
    OBVIOUS
  <2>5. /\ w.group = g /\ w.errors = {} /\ w.sources = {R} /\ w.rp = R
        /\ w.prunes = {} /\ w.joins = {}
    BY <1>1 DEF WithSource
  <2>6. Joinable("Prune", w, P) <=> /\ Distinct(P) /\ R \notin RangeOf(P)
                                    /\ Len(P) <= MaxPruneSGrptLen
    BY <2>5 DEF Joinable
  <2>7. c.errors = {} <=> GoodRPT(node)
    BY <1>1, <2>1, <2>2, <2>6 DEF RPTLoaded, GoodRPT
  <2>8. ASSUME c.errors = {}
        PROVE  c = [group |-> g, errors |-> {}, rp |-> R, sources |-> {R} \cup RangeOf(P),
                    prunes |-> RangeOf(P), joins |-> {}]
    <3>1. c = WithSources("Prune", w, RangeOf(P))
      BY <2>1, <2>2, <2>8 DEF RPTLoaded
    <3>2. "Prune" # "Join"
      OBVIOUS
    <3>3. c = [group |-> w.group, errors |-> w.errors, sources |-> w.sources \cup RangeOf(P),
               rp |-> w.rp, prunes |-> w.prunes \cup RangeOf(P), joins |-> w.joins]
      BY <3>1, <3>2 DEF WithSources
    <3>4. w.prunes \cup RangeOf(P) = RangeOf(P)
      BY <2>5
    <3> QED
      BY <2>5, <3>3, <3>4
  <2> QED
    BY <1>4, <2>4, <2>7, <2>8 DEF RptPartRead
<1> QED
  BY <1>3, <1>4

Meaning(g, node) ==
  [group |-> g, rp |-> RPValue(node), prunes |-> RangeOf(PrunesOf(node)),
   joins |-> RangeOf(JoinsOf(node))]

(* A group is loaded without error exactly if it is one, and means what it *)
(* is built to.                                                            *)
LEMMA GroupFacts ==
  ASSUME NEW N, IsYaml(N), NEW node \in N, NEW g \in Addresses,
         NEW d, d = loadGroupConfig(GroupConfigBuilder(g), getMapping(node))
  PROVE  /\ d \in Builders(N)
         /\ d.errors = {} <=> IsGroup(node)
         /\ d.errors = {} => d.group = g /\ buildGroup(d) = Meaning(g, node)
<1> PICK b : b = GroupConfigBuilder(g)
  OBVIOUS
<1>1. /\ b \in Builders(N) /\ b.prunes = {} /\ b.errors = {} /\ b.sources = {}
      /\ b.group = g /\ b.rp = NoAddress /\ b.joins = {}
  BY NewBuilder
<1>2. CASE node.type # "Map"
  <2>1. d = WithError(b, getMapping(node).error)
    BY <1>2, NoMapping DEF loadGroupConfig
  <2>2. ~IsGroup(node)
    BY <1>2 DEF IsGroup, IsRecord
  <2> QED
    BY <1>1, <1>2, <2>1, <2>2, NoMapping, OneErrorFacts
<1>3. CASE node.type = "Map"
  <2> PICK c, e, bad, empty :
        /\ c = loadRptPart(b, node.items) /\ e = loadSptPart(c, node.items)
        /\ bad = extraneous(node.items, {"Join*", "Join"})
        /\ empty = IF Under(node.items, "Join*") \cup Under(node.items, "Join") = {}
                   THEN {ErrorContext(g, "empty")} ELSE {}
    OBVIOUS
  <2>1. d = WithErrors(e, bad \cup empty)
    BY <1>1, <1>3 DEF loadGroupConfig, getMapping, Ok
  <2>2. c \in Builders(N) /\ e \in Builders(N)
    BY <1>1, <1>3, RptPartType, SptPartType
  <2>3. bad \in SUBSET Errors(N) /\ empty \in SUBSET Errors(N)
    <3>1. ErrorContext(g, "empty") \in Errors(N)
      BY ErrorIn DEF Abouts, Whats
    <3> QED
      BY <1>3, <3>1, ExtraneousErrors
  <2>4. /\ d \in Builders(N) /\ d.errors = e.errors \cup (bad \cup empty)
        /\ bad \cup empty = {} => d = e
    BY <2>1, <2>2, <2>3, WithErrorFacts
  <2>5. CASE bad # {}
    <3>1. ~IsRecord(node, {"Join*", "Join"}, {})
      BY <2>5, RecordFacts
    <3> QED
      BY <2>4, <2>5, <3>1 DEF IsGroup
  <2>6. CASE bad = {}
    <3>1. /\ Under(node.items, "Join*") = {} <=> "Join*" \notin Keys(node)
          /\ Under(node.items, "Join") = {} <=> "Join" \notin Keys(node)
          /\ "Join" \in Keys(node) => First(node.items, "Join") = At(node, "Join")
      BY <1>3, <2>6, FieldFacts
    <3>2. IsRecord(node, {"Join*", "Join"}, {})
      BY <1>3, <2>6, RecordFacts
    <3>3. Keys(node) = {} <=> "Join*" \notin Keys(node) /\ "Join" \notin Keys(node)
      BY <3>2 DEF IsRecord
    <3>4. empty = {} <=> Keys(node) # {}
      BY <3>1, <3>3
    <3>5. RptPartRead(g, c, node)
      BY <1>3, <2>6, RptPartFacts
    <3>6. IF "Join" \notin Keys(node) THEN e = c ELSE ListLoaded("Join", c, e, At(node, "Join"))
      BY <1>3, <2>2, <3>1, SptPartType
    <3> PICK S, J : S = RangeOf(RPOf(node)) \cup RangeOf(PrunesOf(node)) /\ J = JoinsOf(node)
      OBVIOUS
    <3>7. "Join" \in Keys(node) => J = Sources(At(node, "Join"))
      BY DEF JoinsOf
    <3>8. c.errors = {} =>
            (e.errors = {} <=>
               ("Join" \in Keys(node) => /\ IsSourceList(At(node, "Join")) /\ Distinct(J)
                                         /\ RangeOf(J) \cap S = {}))
      <4>1. c.errors = {} => c.sources = S
        BY <3>5 DEF RptPartRead
      <4>2. "Join" # "Prune"
        OBVIOUS
      <4> QED
        BY <3>6, <3>7, <4>1, <4>2 DEF ListLoaded, Joinable
    <3>9. c.errors # {} => e.errors # {}
      BY <3>6 DEF ListLoaded
    <3>10. c.errors = {} <=> ("Join*" \in Keys(node) => GoodRPT(node))
      BY <3>5 DEF RptPartRead
    <3>11. d.errors = {} <=> IsGroup(node)
      BY <2>4, <2>6, <3>2, <3>4, <3>8, <3>9, <3>10, GroupParts
    <3>12. ASSUME d.errors = {}
           PROVE  d.group = g /\ buildGroup(d) = Meaning(g, node)
      <4>1. d = e /\ e.errors = {} /\ c.errors = {}
        BY <2>4, <3>9, <3>12
      <4>2. c = [group |-> g, errors |-> {}, rp |-> RPValue(node), sources |-> S,
                 prunes |-> RangeOf(PrunesOf(node)), joins |-> {}]
        BY <3>5, <4>1 DEF RptPartRead
      <4>3. /\ c.group = g /\ c.rp = RPValue(node) /\ c.prunes = RangeOf(PrunesOf(node))
            /\ c.joins = {}
        BY <4>2
      <4>4. /\ e.group = g /\ e.rp = RPValue(node) /\ e.prunes = RangeOf(PrunesOf(node))
            /\ e.joins = RangeOf(J)
        <5>1. CASE "Join" \notin Keys(node)
          <6>1. J = << >> /\ RangeOf(<< >>) = {}
            BY <5>1 DEF JoinsOf, RangeOf
          <6> QED
            BY <3>6, <4>3, <5>1, <6>1
        <5>2. CASE "Join" \in Keys(node)
          <6>1. e = WithSources("Join", c, RangeOf(J))
            BY <3>6, <3>7, <4>1, <5>2 DEF ListLoaded
          <6>2. "Join" # "Prune" /\ {} \cup RangeOf(J) = RangeOf(J)
            OBVIOUS
          <6> QED
            BY <4>3, <6>1, <6>2 DEF WithSources
        <5> QED
          BY <5>1, <5>2
      <4>5. RPValue(node) = NoAddress => RangeOf(PrunesOf(node)) = {}
        <5>1. CASE "Join*" \notin Keys(node)
          <6>1. PrunesOf(node) = << >>
            BY <5>1 DEF PrunesOf
          <6> QED
            BY <6>1 DEF RangeOf
        <5>2. CASE "Join*" \in Keys(node)
          <6>1. IsAddress(At(At(node, "Join*"), "RP"), "unicast")
            BY <3>10, <4>1, <5>2 DEF GoodRPT, IsRPT
          <6>2. Adr(At(At(node, "Join*"), "RP")) \in Addresses
            BY <6>1, TextsAssumption DEF IsAddress, Addresses, Adr
          <6>3. RPOf(node) = << Adr(At(At(node, "Join*"), "RP")) >>
            BY <5>2 DEF RPOf, Adr
          <6>4. RPValue(node) \in Addresses
            BY <6>2, <6>3 DEF RPValue
          <6> QED
            BY <6>4, TextsAssumption DEF Addresses
        <5> QED
          BY <5>1, <5>2
      <4>6. buildGroup(e) = [group |-> e.group, rp |-> e.rp, joins |-> e.joins,
                             prunes |-> IF e.rp = NoAddress THEN {} ELSE e.prunes]
        BY DEF buildGroup
      <4>7. (IF e.rp = NoAddress THEN {} ELSE e.prunes) = RangeOf(PrunesOf(node))
        BY <4>4, <4>5
      <4> QED
        BY <4>1, <4>4, <4>6, <4>7 DEF Meaning
    <3> QED
      BY <2>4, <3>11, <3>12
  <2> QED
    BY <2>5, <2>6
<1> QED
  BY <1>2, <1>3
-----------------------------------------------------------------------------
Pairs(N) == [key : N, value : N]

(* What the loop over the groups can have collected.                       *)
Accs(N) == [groups : Seq(Builders(N)), errors : SUBSET Errors(N)]

GoodPair(p) == IsAddress(p.key, "mcast") /\ IsGroup(p.value)

ReadsGroup(c, d, p) ==
  /\ d.errors = {} <=> /\ c.errors = {} /\ GoodPair(p)
                       /\ \A k \in DOMAIN c.groups : c.groups[k].group # Adr(p.key)
  /\ d.errors = {} => \E x : /\ x.group = Adr(p.key)
                             /\ buildGroup(x) = Meaning(Adr(p.key), p.value)
                             /\ d.groups = Append(c.groups, x)

LEMMA NoGroupsType == ASSUME NEW N PROVE NoGroups \in Accs(N)
<1>1. << >> \in Seq(Builders(N))
  OBVIOUS
<1> QED
  BY <1>1 DEF NoGroups, Accs

LEMMA AccErrorFacts ==
  ASSUME NEW N, NEW c \in Accs(N), NEW e \in Errors(N)
  PROVE  WithError(c, e) \in Accs(N) /\ WithError(c, e).errors # {}
<1>1. PICK G : G = Seq(Builders(N))
  OBVIOUS
<1>2. c \in [groups : G, errors : SUBSET Errors(N)]
  BY <1>1 DEF Accs
<1>3. WithError(c, e) = [c EXCEPT !.errors = c.errors \cup {e}]
  BY DEF WithError, WithErrors
<1>4. WithError(c, e) \in [groups : G, errors : SUBSET Errors(N)] /\ WithError(c, e).errors # {}
  BY <1>2, <1>3
<1> QED
  BY <1>1, <1>4 DEF Accs

LEMMA GroupStep ==
  ASSUME NEW N, IsYaml(N), NEW c \in Accs(N), NEW p \in Pairs(N),
         NEW d, d = loadGroup(c, flatMap(getScalar(p.key), grpAddr), p.value)
  PROVE  d \in Accs(N) /\ ReadsGroup(c, d, p)
<1> PICK g : g = flatMap(getScalar(p.key), grpAddr)
  OBVIOUS
<1>1. p.key \in N /\ p.value \in N
  BY DEF Pairs
<1>2. CASE ~IsAddress(p.key, "mcast")
  <2>1. ~g.ok /\ g.error \in Errors(N)
    BY <1>1, <1>2, GroupAddressFacts
  <2>2. d = WithError(c, g.error)
    BY <2>1 DEF loadGroup
  <2> QED
    BY <1>2, <2>1, <2>2, AccErrorFacts DEF ReadsGroup, GoodPair
<1>3. CASE IsAddress(p.key, "mcast")
  <2> PICK a : a = Adr(p.key)
    OBVIOUS
  <2>1. g.ok /\ g.value = a /\ a \in Addresses
    BY <1>1, <1>3, GroupAddressFacts
  <2>2. CASE \E k \in DOMAIN c.groups : c.groups[k].group = a
    <3>1. d = WithError(c, ErrorContext(a, "duplicate group"))
      BY <2>1, <2>2 DEF loadGroup
    <3>2. ErrorContext(a, "duplicate group") \in Errors(N)
      BY <2>1, ErrorIn DEF Abouts, Whats
    <3> QED
      BY <2>2, <3>1, <3>2, AccErrorFacts DEF ReadsGroup
  <2>3. CASE ~\E k \in DOMAIN c.groups : c.groups[k].group = a
    <3> PICK b : b = loadGroupConfig(GroupConfigBuilder(a), getMapping(p.value))
      OBVIOUS
    <3>1. d = AddGroup(c, b)
      BY <2>1, <2>3 DEF loadGroup
    <3>2. /\ b \in Builders(N)
          /\ b.errors = {} <=> IsGroup(p.value)
          /\ b.errors = {} => b.group = a /\ buildGroup(b) = Meaning(a, p.value)
      BY <1>1, <2>1, GroupFacts
    <3>3. d.groups = Append(c.groups, b) /\ d.errors = c.errors \cup b.errors
      BY <3>1 DEF AddGroup
    <3>4. d \in Accs(N)
      <4>1. c.groups \in Seq(Builders(N)) /\ c.errors \in SUBSET Errors(N)
        BY DEF Accs
      <4>2. Append(c.groups, b) \in Seq(Builders(N))
        <5> PICK B, u : B = Builders(N) /\ u = c.groups
          OBVIOUS
        <5>1. b \in B /\ u \in Seq(B)
          BY <3>2, <4>1
        <5>2. Append(u, b) \in Seq(B)
          BY <5>1
        <5> QED
          BY <5>2
      <4>3. b.errors \in SUBSET Errors(N)
        BY <3>2, BuilderFields
      <4>4. c.errors \cup b.errors \in SUBSET Errors(N)
        BY <4>1, <4>3
      <4>5. d = [groups |-> Append(c.groups, b), errors |-> c.errors \cup b.errors]
        BY <3>1 DEF AddGroup
      <4> PICK G, E : G = Seq(Builders(N)) /\ E = SUBSET Errors(N)
        OBVIOUS
      <4>6. d \in [groups : G, errors : E]
        BY <4>2, <4>4, <4>5
      <4> QED
        BY <4>6 DEF Accs
    <3>5. d.errors = {} <=> c.errors = {} /\ GoodPair(p)
      BY <1>3, <3>2, <3>3 DEF GoodPair
    <3>6. d.errors = {} => b.group = a /\ buildGroup(b) = Meaning(a, p.value)
      BY <3>2, <3>3
    <3> QED
      BY <2>3, <3>3, <3>4, <3>5, <3>6 DEF ReadsGroup
  <2> QED
    BY <2>2, <2>3
<1> QED
  BY <1>2, <1>3

(* f runs over what is collected while the first n pairs of s are read.    *)
GroupRuns(f, s, n) ==
  f[0] = NoGroups /\ \A k \in 1 .. n : ReadsGroup(f[k - 1], f[k], s[k])

LEMMA MulticastRuns ==
  ASSUME NEW N, IsYaml(N), NEW s \in Seq(Pairs(N)), s # << >>
  PROVE  \E f \in [0 .. Len(s) -> Accs(N)] :
           /\ GroupRuns(f, s, Len(s))
           /\ f[Len(s)] = loadMulticastConfig(Ok(s))
<1>0. PICK n, M, P, b : n = Len(s) /\ M = Accs(N) /\ P = Pairs(N) /\ b = NoGroups
  OBVIOUS
<1>1. n \in Nat /\ DOMAIN s = 1 .. n /\ b \in M /\ \A k \in 1 .. n : s[k] \in P
  BY <1>0, NoGroupsType
<1>2. \A c \in M, node \in P : loadGroup(c, flatMap(getScalar(node.key), grpAddr), node.value) \in M
  BY <1>0, GroupStep
<1>3. PICK F \in [M \X P -> M] :
        \A c \in M, node \in P : F[<<c, node>>] = loadGroup(c, flatMap(getScalar(node.key), grpAddr), node.value)
  <2> DEFINE F == [p \in M \X P |-> loadGroup(p[1], flatMap(getScalar(p[2].key), grpAddr), p[2].value)]
  <2>1. /\ F \in [M \X P -> M]
        /\ \A c \in M, node \in P : F[<<c, node>>] = loadGroup(c, flatMap(getScalar(node.key), grpAddr), node.value)
    BY <1>2
  <2> QED
    BY <2>1, Zenon
<1>4. PICK g \in [SUBSET (1 .. n) -> M] : FoldsBy(g, F, b, s, n)
  <2>1. F \in [M \X P -> M] /\ b \in M /\ n \in Nat /\ s \in [1 .. n -> P]
    BY <1>1
  <2> QED
    BY <2>1, FoldExists, Zenon
<1> DEFINE Next1(c, node) == loadGroup(c, flatMap(getScalar(node.key), grpAddr), node.value)
           Eq(h) == h = [S \in SUBSET (1 .. n) |->
                           IF S = {} THEN b
                           ELSE Next1(h[S \ {Lists!Max(S)}], s[Lists!Max(S)])]
           h0 == CHOOSE h : Eq(h)
<1>5. Eq(g)
  <2> HIDE DEF Next1
  <2>1. ASSUME NEW S \in SUBSET (1 .. n)
        PROVE  g[S] = IF S = {} THEN b ELSE Next1(g[S \ {Lists!Max(S)}], s[Lists!Max(S)])
    <3>1. CASE S = {}
      BY <1>4, <3>1, Zenon DEF FoldsBy
    <3>2. CASE S # {}
      <4> PICK x : x = Lists!Max(S)
        OBVIOUS
      <4>1. x \in 1 .. n
        BY <1>1, <3>2, MaxIn
      <4>2. s[x] \in P /\ g[S \ {x}] \in M
        BY <1>1, <1>4, <4>1
      <4>3. g[S] = F[<<g[S \ {x}], s[x]>>]
        BY <1>4, <3>2, Zenon DEF FoldsBy
      <4> QED
        BY <1>3, <3>2, <4>2, <4>3, Zenon DEF Next1
    <3> QED
      BY <3>1, <3>2
  <2> QED
    BY <1>4, <2>1
<1>6. Eq(h0)
  BY <1>5
<1>7. loadMulticastConfig(Ok(s)) = h0[1 .. n]
  BY <1>0, <1>1 DEF loadMulticastConfig, Ok, Lists!FoldLeft, Lists!MapThenFoldSet
<1> HIDE DEF h0, Next1
<1>8. \A S \in SUBSET (1 .. n) :
        h0[S] = IF S = {} THEN b ELSE Next1(h0[S \ {Lists!Max(S)}], s[Lists!Max(S)])
  BY <1>6
<1> DEFINE f == [k \in 0 .. n |-> h0[1 .. k]]
<1>9. f[0] = b /\ f[n] = h0[1 .. n]
  <2>1. 1 .. 0 = {} /\ {} \in SUBSET (1 .. n) /\ 0 \in 0 .. n /\ n \in 0 .. n
    BY <1>1
  <2> QED
    BY <1>8, <2>1
<1>10. ASSUME NEW k \in 1 .. n PROVE f[k] = Next1(f[k - 1], s[k])
  <2>1. k \in Nat \ {0} /\ 1 .. k \in SUBSET (1 .. n) /\ k - 1 \in 0 .. n /\ k \in 0 .. n
    BY <1>1
  <2>2. Lists!Max(1 .. k) = k /\ (1 .. k) \ {k} = 1 .. k - 1 /\ 1 .. k # {}
    BY <2>1, FoldSteps
  <2>3. h0[1 .. k] = Next1(h0[1 .. k - 1], s[k])
    BY <1>8, <2>1, <2>2
  <2> QED
    BY <2>1, <2>3
<1> HIDE DEF f
<1>11. \A k \in 0 .. n : f[k] \in M
  <2> DEFINE K == { k \in 0 .. n : f[k] \in M }
  <2>1. 0 \in K
    BY <1>1, <1>9
  <2>2. \A k \in 1 .. n : k - 1 \in K => k \in K
    <3>1. ASSUME NEW k \in 1 .. n, f[k - 1] \in M PROVE f[k] \in M
      BY <1>1, <1>2, <1>10, <3>1, ZenonT(40) DEF Next1
    <3>2. \A k \in 1 .. n : k \in 0 .. n
      BY <1>1
    <3> QED
      BY <3>1, <3>2
  <2> HIDE DEF K
  <2>3. \A k \in 0 .. n : k \in K
    BY <1>1, <2>1, <2>2, FromZero
  <2> QED
    BY <2>3 DEF K
<1>12. f \in [0 .. n -> M]
  BY <1>11 DEF f
<1>13. ASSUME NEW k \in 1 .. n PROVE ReadsGroup(f[k - 1], f[k], s[k])
  <2>1. k - 1 \in 0 .. n
    BY <1>1
  <2>2. f[k - 1] \in Accs(N) /\ s[k] \in Pairs(N)
    BY <1>0, <1>1, <1>11, <2>1
  <2> QED
    BY <1>10, <2>2, GroupStep DEF Next1
<1> QED
  BY <1>0, <1>7, <1>9, <1>12, <1>13, Zenon DEF GroupRuns

GoodGroups(s, n) ==
  /\ \A i \in 1 .. n : GoodPair(s[i])
  /\ \A i, j \in 1 .. n : i # j => Adr(s[i].key) # Adr(s[j].key)

HasReadGroups(c, s, n) ==
  /\ c.errors = {} <=> GoodGroups(s, n)
  /\ c.errors = {} =>
       /\ Len(c.groups) = n
       /\ \A k \in 1 .. n : /\ c.groups[k].group = Adr(s[k].key)
                            /\ buildGroup(c.groups[k]) = Meaning(Adr(s[k].key), s[k].value)

LEMMA GroupsGrow ==
  ASSUME NEW s, NEW n \in Nat, NEW k \in 1 .. n
  PROVE  GoodGroups(s, k) <=> /\ GoodGroups(s, k - 1) /\ GoodPair(s[k])
                              /\ \A i \in 1 .. k - 1 : Adr(s[i].key) # Adr(s[k].key)
<1>1. 1 .. k = (1 .. k - 1) \cup {k} /\ k \notin 1 .. k - 1
  OBVIOUS
<1>2. (\A i \in 1 .. k : GoodPair(s[i])) <=> (\A i \in 1 .. k - 1 : GoodPair(s[i])) /\ GoodPair(s[k])
  BY <1>1, Zenon
<1>3. (\A i, j \in 1 .. k : i # j => Adr(s[i].key) # Adr(s[j].key)) <=>
        /\ \A i, j \in 1 .. k - 1 : i # j => Adr(s[i].key) # Adr(s[j].key)
        /\ \A i \in 1 .. k - 1 : Adr(s[i].key) # Adr(s[k].key)
  BY <1>1, Zenon
<1> QED
  BY <1>2, <1>3 DEF GoodGroups

LEMMA GroupsOneMore ==
  ASSUME NEW N, NEW c \in Accs(N), NEW d \in Accs(N), NEW s, NEW n \in Nat, NEW k \in 1 .. n,
         HasReadGroups(c, s, k - 1), ReadsGroup(c, d, s[k])
  PROVE  HasReadGroups(d, s, k)
<1>1. GoodGroups(s, k) <=> /\ GoodGroups(s, k - 1) /\ GoodPair(s[k])
                           /\ \A i \in 1 .. k - 1 : Adr(s[i].key) # Adr(s[k].key)
  BY GroupsGrow
<1>2. c.groups \in Seq(Builders(N))
  BY DEF Accs
<1>3. CASE c.errors # {}
  BY <1>1, <1>3 DEF HasReadGroups, ReadsGroup
<1>4. CASE c.errors = {}
  <2>1. /\ GoodGroups(s, k - 1) /\ Len(c.groups) = k - 1
        /\ \A i \in 1 .. k - 1 :
             /\ c.groups[i].group = Adr(s[i].key)
             /\ buildGroup(c.groups[i]) = Meaning(Adr(s[i].key), s[i].value)
    BY <1>4 DEF HasReadGroups
  <2>2. DOMAIN c.groups = 1 .. k - 1
    BY <1>2, <2>1
  <2>3. d.errors = {} <=> GoodGroups(s, k)
    <3>1. (\A i \in DOMAIN c.groups : c.groups[i].group # Adr(s[k].key)) <=>
             \A i \in 1 .. k - 1 : Adr(s[i].key) # Adr(s[k].key)
      BY <2>1, <2>2
    <3> QED
      BY <1>1, <1>4, <2>1, <3>1 DEF ReadsGroup
  <2>4. ASSUME d.errors = {}
        PROVE  /\ Len(d.groups) = k
               /\ \A i \in 1 .. k :
                    /\ d.groups[i].group = Adr(s[i].key)
                    /\ buildGroup(d.groups[i]) = Meaning(Adr(s[i].key), s[i].value)
    <3>1. PICK x : /\ x.group = Adr(s[k].key)
                   /\ buildGroup(x) = Meaning(Adr(s[k].key), s[k].value)
                   /\ d.groups = Append(c.groups, x)
      BY <2>4 DEF ReadsGroup
    <3> PICK u, v, m : u = c.groups /\ v = d.groups /\ m = k - 1
      OBVIOUS
    <3>2. /\ Len(v) = m + 1 /\ v[m + 1] = x /\ \A i \in 1 .. m : v[i] = u[i]
      BY <1>2, <2>1, <3>1
    <3>3. m + 1 = k /\ 1 .. k = (1 .. k - 1) \cup {k}
      OBVIOUS
    <3>4. \A i \in 1 .. k - 1 : v[i] = u[i]
      BY <3>2
    <3> QED
      BY <2>1, <3>1, <3>2, <3>3, <3>4
  <2> QED
    BY <2>3, <2>4 DEF HasReadGroups
<1> QED
  BY <1>3, <1>4

LEMMA GroupsRead ==
  ASSUME NEW N, NEW n \in Nat, NEW s, NEW f \in [0 .. n -> Accs(N)], GroupRuns(f, s, n)
  PROVE  HasReadGroups(f[n], s, n)
<1> DEFINE K == { k \in 0 .. n : HasReadGroups(f[k], s, k) }
<1>1. 0 \in K
  <2>1. 1 .. 0 = {} /\ 0 \in 0 .. n
    OBVIOUS
  <2>2. GoodGroups(s, 0)
    BY <2>1 DEF GoodGroups
  <2>3. f[0].errors = {} /\ Len(f[0].groups) = 0
    BY DEF GroupRuns, NoGroups
  <2>4. HasReadGroups(f[0], s, 0)
    BY <2>1, <2>2, <2>3 DEF HasReadGroups
  <2> QED
    BY <2>1, <2>4
<1>2. \A k \in 1 .. n : k - 1 \in K => k \in K
  <2>1. ASSUME NEW k \in 1 .. n, k - 1 \in K PROVE k \in K
    <3>1. ReadsGroup(f[k - 1], f[k], s[k])
      BY DEF GroupRuns
    <3>2. f[k - 1] \in Accs(N) /\ f[k] \in Accs(N) /\ k \in 0 .. n
      BY <2>1
    <3>3. HasReadGroups(f[k], s, k)
      BY <2>1, <3>1, <3>2, GroupsOneMore
    <3> QED
      BY <3>2, <3>3
  <2> QED
    BY <2>1
<1>3. n \in 0 .. n /\ \A k \in 0 .. n : k \in K
  <2> HIDE DEF K
  <2> QED
    BY <1>1, <1>2, FromZero
<1> QED
  BY <1>3

(* The multicast section is loaded without error exactly if it is one.     *)
LEMMA MulticastFacts ==
  ASSUME NEW N, IsYaml(N), NEW node \in N, NEW d, d = loadJPConfig(node)
  PROVE  /\ d.errors = {} <=> IsMulticast(node)
         /\ d.errors = {} =>
              d.value = [i \in DOMAIN node.items |-> GroupMeaning(node.items[i])]
<1> PICK c : c = loadMulticastConfig(getMapping(node))
  OBVIOUS
<1>1. /\ d.errors = c.errors
      /\ d.value = [k \in DOMAIN c.groups |-> buildGroup(c.groups[k])]
  BY DEF loadJPConfig, buildGroups
<1>2. CASE node.type # "Map"
  <2>1. c = WithError(NoGroups, getMapping(node).error)
    BY <1>2, NoMapping DEF loadMulticastConfig
  <2>2. c.errors # {}
    BY <1>2, <2>1, NoMapping, NoGroupsType, AccErrorFacts
  <2> QED
    BY <1>1, <1>2, <2>2 DEF IsMulticast
<1>3. CASE node.type = "Map" /\ node.items = << >>
  <2>1. c = WithError(NoGroups, ErrorContext("", "no groups"))
    BY <1>3 DEF loadMulticastConfig, getMapping, Ok
  <2>2. ErrorContext("", "no groups") \in Errors(N)
    BY ErrorIn DEF Abouts, Whats
  <2>3. c.errors # {}
    BY <2>1, <2>2, NoGroupsType, AccErrorFacts
  <2> QED
    BY <1>1, <1>3, <2>3 DEF IsMulticast
<1>4. CASE node.type = "Map" /\ node.items # << >>
  <2> PICK s, n : s = node.items /\ n = Len(s)
    OBVIOUS
  <2>1. s \in Seq(Pairs(N)) /\ s # << >>
    BY <1>4 DEF IsYaml, Pairs
  <2>2. n \in Nat /\ DOMAIN s = 1 .. n /\ n \in 0 .. n
    BY <2>1
  <2>3. c = loadMulticastConfig(Ok(s))
    BY <1>4 DEF getMapping
  <2>4. PICK f \in [0 .. n -> Accs(N)] : GroupRuns(f, s, n) /\ f[n] = c
    BY <2>1, <2>3, MulticastRuns
  <2>5. HasReadGroups(c, s, n) /\ c.groups \in Seq(Builders(N))
    <3>1. c \in Accs(N)
      BY <2>2, <2>4
    <3>2. HasReadGroups(c, s, n)
      BY <2>2, <2>4, GroupsRead
    <3>3. c.groups \in Seq(Builders(N))
      BY <3>1 DEF Accs
    <3> QED
      BY <3>2, <3>3
  <2>6. GoodGroups(s, n) <=> IsMulticast(node)
    <3>1. IsMulticast(node)
            <=> /\ \A i \in DOMAIN s : GoodPair(s[i])
                /\ \A i, j \in DOMAIN s : i # j => Adr(s[i].key) # Adr(s[j].key)
      BY ONLY <1>4, s = node.items DEF IsMulticast, GoodPair, Adr
    <3>2. DOMAIN s = 1 .. n
      BY <2>2
    <3> QED
      BY ONLY <3>1, <3>2 DEF GoodGroups
  <2>7. ASSUME c.errors = {}
        PROVE  d.value = [i \in DOMAIN s |-> GroupMeaning(s[i])]
    <3>1. /\ Len(c.groups) = n
          /\ \A k \in 1 .. n : buildGroup(c.groups[k]) = Meaning(Adr(s[k].key), s[k].value)
      BY <2>5, <2>7 DEF HasReadGroups
    <3>2. DOMAIN c.groups = DOMAIN s
      BY <2>2, <2>5, <3>1
    <3>3. \A k \in 1 .. n : buildGroup(c.groups[k]) = GroupMeaning(s[k])
      BY <3>1 DEF GroupMeaning, Meaning, RPValue, Adr
    <3> QED
      BY <1>1, <2>2, <3>2, <3>3
  <2> QED
    BY <1>1, <2>5, <2>6, <2>7 DEF HasReadGroups
<1> QED
  BY <1>2, <1>3, <1>4
-----------------------------------------------------------------------------
(* A required field, of a record that extraneous() has let pass.           *)
LEMMA RequiredFacts ==
  ASSUME NEW N, IsYaml(N), NEW node \in N, node.type = "Map", NEW known,
         extraneous(node.items, known) = {}, NEW field, NEW r, r = required(node.items, field)
  PROVE  IF field \in Keys(node)
         THEN r.ok = TRUE /\ r.value = At(node, field) /\ At(node, field) \in N
         ELSE r.ok = FALSE
<1>1. CASE field \notin Keys(node)
  <2>1. r = Fail(field, "required")
    BY <1>1, FieldFacts, Zenon DEF required
  <2> QED
    BY <1>1, <2>1, FailFacts
<1>2. CASE field \in Keys(node)
  <2>1. r = Ok(At(node, field))
    BY <1>2, FieldFacts, Zenon DEF required
  <2> QED
    BY <1>2, <2>1, AtIn DEF Ok
<1> QED
  BY <1>1, <1>2

PIMValue(node) ==
  [neighbor |-> Adr(At(node, "neighbor")), intfName |-> At(node, "interface").text,
   intfAddr |-> IntfTable[At(node, "interface").text]]

NeighborIn(items) == flatMap(required(items, "neighbor"), scalarAddr)
InterfaceIn(items) == flatMap(flatMap(required(items, "interface"), getScalar), interface)

LEMMA NeighborFacts ==
  ASSUME NEW N, IsYaml(N), NEW node \in N, node.type = "Map", NEW known,
         extraneous(node.items, known) = {}, NEW r, r = NeighborIn(node.items)
  PROVE  /\ r.ok <=> "neighbor" \in Keys(node) /\ IsAddress(At(node, "neighbor"), "unicast")
         /\ r.ok => r.value = Adr(At(node, "neighbor"))
<1> PICK q : q = required(node.items, "neighbor")
  OBVIOUS
<1>1. CASE "neighbor" \notin Keys(node)
  <2>1. q.ok = FALSE
    BY <1>1, RequiredFacts
  <2>2. r = q
    BY <2>1 DEF NeighborIn, flatMap
  <2> QED
    BY <1>1, <2>1, <2>2
<1>2. CASE "neighbor" \in Keys(node)
  <2>1. q.ok = TRUE /\ q.value = At(node, "neighbor") /\ At(node, "neighbor") \in N
    BY <1>2, RequiredFacts
  <2>2. r = scalarAddr(At(node, "neighbor"))
    BY <2>1 DEF NeighborIn, flatMap
  <2> QED
    BY <1>2, <2>1, <2>2, AddressFacts
<1> QED
  BY <1>1, <1>2

LEMMA InterfaceFacts ==
  ASSUME NEW N, IsYaml(N), NEW node \in N, node.type = "Map", NEW known,
         extraneous(node.items, known) = {}, NEW r, r = InterfaceIn(node.items),
         NEW at, at = At(node, "interface")
  PROVE  /\ r.ok <=> /\ "interface" \in Keys(node) /\ at.type = "Scalar"
                     /\ at.text \in DOMAIN IntfTable /\ IntfTable[at.text] # NoAddress
         /\ r.ok => r.value = at.text
<1> PICK q : q = required(node.items, "interface")
  OBVIOUS
<1>1. CASE "interface" \notin Keys(node)
  <2>1. q.ok = FALSE
    BY <1>1, RequiredFacts
  <2>2. r = q
    BY <2>1 DEF InterfaceIn, flatMap
  <2> QED
    BY <1>1, <2>1, <2>2
<1>2. CASE "interface" \in Keys(node)
  <2>1. q.ok = TRUE /\ q.value = at
    BY <1>2, RequiredFacts
  <2>2. r = flatMap(getScalar(at), interface)
    BY <2>1 DEF InterfaceIn, flatMap
  <2>3. CASE at.type # "Scalar"
    <3>1. r = Fail(at.type, "not a scalar")
      BY <2>2, <2>3 DEF flatMap, getScalar, Fail
    <3> QED
      BY <2>3, <3>1, FailFacts
  <2>4. CASE at.type = "Scalar"
    <3>1. r = interface(at.text)
      BY <2>2, <2>4 DEF flatMap, getScalar, Ok
    <3>2. CASE at.text \in DOMAIN IntfTable /\ IntfTable[at.text] # NoAddress
      <4>1. r = Ok(at.text)
        BY <3>1, <3>2 DEF interface
      <4> QED
        BY <1>2, <2>4, <3>2, <4>1 DEF Ok
    <3>3. CASE ~(at.text \in DOMAIN IntfTable /\ IntfTable[at.text] # NoAddress)
      <4>1. PICK what : r = Fail(at.text, what)
        BY <3>1, <3>3 DEF interface
      <4>2. r.ok = FALSE
        BY ONLY <4>1, FailFacts, Zenon
      <4> QED
        BY <3>3, <4>2
    <3> QED
      BY <3>2, <3>3
  <2> QED
    BY <2>3, <2>4
<1> QED
  BY <1>1, <1>2

LEMMA ChkFacts ==
  ASSUME NEW r
  PROVE  chk(r) = {} <=> r.ok
BY DEF chk

LEMMA FailedFacts ==
  ASSUME NEW e
  PROVE  Failed(e).errors # {}
BY DEF Failed

(* The pim section is loaded without error exactly if it is one.           *)
LEMMA PIMFacts ==
  ASSUME NEW N, IsYaml(N), NEW node \in N, NEW d, d = loadPIMSMConfig(getMapping(node))
  PROVE  /\ d.errors = {} <=> IsPIM(node)
         /\ d.errors = {} => d.value = PIMValue(node)
<1> DEFINE fields == {"neighbor", "interface"}
           bad == extraneous(node.items, fields)
<1>1. CASE node.type # "Map"
  <2>1. d = Failed(getMapping(node).error)
    BY <1>1, NoMapping DEF loadPIMSMConfig
  <2> QED
    BY <1>1, <2>1, FailedFacts DEF IsPIM, IsRecord
<1>2. CASE node.type = "Map"
  <2> PICK nb, intf, unwanted :
        nb = NeighborIn(node.items) /\ intf = InterfaceIn(node.items) /\ unwanted = bad
    OBVIOUS
  <2>1. d = buildPIMSM(nb, intf, unwanted)
    BY <1>2 DEF loadPIMSMConfig, getMapping, Ok, NeighborIn, InterfaceIn
  <2>2. d.errors = {} <=> nb.ok /\ intf.ok /\ unwanted = {}
    BY <2>1, ChkFacts DEF buildPIMSM
  <2>3. nb.ok /\ intf.ok => d.value = [neighbor |-> nb.value, intfName |-> intf.value,
                                       intfAddr |-> IntfTable[intf.value]]
    BY <2>1 DEF buildPIMSM
  <2>4. IsRecord(node, fields, fields) <=>
          unwanted = {} /\ "neighbor" \in Keys(node) /\ "interface" \in Keys(node)
    BY <1>2, RecordFacts
  <2>5. CASE unwanted # {}
    BY <2>2, <2>4, <2>5 DEF IsPIM
  <2>6. CASE unwanted = {}
    <3>1. /\ nb.ok <=> "neighbor" \in Keys(node) /\ IsAddress(At(node, "neighbor"), "unicast")
          /\ nb.ok => nb.value = Adr(At(node, "neighbor"))
      BY <1>2, <2>6, NeighborFacts
    <3>2. /\ intf.ok <=> /\ "interface" \in Keys(node) /\ At(node, "interface").type = "Scalar"
                         /\ At(node, "interface").text \in DOMAIN IntfTable
                         /\ IntfTable[At(node, "interface").text] # NoAddress
          /\ intf.ok => intf.value = At(node, "interface").text
      BY <1>2, <2>6, InterfaceFacts
    <3>3. d.errors = {} <=> IsPIM(node)
      BY <2>2, <2>4, <2>6, <3>1, <3>2 DEF IsPIM
    <3> QED
      BY <2>2, <2>3, <3>1, <3>2, <3>3 DEF PIMValue
  <2> QED
    BY <2>5, <2>6
<1> QED
  BY <1>1, <1>2
-----------------------------------------------------------------------------
LevelValue(node) ==
  IF "level" \in Keys(node) THEN LevelOf[At(node, "level").text] ELSE "Info"
DirValue(node) == IF "dir" \in Keys(node) THEN At(node, "dir").text ELSE NoDir

LevelIn(items) ==
  optionalField(items, "level", Ok("Info"), LAMBDA n : flatMap(getScalar(n), getLevel))
DirIn(items) ==
  optionalField(items, "dir", Ok(NoDir), LAMBDA n : flatMap(getScalar(n), getDir))

(* Every item of a record is the value of its field.                       *)
LEMMA ItemAt ==
  ASSUME NEW N, IsYaml(N), NEW node \in N, node.type = "Map", NEW known,
         extraneous(node.items, known) = {}
  PROVE  \A i \in DOMAIN node.items :
           /\ node.items[i].key.text \in known /\ node.items[i].key.text \in Keys(node)
           /\ At(node, node.items[i].key.text) = node.items[i].value
<1> DEFINE D == DOMAIN node.items
           key(i) == node.items[i].key
           text(i) == key(i).text
<1>0. /\ \A i \in D : key(i).type = "Scalar" /\ key(i).text \in known /\ key(i) \in N
      /\ \A i, j \in D : i # j => key(i) # key(j) /\ key(i).text # key(j).text
  BY FieldsKnown, Zenon
<1>1. /\ \A i \in D : text(i) \in known
      /\ \A i, j \in D : i # j => text(i) # text(j)
  BY <1>0
<1>2. ASSUME NEW i \in D PROVE At(node, text(i)) = node.items[i].value
  <2>1. \A k \in D : text(k) = text(i) <=> k = i
    BY <1>1
  <2>2. (CHOOSE k \in D : text(k) = text(i)) = i
    BY <2>1
  <2> QED
    BY <2>2 DEF At
<1> QED
  BY <1>1, <1>2 DEF Keys

LEMMA LevelFacts ==
  ASSUME NEW N, IsYaml(N), NEW node \in N, node.type = "Map", NEW known,
         extraneous(node.items, known) = {}, NEW r, r = LevelIn(node.items),
         NEW at, at = At(node, "level")
  PROVE  /\ r.ok <=> ("level" \in Keys(node) => at.type = "Scalar" /\ at.text \in DOMAIN LevelOf)
         /\ r.ok => r.value = LevelValue(node)
<1>1. CASE "level" \notin Keys(node)
  <2>1. Under(node.items, "level") = {}
    BY <1>1, FieldFacts
  <2>2. r = Ok("Info")
    BY <2>1 DEF LevelIn, optionalField
  <2> QED
    BY <1>1, <2>2 DEF Ok, LevelValue
<1>2. CASE "level" \in Keys(node)
  <2>1. Under(node.items, "level") # {} /\ First(node.items, "level") = at
    BY <1>2, FieldFacts
  <2>2. r = flatMap(getScalar(at), getLevel)
    BY <2>1 DEF LevelIn, optionalField
  <2>3. CASE at.type = "Scalar" /\ at.text \in DOMAIN LevelOf
    <3>1. r = Ok(LevelOf[at.text])
      BY <2>2, <2>3 DEF flatMap, getScalar, getLevel, Ok
    <3> QED
      BY <1>2, <2>3, <3>1 DEF Ok, LevelValue
  <2>4. CASE ~(at.type = "Scalar" /\ at.text \in DOMAIN LevelOf)
    <3>1. \E about, what : r = Fail(about, what)
      <4>1. CASE at.type = "Scalar"
        <5>1. r = Fail(at.text, "level")
          BY <2>2, <2>4, <4>1 DEF flatMap, getScalar, getLevel, Ok
        <5> QED
          BY <5>1
      <4>2. CASE at.type # "Scalar"
        <5>1. r = Fail(at.type, "not a scalar")
          BY <2>2, <4>2 DEF flatMap, getScalar, Fail
        <5> QED
          BY <5>1
      <4> QED
        BY <4>1, <4>2
    <3>2. r.ok = FALSE
      BY <3>1, FailFacts
    <3> QED
      BY <1>2, <2>4, <3>2
  <2> QED
    BY <2>3, <2>4
<1> QED
  BY <1>1, <1>2

LEMMA DirFacts ==
  ASSUME NEW N, IsYaml(N), NEW node \in N, node.type = "Map", NEW known,
         extraneous(node.items, known) = {}, NEW r, r = DirIn(node.items),
         NEW at, at = At(node, "dir")
  PROVE  /\ r.ok <=> ("dir" \in Keys(node) => at.type = "Scalar" /\ at.text \in Directories)
         /\ r.ok => r.value = DirValue(node)
<1>1. CASE "dir" \notin Keys(node)
  <2>1. Under(node.items, "dir") = {}
    BY <1>1, FieldFacts
  <2>2. r = Ok(NoDir)
    BY <2>1 DEF DirIn, optionalField
  <2> QED
    BY <1>1, <2>2 DEF Ok, DirValue
<1>2. CASE "dir" \in Keys(node)
  <2>1. Under(node.items, "dir") # {} /\ First(node.items, "dir") = at
    BY <1>2, FieldFacts
  <2>2. r = flatMap(getScalar(at), getDir)
    BY <2>1 DEF DirIn, optionalField
  <2>3. CASE at.type = "Scalar" /\ at.text \in Directories
    <3>1. r = Ok(at.text)
      BY <2>2, <2>3 DEF flatMap, getScalar, getDir, Ok
    <3> QED
      BY <1>2, <2>3, <3>1 DEF Ok, DirValue
  <2>4. CASE ~(at.type = "Scalar" /\ at.text \in Directories)
    <3>1. \E about, what : r = Fail(about, what)
      <4>1. CASE at.type = "Scalar"
        <5>1. r = Fail(at.text, "not a directory")
          BY <2>2, <2>4, <4>1 DEF flatMap, getScalar, getDir, Ok
        <5> QED
          BY <5>1
      <4>2. CASE at.type # "Scalar"
        <5>1. r = Fail(at.type, "not a scalar")
          BY <2>2, <4>2 DEF flatMap, getScalar, Fail
        <5> QED
          BY <5>1
      <4> QED
        BY <4>1, <4>2
    <3>2. r.ok = FALSE
      BY <3>1, FailFacts
    <3> QED
      BY <1>2, <2>4, <3>2
  <2> QED
    BY <2>3, <2>4
<1> QED
  BY <1>1, <1>2

(* The logging section is loaded without error exactly if it is one.       *)
LEMMA LoggingFacts ==
  ASSUME NEW N, IsYaml(N), NEW node \in N, NEW d, d = loadLoggingConfig(getMapping(node))
  PROVE  /\ d.errors = {} <=> IsLogging(node)
         /\ d.errors = {} => d.value = [level |-> LevelValue(node), dir |-> DirValue(node)]
<1> DEFINE fields == {"level", "dir"}
           bad == extraneous(node.items, fields)
<1>1. CASE node.type # "Map"
  <2>1. d = Failed(getMapping(node).error)
    BY <1>1, NoMapping DEF loadLoggingConfig
  <2> QED
    BY <1>1, <2>1, FailedFacts DEF IsLogging, IsRecord
<1>2. CASE node.type = "Map"
  <2> PICK level, dir, unwanted :
        level = LevelIn(node.items) /\ dir = DirIn(node.items) /\ unwanted = bad
    OBVIOUS
  <2>1. d = buildLogging(level, dir, unwanted)
    BY <1>2 DEF loadLoggingConfig, getMapping, Ok, LevelIn, DirIn
  <2>2. d.errors = {} <=> level.ok /\ dir.ok /\ unwanted = {}
    BY <2>1, ChkFacts DEF buildLogging
  <2>3. level.ok /\ dir.ok => d.value = [level |-> level.value, dir |-> dir.value]
    BY <2>1 DEF buildLogging
  <2>4. IsRecord(node, fields, {}) <=> unwanted = {}
    BY <1>2, RecordFacts
  <2>5. CASE unwanted # {}
    BY <2>2, <2>4, <2>5 DEF IsLogging
  <2>6. CASE unwanted = {}
    <3> DEFINE Right(i) == /\ node.items[i].value.type = "Scalar"
                           /\ node.items[i].value.text \in
                                IF node.items[i].key.text = "level" THEN DOMAIN LevelOf ELSE Directories
    <3>1. /\ level.ok <=> ("level" \in Keys(node) => /\ At(node, "level").type = "Scalar"
                                                     /\ At(node, "level").text \in DOMAIN LevelOf)
          /\ level.ok => level.value = LevelValue(node)
      BY <1>2, <2>6, LevelFacts
    <3>2. /\ dir.ok <=> ("dir" \in Keys(node) => /\ At(node, "dir").type = "Scalar"
                                                 /\ At(node, "dir").text \in Directories)
          /\ dir.ok => dir.value = DirValue(node)
      BY <1>2, <2>6, DirFacts
    <3>3. \A i \in DOMAIN node.items :
            /\ node.items[i].key.text \in fields /\ node.items[i].key.text \in Keys(node)
            /\ At(node, node.items[i].key.text) = node.items[i].value
      BY <1>2, <2>6, ItemAt
    <3>4. ASSUME level.ok, dir.ok PROVE \A i \in DOMAIN node.items : Right(i)
      BY <3>1, <3>2, <3>3, <3>4
    <3>5. ASSUME \A i \in DOMAIN node.items : Right(i) PROVE level.ok /\ dir.ok
      <4>1. ASSUME "level" \in Keys(node)
            PROVE  At(node, "level").type = "Scalar" /\ At(node, "level").text \in DOMAIN LevelOf
        <5>1. PICK i \in DOMAIN node.items : node.items[i].key.text = "level"
          BY <4>1 DEF Keys
        <5> QED
          BY <3>3, <3>5, <5>1
      <4>2. ASSUME "dir" \in Keys(node)
            PROVE  At(node, "dir").type = "Scalar" /\ At(node, "dir").text \in Directories
        <5>1. PICK i \in DOMAIN node.items : node.items[i].key.text = "dir"
          BY <4>2 DEF Keys
        <5> QED
          BY <3>3, <3>5, <5>1
      <4> QED
        BY <3>1, <3>2, <4>1, <4>2
    <3>6. d.errors = {} <=> IsLogging(node)
      BY <2>2, <2>4, <2>6, <3>4, <3>5 DEF IsLogging
    <3> QED
      BY <2>2, <2>3, <3>1, <3>2, <3>6
  <2> QED
    BY <2>5, <2>6
<1> QED
  BY <1>1, <1>2
-----------------------------------------------------------------------------
LoggingIn(items) ==
  optionalField(items, "logging", buildLogging(Ok("Info"), Ok(NoDir), {}),
                LAMBDA node : loadLoggingConfig(getMapping(node)))
PIMIn(items) ==
  loadSection(required(items, "pim"), LAMBDA node : loadPIMSMConfig(getMapping(node)))
MulticastIn(items) == loadSection(required(items, "multicast"), loadJPConfig)

LEMMA LoggingSection ==
  ASSUME NEW N, IsYaml(N), NEW root \in N, root.type = "Map", NEW known,
         extraneous(root.items, known) = {}, NEW r, r = LoggingIn(root.items)
  PROVE  /\ r.errors = {} <=> ("logging" \in Keys(root) => IsLogging(At(root, "logging")))
         /\ r.errors = {} => r.value = LoggingMeaning(root)
<1>1. CASE "logging" \notin Keys(root)
  <2>1. Under(root.items, "logging") = {}
    BY <1>1, FieldFacts
  <2>2. r = buildLogging(Ok("Info"), Ok(NoDir), {})
    BY <2>1 DEF LoggingIn, optionalField
  <2>3. r.errors = {} /\ r.value = [level |-> "Info", dir |-> NoDir]
    BY <2>2 DEF buildLogging, chk, Ok
  <2> QED
    BY <1>1, <2>3 DEF LoggingMeaning
<1>2. CASE "logging" \in Keys(root)
  <2> PICK at : at = At(root, "logging")
    OBVIOUS
  <2>1. Under(root.items, "logging") # {} /\ First(root.items, "logging") = at
    BY <1>2, FieldFacts
  <2>2. r = loadLoggingConfig(getMapping(at))
    BY <2>1 DEF LoggingIn, optionalField
  <2>3. at \in N
    BY <1>2, AtIn
  <2>4. /\ r.errors = {} <=> IsLogging(at)
        /\ r.errors = {} => r.value = [level |-> LevelValue(at), dir |-> DirValue(at)]
    BY <2>2, <2>3, LoggingFacts
  <2>5. LoggingMeaning(root) = [level |-> LevelValue(at), dir |-> DirValue(at)]
    BY <1>2 DEF LoggingMeaning, LevelValue, DirValue
  <2> QED
    BY <1>2, <2>4, <2>5
<1> QED
  BY <1>1, <1>2

LEMMA PIMSection ==
  ASSUME NEW N, IsYaml(N), NEW root \in N, root.type = "Map", NEW known,
         extraneous(root.items, known) = {}, NEW r, r = PIMIn(root.items)
  PROVE  /\ r.errors = {} <=> "pim" \in Keys(root) /\ IsPIM(At(root, "pim"))
         /\ r.errors = {} => r.value = PIMValue(At(root, "pim"))
<1> PICK q : q = required(root.items, "pim")
  OBVIOUS
<1>1. CASE "pim" \notin Keys(root)
  <2>1. q.ok = FALSE
    BY <1>1, RequiredFacts
  <2>2. r = Failed(q.error)
    BY <2>1 DEF PIMIn, loadSection
  <2> QED
    BY <1>1, <2>2, FailedFacts
<1>2. CASE "pim" \in Keys(root)
  <2>1. q.ok = TRUE /\ q.value = At(root, "pim") /\ At(root, "pim") \in N
    BY <1>2, RequiredFacts
  <2>2. r = loadPIMSMConfig(getMapping(At(root, "pim")))
    BY <2>1 DEF PIMIn, loadSection
  <2> QED
    BY <1>2, <2>1, <2>2, PIMFacts
<1> QED
  BY <1>1, <1>2

LEMMA MulticastSection ==
  ASSUME NEW N, IsYaml(N), NEW root \in N, root.type = "Map", NEW known,
         extraneous(root.items, known) = {}, NEW r, r = MulticastIn(root.items),
         NEW at, at = At(root, "multicast")
  PROVE  /\ r.errors = {} <=> "multicast" \in Keys(root) /\ IsMulticast(at)
         /\ r.errors = {} => r.value = [i \in DOMAIN at.items |-> GroupMeaning(at.items[i])]
<1> PICK q : q = required(root.items, "multicast")
  OBVIOUS
<1>1. CASE "multicast" \notin Keys(root)
  <2>1. q.ok = FALSE
    BY <1>1, RequiredFacts
  <2>2. r = Failed(q.error)
    BY <2>1 DEF MulticastIn, loadSection
  <2> QED
    BY <1>1, <2>2, FailedFacts
<1>2. CASE "multicast" \in Keys(root)
  <2>1. q.ok = TRUE /\ q.value = at /\ at \in N
    BY <1>2, RequiredFacts
  <2>2. r = loadJPConfig(at)
    BY <2>1 DEF MulticastIn, loadSection
  <2> QED
    BY <1>2, <2>1, <2>2, MulticastFacts
<1> QED
  BY <1>1, <1>2

(* A document is loaded without error exactly if it is a configuration,    *)
(* and what is loaded is what it means.                                    *)
LEMMA ConfigFacts ==
  ASSUME NEW N, IsYaml(N), NEW root \in N, NEW d, d = loadPIMCConfig(root)
  PROVE  /\ d.errors = {} <=> IsConfig(root)
         /\ d.errors = {} => d.value = ConfigMeaning(root)
<1> DEFINE fields == {"logging", "pim", "multicast"}
           bad == extraneous(root.items, fields)
<1>1. CASE root.type # "Map"
  <2>1. d = Failed(getMapping(root).error)
    BY <1>1, NoMapping DEF loadPIMCConfig, loadSections
  <2> QED
    BY <1>1, <2>1, FailedFacts DEF IsConfig, IsRecord
<1>2. CASE root.type = "Map"
  <2> PICK logging, pimsm, jp, unwanted :
        /\ logging = LoggingIn(root.items) /\ pimsm = PIMIn(root.items)
        /\ jp = MulticastIn(root.items) /\ unwanted = bad
    OBVIOUS
  <2>1. d = combine(logging, pimsm, jp, unwanted)
    BY <1>2 DEF loadPIMCConfig, loadSections, getMapping, Ok, LoggingIn, PIMIn, MulticastIn
  <2>2. /\ d.errors = {} <=> /\ logging.errors = {} /\ pimsm.errors = {} /\ jp.errors = {}
                             /\ unwanted = {}
        /\ d.value = [logging |-> logging.value, pimsm |-> pimsm.value, jp |-> jp.value]
    BY <2>1 DEF combine
  <2>3. IsRecord(root, fields, {"pim", "multicast"}) <=>
          unwanted = {} /\ "pim" \in Keys(root) /\ "multicast" \in Keys(root)
    BY <1>2, RecordFacts
  <2>4. CASE unwanted # {}
    BY <2>2, <2>3, <2>4 DEF IsConfig
  <2>5. CASE unwanted = {}
    <3> PICK at : at = At(root, "multicast")
      OBVIOUS
    <3>1. /\ logging.errors = {} <=> ("logging" \in Keys(root) => IsLogging(At(root, "logging")))
          /\ logging.errors = {} => logging.value = LoggingMeaning(root)
      BY <1>2, <2>5, LoggingSection
    <3>2. /\ pimsm.errors = {} <=> "pim" \in Keys(root) /\ IsPIM(At(root, "pim"))
          /\ pimsm.errors = {} => pimsm.value = PIMValue(At(root, "pim"))
      BY <1>2, <2>5, PIMSection
    <3>3. /\ jp.errors = {} <=> "multicast" \in Keys(root) /\ IsMulticast(at)
          /\ jp.errors = {} => jp.value = [i \in DOMAIN at.items |-> GroupMeaning(at.items[i])]
      BY <1>2, <2>5, MulticastSection
    <3>4. d.errors = {} <=> IsConfig(root)
      BY <2>2, <2>3, <2>5, <3>1, <3>2, <3>3 DEF IsConfig
    <3>5. ConfigMeaning(root) =
            [logging |-> LoggingMeaning(root), pimsm |-> PIMValue(At(root, "pim")),
             jp |-> [i \in DOMAIN at.items |-> GroupMeaning(at.items[i])]]
      BY DEF ConfigMeaning, PIMValue, Adr
    <3> QED
      BY <2>2, <3>1, <3>2, <3>3, <3>4, <3>5
  <2> QED
    BY <2>4, <2>5
<1> QED
  BY <1>1, <1>2
-----------------------------------------------------------------------------
(* The file does not change, and what there is of a configuration is what  *)
(* LoadConfig has read without an error.                                   *)
ConfigInv(N) ==
  /\ docs \in Seq(N)
  /\ config # << >> => /\ Len(docs) = 1
                       /\ loadPIMCConfig(docs[1]).errors = {}
                       /\ config = loadPIMCConfig(docs[1]).value

LEMMA ConfigStep == ASSUME NEW N, ConfigInv(N), PimcNext PROVE ConfigInv(N)'
<1>1. docs' = docs
  BY DEF PimcNext, ParseArgs, pimcVars, PimcArgsEnd, PimcUseArgs, LoadFails, LoadConfig,
         BuildConfig, ShowConfig, OpenLogger, CreateInterface
<1>2. CASE LoadConfig
  <2> PICK r : r = loadPIMCConfig(docs[1])
    OBVIOUS
  <2>1. Len(docs) = 1 /\ IF r.errors # {} THEN config' = config ELSE config' = r.value
    BY <1>2 DEF LoadConfig
  <2> QED
    BY <1>1, <2>1 DEF ConfigInv
<1>3. CASE ~LoadConfig
  <2>1. config' = config
    BY <1>3 DEF PimcNext, ParseArgs, pimcVars, PimcArgsEnd, PimcUseArgs, LoadFails,
                BuildConfig, ShowConfig, OpenLogger, CreateInterface
  <2> QED
    BY <1>1, <2>1 DEF ConfigInv
<1> QED
  BY <1>2, <1>3

LEMMA ConfigSame == ASSUME NEW N, ConfigInv(N), UNCHANGED pimcVars PROVE ConfigInv(N)'
BY DEF ConfigInv, pimcVars

LEMMA ConfigExact ==
  ASSUME NEW N, IsYaml(N), ConfigInv(N)
  PROVE  LoadedConfigExact
<1>1. ASSUME Len(docs) = 1 PROVE docs[1] \in N
  <2>1. docs \in Seq(N)
    BY DEF ConfigInv
  <2> QED
    BY <1>1, <2>1
<1>2. ASSUME stage = "load", Len(docs) = 1
      PROVE  loadPIMCConfig(docs[1]).errors = {} <=> IsConfig(docs[1])
  BY <1>1, <1>2, ConfigFacts
<1>3. ASSUME config # << >> PROVE config = ConfigMeaning(docs[1])
  BY <1>1, <1>3, ConfigFacts DEF ConfigInv
<1> QED
  BY <1>2, <1>3 DEF LoadedConfigExact

(* Whatever the documents of the file, of any size and depth: the loaders  *)
(* accept exactly the configurations, and hand on what they mean           *)
(* (PIMCConfigLoader.hpp:32-63).                                           *)
THEOREM PimcConfig ==
  ASSUME NEW commandLine, NEW N, IsYaml(N), NEW file \in Seq(N)
  PROVE  PimcSpec(commandLine, file) => []LoadedConfigExact
<1>1. PimcInit(commandLine, file) => ConfigInv(N)
  BY DEF PimcInit, ConfigInv
<1>2. ConfigInv(N) /\ [PimcNext]_<<pimcVars, golVars, intfVars>> => ConfigInv(N)'
  BY ConfigStep, ConfigSame
<1>3. ConfigInv(N) => LoadedConfigExact
  BY ConfigExact
<1> QED
  BY <1>1, <1>2, <1>3, PTL DEF PimcSpec

LEMMA StartupConfigInit == ASSUME MCInit PROVE ConfigInv(YamlNodes)
<1>1. config = << >> /\ (docs \in Files \cup {GoodFile} \/ docs = << >>)
  BY DEF MCInit, PimcInit, IdlePimc
<1>2. << >> \in Seq(YamlNodes)
  OBVIOUS
<1> QED
  BY <1>1, <1>2, FilesAssumption DEF ConfigInv

(* The same of the files the run reads.                                    *)
THEOREM StartupConfig == MCSpec => []LoadedConfigExact
<1>1. MCInit => ConfigInv(YamlNodes)
  BY StartupConfigInit
<1>2. ConfigInv(YamlNodes) /\ [MCNext]_allVars => ConfigInv(YamlNodes)'
  BY ConfigStep, ConfigSame DEF MCNext, allVars
<1>3. ConfigInv(YamlNodes) => LoadedConfigExact
  BY FilesAssumption, ConfigExact
<1> QED
  BY <1>1, <1>2, <1>3, PTL DEF MCSpec
-----------------------------------------------------------------------------
Stages == {"idle", "args", "load", "build", "built", "logger", "exec", "running", "ended"}

(* A group that verifyUpdates(), or verifyInverseUpdates(), may refuse.    *)
Unverifiable ==
  \E k \in DOMAIN config.jp : NothingToJoin(config.jp[k]) \/ RPAndJoins(config.jp[k])

(* How far pimc has got, and what of the command line, the configuration   *)
(* and the interface has let it pass; why it has ended.                    *)
StageInv ==
  /\ stage \in Stages
  /\ stage # "ended" => status = "none"
  /\ stage \in {"args", "load"} => config = << >>
  /\ stage \in {"load", "build", "built", "logger", "exec", "running"} =>
       ~flagValue["ShowVersion"]
  /\ stage \in {"build", "built", "logger", "exec", "running"} => config # << >>
  /\ stage \in {"built", "logger", "exec", "running"} =>
       ~\E k \in DOMAIN config.jp : NothingToJoin(config.jp[k])
  /\ stage \in {"logger", "exec", "running"} => ~flagValue["ShowConfig"]
  /\ stage = "running" => create = "intf"
  /\ status = "abort" => config # << >> /\ Unverifiable
  /\ status = "0" =>
       \/ parse = "help"
       \/ flagValue["ShowVersion"] /\ config = << >>
       \/ flagValue["ShowConfig"] /\ config # << >>
  /\ status = "2" => config = << >> /\ (parse = "error" \/ Len(positional) # 1)

(* What is loaded is a record, and no empty sequence.                      *)
LEMMA ConfigIsRecord == ASSUME NEW root PROVE ConfigMeaning(root) # << >>
<1>1. DOMAIN ConfigMeaning(root) = {"logging", "pimsm", "jp"}
  BY DEF ConfigMeaning
<1>2. DOMAIN << >> = {}
  OBVIOUS
<1> QED
  BY <1>1, <1>2

LEMMA StageStep ==
  ASSUME NEW N, IsYaml(N), ConfigInv(N), GolInv, StageInv, PimcNext
  PROVE  StageInv'
<1>1. CASE ParseArgs
  <2>1. stage = "args" /\ UNCHANGED <<stage, config, status>>
    BY <1>1 DEF ParseArgs, pimcVars
  <2> QED
    BY <2>1 DEF StageInv, Unverifiable, NothingToJoin, RPAndJoins
<1>2. CASE PimcArgsEnd
  <2>1. parse # "fatal"
    BY DEF GolInv, CommandLineHonoured
  <2> QED
    BY <1>2, <2>1 DEF PimcArgsEnd, Exit, StageInv, golVars, Stages
<1>3. CASE PimcUseArgs
  BY <1>3 DEF PimcUseArgs, Exit, StageInv, golVars, Stages
<1>4. CASE LoadFails
  BY <1>4 DEF LoadFails, Exit, StageInv, golVars, Stages
<1>5. CASE LoadConfig
  <2> PICK r : r = loadPIMCConfig(docs[1])
    OBVIOUS
  <2>1. /\ stage = "load" /\ Len(docs) = 1 /\ UNCHANGED golVars
        /\ IF r.errors # {} THEN stage' = "ended" /\ status' = "1" /\ UNCHANGED config
           ELSE config' = r.value /\ stage' = "build" /\ UNCHANGED status
    BY <1>5 DEF LoadConfig, Exit
  <2>2. CASE r.errors # {}
    BY <2>1, <2>2 DEF StageInv, golVars, Stages
  <2>3. CASE r.errors = {}
    <3>1. docs[1] \in N
      <4>1. docs \in Seq(N)
        BY DEF ConfigInv
      <4> QED
        BY <2>1, <4>1
    <3>2. config' # << >>
      BY <2>1, <2>3, <3>1, ConfigFacts, ConfigIsRecord
    <3>3. ~flagValue["ShowVersion"]
      BY <2>1 DEF StageInv
    <3> QED
      BY <2>1, <2>3, <3>2, <3>3 DEF StageInv, golVars, Stages
  <2> QED
    BY <2>2, <2>3
<1>6. CASE BuildConfig
  BY <1>6 DEF BuildConfig, Exit, StageInv, golVars, Stages, Unverifiable, NothingToJoin, RPAndJoins
<1>7. CASE ShowConfig
  BY <1>7 DEF ShowConfig, Exit, StageInv, golVars, Stages, NothingToJoin
<1>8. CASE OpenLogger
  BY <1>8 DEF OpenLogger, Exit, StageInv, golVars, Stages, NothingToJoin
<1>9. CASE CreateInterface
  BY <1>9 DEF CreateInterface, Exit, StageInv, golVars, Stages, NothingToJoin
<1> QED
  BY <1>1, <1>2, <1>3, <1>4, <1>5, <1>6, <1>7, <1>8, <1>9 DEF PimcNext

LEMMA StageSame ==
  ASSUME StageInv, UNCHANGED <<pimcVars, golVars, intfVars>> PROVE StageInv'
BY DEF StageInv, pimcVars, golVars, intfVars, Unverifiable, NothingToJoin, RPAndJoins

(* A group has nothing to join exactly if it is an empty one in the file.  *)
LEMMA EmptyGroupFacts ==
  ASSUME NEW N, IsYaml(N), NEW pair \in Pairs(N), IsGroup(pair.value)
  PROVE  NothingToJoin(GroupMeaning(pair)) <=> IsEmptyGroup(pair.value)
<1> PICK node, g, R, J : /\ node = pair.value /\ g = GroupMeaning(pair)
                         /\ R = RPOf(node) /\ J = JoinsOf(node)
  OBVIOUS
<1>1. node \in N /\ node.type = "Map"
  BY DEF Pairs, IsGroup, IsRecord
<1>2. g.joins = RangeOf(J) /\ g.rp = IF R = << >> THEN NoAddress ELSE R[1]
  BY DEF GroupMeaning
<1>3. R = << >> \/ \E a \in Addresses : R = << a >>
  <2>1. CASE "Join*" \notin Keys(node)
    BY <2>1 DEF RPOf
  <2>2. CASE "Join*" \in Keys(node)
    <3>1. IsAddress(At(At(node, "Join*"), "RP"), "unicast")
      BY <2>2 DEF IsGroup, IsRPT
    <3>2. AddressOf[At(At(node, "Join*"), "RP").text] \in Addresses
      BY <3>1, TextsAssumption DEF IsAddress, Addresses
    <3> QED
      BY <2>2, <3>2 DEF RPOf
  <2> QED
    BY <2>1, <2>2
<1>4. R \in Seq(Addresses)
  <2>1. << >> \in Seq(Addresses)
    OBVIOUS
  <2>2. \A a \in Addresses : << a >> \in Seq(Addresses)
    OBVIOUS
  <2> QED
    BY <1>3, <2>1, <2>2, Zenon
<1>5. J \in Seq(Addresses)
  <2>1. CASE "Join" \notin Keys(node)
    BY <2>1 DEF JoinsOf
  <2>2. CASE "Join" \in Keys(node)
    <3>1. IsSourceList(At(node, "Join")) /\ At(node, "Join") \in N
      BY <1>1, <2>2, AtIn DEF IsGroup
    <3> QED
      BY <2>2, <3>1, SourcesType DEF JoinsOf
  <2> QED
    BY <2>1, <2>2
<1>6. g.rp = NoAddress <=> R = << >>
  <2>1. NoAddress \notin Addresses
    BY TextsAssumption DEF Addresses
  <2>2. CASE R = << >>
    BY <1>2, <2>2
  <2>3. CASE \E a \in Addresses : R = << a >>
    <3> PICK a \in Addresses : R = << a >>
      BY <2>3
    <3>1. R # << >> /\ R[1] = a
      OBVIOUS
    <3> QED
      BY <1>2, <2>1, <3>1
  <2> QED
    BY <1>3, <2>2, <2>3
<1>7. g.joins = {} <=> J = << >>
  <2>1. RangeOf(J) = {} <=> DOMAIN J = {}
    BY DEF RangeOf
  <2>2. DOMAIN J = {} <=> J = << >>
    BY <1>5
  <2> QED
    BY <1>2, <2>1, <2>2
<1>8. R \o J = << >> <=> R = << >> /\ J = << >>
  <2>1. Len(R \o J) = Len(R) + Len(J) /\ R \o J \in Seq(Addresses)
    BY <1>4, <1>5
  <2>2. \A s \in Seq(Addresses) : s = << >> <=> Len(s) = 0
    OBVIOUS
  <2>3. Len(R) \in Nat /\ Len(J) \in Nat
    BY <1>4, <1>5
  <2>4. Len(R \o J) = 0 <=> Len(R) = 0 /\ Len(J) = 0
    BY <2>1, <2>3
  <2> QED
    BY <1>4, <1>5, <2>1, <2>2, <2>4
<1> QED
  BY <1>6, <1>7, <1>8 DEF NothingToJoin, IsEmptyGroup

LEMMA PimcOutcomeHolds ==
  ASSUME NEW N, IsYaml(N), ConfigInv(N), IntfInv, StageInv
  PROVE  PimcOutcome
<1>1. ASSUME config # << >>
      PROVE  docs[1] \in N /\ IsConfig(docs[1]) /\ config = ConfigMeaning(docs[1])
  <2>1. docs \in Seq(N) /\ Len(docs) = 1 /\ loadPIMCConfig(docs[1]).errors = {}
        /\ config = loadPIMCConfig(docs[1]).value
    BY <1>1 DEF ConfigInv
  <2>2. docs[1] \in N
    BY <2>1
  <2> QED
    BY <2>1, <2>2, ConfigFacts
<1>2. ASSUME stage = "running"
      PROVE  /\ IsConfig(docs[1])
             /\ ~\E i \in DOMAIN At(docs[1], "multicast").items :
                  IsEmptyGroup(At(docs[1], "multicast").items[i].value)
             /\ socket = "open"
             /\ ~flagValue["ShowConfig"] /\ ~flagValue["ShowVersion"]
  <2>1. /\ config # << >> /\ create = "intf"
        /\ ~flagValue["ShowConfig"] /\ ~flagValue["ShowVersion"]
        /\ ~\E k \in DOMAIN config.jp : NothingToJoin(config.jp[k])
    BY <1>2 DEF StageInv
  <2>2. socket = "open"
    BY <2>1 DEF IntfInv, PrivilegesContained
  <2> PICK at, s : at = At(docs[1], "multicast") /\ s = at.items
    OBVIOUS
  <2>3. IsConfig(docs[1]) /\ docs[1] \in N /\ docs[1].type = "Map" /\ "multicast" \in Keys(docs[1])
    BY <1>1, <2>1 DEF IsConfig, IsRecord
  <2>4. at \in N /\ IsMulticast(at) /\ at.type = "Map"
    BY <2>3, AtIn DEF IsConfig, IsMulticast
  <2>5. \A i \in DOMAIN s : s[i] \in Pairs(N) /\ IsGroup(s[i].value)
    <3>1. s \in Seq(Pairs(N))
      BY <2>4 DEF IsYaml, Pairs
    <3>2. \A i \in DOMAIN s : s[i] \in Pairs(N)
      BY <3>1
    <3> QED
      BY <2>4, <3>2 DEF IsMulticast
  <2>6. config.jp = [i \in DOMAIN s |-> GroupMeaning(s[i])]
    BY <1>1, <2>1 DEF ConfigMeaning
  <2>7. \A i \in DOMAIN s : ~NothingToJoin(GroupMeaning(s[i]))
    BY <2>1, <2>6
  <2>8. \A i \in DOMAIN s : ~IsEmptyGroup(s[i].value)
    BY <2>5, <2>7, EmptyGroupFacts
  <2> QED
    BY <2>1, <2>2, <2>3, <2>8
<1>3. ASSUME status = "abort"
      PROVE  IsConfig(docs[1]) /\ Unverifiable
  BY <1>1, <1>3 DEF StageInv
<1>4. status = "0" =>
        \/ parse = "help"
        \/ flagValue["ShowVersion"] /\ config = << >>
        \/ flagValue["ShowConfig"] /\ config # << >>
  BY DEF StageInv
<1>5. status = "2" => config = << >> /\ (parse = "error" \/ Len(positional) # 1)
  BY DEF StageInv
<1> QED
  BY <1>2, <1>3, <1>4, <1>5, Zenon DEF PimcOutcome, Unverifiable

(* How a start of pimc ends, whatever the command line and the file, and   *)
(* whatever the host refuses (Main.cpp:14-32): it runs only with a good    *)
(* configuration whose every group has something to join, aborts only      *)
(* where an accepted one cannot be packed or verified, and every other end *)
(* has the status it should.                                               *)
THEOREM PimcOutcomeTheorem ==
  ASSUME NEW commandLine, IsCommandLine(commandLine),
         NEW N, IsYaml(N), NEW file \in Seq(N)
  PROVE  PimcSpec(commandLine, file) => []PimcOutcome
<1> DEFINE Inv == IntfInv /\ GolInv /\ ConfigInv(N) /\ StageInv
<1>1. IntfInit /\ PimcInit(commandLine, file) => Inv
  <2>1. ASSUME IntfInit, PimcInit(commandLine, file) PROVE StageInv
    BY <2>1 DEF PimcInit, StageInv, Stages
  <2>2. ASSUME PimcInit(commandLine, file) PROVE ConfigInv(N)
    BY <2>2 DEF PimcInit, ConfigInv
  <2> QED
    BY <2>1, <2>2, InitIntfInv, PimcGolInit
<1>2. Inv /\ [PimcNext]_<<pimcVars, golVars, intfVars>> => Inv'
  <2>1. ASSUME Inv, PimcNext PROVE Inv'
    BY <2>1, PimcStep, PimcGolStep, ConfigStep, StageStep
  <2>2. ASSUME Inv, UNCHANGED <<pimcVars, golVars, intfVars>> PROVE Inv'
    BY <2>2, IntfSame, GolSame, ConfigSame, StageSame
  <2> QED
    BY <2>1, <2>2
<1>3. Inv => PimcOutcome
  BY PimcOutcomeHolds
<1> QED
  BY <1>1, <1>2, <1>3, PTL DEF PimcSpec
-----------------------------------------------------------------------------
(* What an option of mclst has been given, and by which elements.          *)
LEMMA OptionArgs ==
  ASSUME IsTable(ois), parse = "result", CommandLineHonoured,
         NEW id, NEW short, NEW long, NEW isFlag,
         OptionRecord(id, short, long, isFlag) \in RangeOf(ois),
         NEW A, A = ArgsOf(short, long)
  PROVE  /\ isFlag => (flagValue[id] <=> A # {})
         /\ ~isFlag => \/ A = {} /\ values[id] = << >>
                       \/ \E a : A = {a} /\ values[id] = << a >>
<1> PICK k \in DOMAIN ois : ois[k] = OptionRecord(id, short, long, isFlag)
  BY DEF RangeOf
<1>1. ois[k].id = id /\ ois[k].shortOpt = short /\ ois[k].longOpt = long /\ ois[k].flag = isFlag
  BY DEF OptionRecord
<1>2. \A l \in DOMAIN ois : ois[l].id = id => l = k
  BY <1>1, Zenon DEF IsTable, NoDuplicates
<1>3. \A j : k \in Named(argv[j]) <=> Names(argv[j], short, long)
  BY <1>1 DEF Named, Names
<1>4. Given(id) = { j \in Seen : Names(argv[j], short, long) }
  <2>1. \A j : Named(argv[j]) \subseteq DOMAIN ois
    BY DEF Named
  <2> QED
    BY <1>1, <1>2, <1>3, <2>1, Zenon DEF Given
<1> PICK G : G = Given(id)
  OBVIOUS
<1>5. A = { argv[j].arg : j \in G }
  BY <1>4, Zenon DEF ArgsOf
<1>6. /\ flagValue[id] <=> isFlag /\ G # {}
      /\ ~isFlag => /\ G = {} => values[id] = << >>
                    /\ \A j \in G : G = {j} /\ values[id] = << argv[j].arg >>
  BY <1>1, Zenon DEF CommandLineHonoured
<1>7. CASE G = {}
  BY <1>5, <1>6, <1>7
<1>8. CASE G # {}
  <2> PICK j : j \in G
    BY <1>8
  <2>1. A # {}
    BY <1>5
  <2>2. ASSUME ~isFlag PROVE A = {argv[j].arg} /\ values[id] = << argv[j].arg >>
    <3>1. G = {j} /\ values[id] = << argv[j].arg >>
      BY <1>6, <2>2
    <3> QED
      BY <1>5, <3>1
  <2> QED
    BY <1>6, <1>8, <2>1, <2>2
<1> QED
  BY <1>7, <1>8

LEMMA FlagArgs ==
  ASSUME IsTable(ois), parse = "result", CommandLineHonoured, NEW id, NEW short, NEW long,
         OptionRecord(id, short, long, TRUE) \in RangeOf(ois)
  PROVE  flagValue[id] <=> ArgsOf(short, long) # {}
BY OptionArgs

LEMMA ValueArgs ==
  ASSUME IsTable(ois), parse = "result", CommandLineHonoured, NEW id, NEW short, NEW long,
         OptionRecord(id, short, long, FALSE) \in RangeOf(ois)
  PROVE  \/ ArgsOf(short, long) = {} /\ values[id] = << >>
         \/ \E a : ArgsOf(short, long) = {a} /\ values[id] = << a >>
<1> PICK isFlag, A : isFlag = FALSE /\ A = ArgsOf(short, long)
  OBVIOUS
<1>1. OptionRecord(id, short, long, isFlag) \in RangeOf(ois)
  OBVIOUS
<1>2. /\ isFlag => (flagValue[id] <=> A # {})
      /\ ~isFlag => \/ A = {} /\ values[id] = << >>
                    \/ \E a : A = {a} /\ values[id] = << a >>
  BY <1>1, OptionArgs
<1> QED
  BY <1>2

(* --help has been named by its short name: the long one looks like the    *)
(* end of the options.                                                     *)
HelpNamedShort == parse = "help" => \E j \in DOMAIN argv : Names(argv[j], 104, "none")

LEMMA HelpStep ==
  ASSUME GolInv, ois = MclstOptions, HelpNamedShort, GolNext
  PROVE  HelpNamedShort'
<1>1. parse = "args" /\ argv' = argv
  BY DEF GolNext, SkipWord, EndOfArguments, OptionTakenForEnd, MissingArgument, Unrecognized,
         Option, AtOption
<1>2. CASE ~\E c \in Codes : Option(c)
  <2>1. parse' # "help"
    BY <1>1, <1>2 DEF GolNext, SkipWord, EndOfArguments, OptionTakenForEnd, MissingArgument,
                      Unrecognized, Leave
  <2> QED
    BY <2>1 DEF HelpNamedShort
<1>3. CASE \E c \in Codes : Option(c)
  <2> PICK c : Option(c)
    BY <1>3
  <2> PICK n, e : n = optind /\ e = argv[n]
    OBVIOUS
  <2>1. /\ argv[n].kind # "word" /\ getopt_long(argv[n]).c = c /\ n \in 1 .. Len(argv)
        /\ c \notin {-1, Colon, QuestionMark}
        /\ IsTable(ois) /\ IsCommandLine(argv)
    BY DEF Option, AtOption, GolInv, GolTypeOK
  <2>2. n \in DOMAIN argv
    BY <2>1, LineFacts
  <2>3. PICK k : k \in Named(argv[n])
    BY <2>1, <2>2, ReturnedCode
  <2>4. k \in DOMAIN ois /\ ois[k].flag \in BOOLEAN
    BY <2>1, <2>2, <2>3, NamedOnce DEF IsTable
  <2>5. ois[k].flag <=> argv[n].arg = NoArg
    BY <2>1, <2>2, <2>3, <2>4, ReturnedCode
  <2>6. c = CodeOf(argv[n], k) /\ optMap(c) = {k}
    BY <2>1, <2>2, <2>3, <2>5, ReturnedCode, CodeLeadsBack
  <2>7. CASE ~isHelp(ois[k])
    <3>1. parse' # "help"
      BY <1>1, <2>6, <2>7 DEF Option, setValue
    <3> QED
      BY <3>1 DEF HelpNamedShort
  <2>8. CASE isHelp(ois[k])
    <3>1. k = 1
      BY <2>1, <2>4, <2>8, TableFacts
    <3>2. ~(e.kind = "long" /\ e.long = "help")
      BY <2>1, <2>2, <2>3, <2>6, CodeLeadsBack
    <3>3. ois[1].shortOpt = 104 /\ ois[1].longOpt = "help"
      <4>1. HelpOption \in RangeOf(ois)
        <5>1. HelpOption \in RangeOf(MclstOptions)
          BY MclstTable DEF TableOf
        <5> QED
          BY <5>1
      <4>2. PICK l \in DOMAIN ois : ois[l] = HelpOption
        BY <4>1 DEF RangeOf
      <4>3. ois[l].longOpt = "help" /\ ois[l].shortOpt = 104
        BY <4>2 DEF HelpOption
      <4>4. l = 1
        BY <2>1, <4>3 DEF IsTable
      <4> QED
        BY <4>3, <4>4
    <3>4. e.kind = "short" /\ e.short = 104
      BY <2>3, <3>1, <3>2, <3>3 DEF Named
    <3> QED
      BY <1>1, <2>2, <3>4 DEF HelpNamedShort, Names
  <2> QED
    BY <2>7, <2>8
<1> QED
  BY <1>2, <1>3

Receivers == {"receiver", "raw receiver", "limited receiver", "limited raw receiver"}

(* mclst has its configuration: the values of the options have been        *)
(* accepted, and it is what they say.                                      *)
AsArgued ==
  /\ parse = "result" /\ ~flagValue["ShowVersion"]
  /\ mclstCfg.sender = flagValue["Sender"]
  /\ mclstCfg.timeoutSecs \in 1 .. 600
  /\ mclstCfg.count = parseCount(values["Count"]) /\ mclstCfg.count # Bad
  /\ mclstCfg.ttl = parseTTL(values["SetTTL"], mclstCfg.sender) /\ mclstCfg.ttl # Bad
  /\ IF mclstCfg.wildcard THEN mclstCfg.dport = 0 ELSE mclstCfg.dport \in 1 .. MaxPort
  /\ ~(mclstCfg.sender /\ mclstCfg.wildcard)

WhatRuns ==
  IF mclstCfg.sender THEN "sender"
  ELSE IF mclstCfg.count = 0 THEN (IF mclstCfg.wildcard THEN "raw receiver" ELSE "receiver")
  ELSE (IF mclstCfg.wildcard THEN "limited raw receiver" ELSE "limited receiver")

MclstInv ==
  /\ ois = MclstOptions
  /\ HelpNamedShort
  /\ mclst \in {"args", "config", "ended", "sender"} \cup Receivers
  /\ mclst \notin {"args", "ended"} => AsArgued
  /\ mclst \notin {"args", "config", "ended"} => mclst = WhatRuns
  /\ mclst # "ended" => mclstStatus = "none"
  /\ mclstStatus = "0" =>
       \/ parse = "help"
       \/ parse = "result" /\ (flagValue["ShowVersion"] \/ flagValue["ShowConfig"])

LEMMA InRangeFacts ==
  ASSUME NEW t, NEW lo \in Nat, NEW hi \in Nat, NEW n, n = InRange(t, lo, hi), n # Bad
  PROVE  t \in DOMAIN NumberOf /\ n = NumberOf[t] /\ n \in lo .. hi
BY TextsAssumption DEF InRange, Bad

LEMMA TimeoutFacts ==
  ASSUME NEW texts, parseTimeoutSecs(texts) # Bad
  PROVE  parseTimeoutSecs(texts) \in 1 .. 600
<1>1. CASE texts = << >>
  BY <1>1 DEF parseTimeoutSecs
<1>2. CASE texts # << >>
  <2>1. parseTimeoutSecs(texts) = InRange(texts[1], 1, 600)
    BY <1>2 DEF parseTimeoutSecs
  <2> QED
    BY <2>1, TextsAssumption DEF InRange, Bad
<1> QED
  BY <1>1, <1>2

LEMMA FromArgsStep ==
  ASSUME MclstInv, GolInv, FromArgs
  PROVE  MclstInv'
<1> PICK gp, intf, sender, timeoutSecs, count, ttl :
      /\ gp = parseGroupPort(positional[1])
      /\ intf = values["Interface"]
      /\ sender = flagValue["Sender"]
      /\ timeoutSecs = parseTimeoutSecs(values["Timeout"])
      /\ count = parseCount(values["Count"])
      /\ ttl = parseTTL(values["SetTTL"], sender)
  OBVIOUS
<1>1. /\ mclst = "args" /\ parse = "result" /\ UNCHANGED golVars
      /\ UNCHANGED <<ois, argv, flagValue, values, parse>>
  BY DEF FromArgs, golVars
<1>2. HelpNamedShort'
  BY <1>1 DEF HelpNamedShort
<1>3. CASE mclst' = "ended"
  <2>1. mclstStatus' = "0" => flagValue["ShowVersion"]
    BY <1>1, <1>3 DEF FromArgs, MclstExit, MclstInv
  <2> QED
    BY <1>1, <1>2, <1>3, <2>1 DEF MclstInv
<1>4. CASE mclst' # "ended"
  <2>1. /\ ~flagValue["ShowVersion"] /\ mclst' = "config" /\ mclstStatus' = mclstStatus
        /\ gp.ok /\ timeoutSecs # Bad /\ count # Bad /\ ttl # Bad /\ ~(sender /\ gp.wildcard)
        /\ mclstCfg'.sender = sender /\ mclstCfg'.timeoutSecs = timeoutSecs
        /\ mclstCfg'.count = count /\ mclstCfg'.ttl = ttl
        /\ mclstCfg'.wildcard = gp.wildcard /\ mclstCfg'.dport = gp.dport
    BY <1>4 DEF FromArgs, MclstExit
  <2>2. timeoutSecs \in 1 .. 600
    BY <2>1, TimeoutFacts
  <2>3. IF gp.wildcard THEN gp.dport = 0 ELSE gp.dport \in 1 .. MaxPort
    <3> PICK word : word = positional[1]
      OBVIOUS
    <3>1. CASE word \in DOMAIN Halves
      <4> PICK port : port = InRange(Halves[word][2], 1, MaxPort)
        OBVIOUS
      <4>1. gp.wildcard = FALSE /\ gp.dport = port /\ port # Bad
        BY <2>1, <3>1 DEF parseGroupPort
      <4>2. 1 \in Nat /\ MaxPort \in Nat
        BY DEF MaxPort
      <4> QED
        BY <4>1, <4>2, InRangeFacts
    <3>2. CASE word \notin DOMAIN Halves
      BY <3>2 DEF parseGroupPort
    <3> QED
      BY <3>1, <3>2
  <2>4. AsArgued'
    BY <1>1, <2>1, <2>2, <2>3 DEF AsArgued
  <2>5. mclstStatus' = "none"
    BY <1>1, <2>1 DEF MclstInv
  <2> QED
    BY <1>1, <1>2, <2>1, <2>4, <2>5 DEF MclstInv
<1> QED
  BY <1>3, <1>4

LEMMA MclstStep == ASSUME MclstInv, GolInv, MclstNext PROVE MclstInv'
<1>1. CASE MclstParseArgs
  <2>1. mclst = "args" /\ GolNext /\ UNCHANGED <<mclst, mclstCfg, mclstStatus>> /\ ois' = ois
    BY <1>1 DEF MclstParseArgs, mclstVars, GolNext, SkipWord, EndOfArguments,
                OptionTakenForEnd, MissingArgument, Unrecognized, Option
  <2>2. HelpNamedShort'
    BY <2>1, HelpStep DEF MclstInv
  <2> QED
    BY <2>1, <2>2 DEF MclstInv
<1>2. CASE MclstArgsEnd
  <2>1. parse # "fatal" /\ UNCHANGED <<ois, argv, flagValue, values, parse>>
    BY <1>2 DEF GolInv, CommandLineHonoured, MclstArgsEnd, golVars
  <2>2. HelpNamedShort'
    BY <2>1 DEF HelpNamedShort, MclstInv
  <2>3. mclst' = "ended" /\ (mclstStatus' = "0" => parse = "help")
    BY <1>2, <2>1 DEF MclstArgsEnd, MclstExit
  <2> QED
    BY <2>1, <2>2, <2>3 DEF MclstInv
<1>3. CASE FromArgs
  BY <1>3, FromArgsStep
<1>4. CASE NoIntfTable
  <2>1. UNCHANGED <<ois, argv, flagValue, values, parse>> /\ mclst' = "ended" /\ mclstStatus' = "1"
    BY <1>4 DEF NoIntfTable, MclstExit, golVars
  <2>2. HelpNamedShort'
    BY <2>1 DEF HelpNamedShort, MclstInv
  <2> QED
    BY <2>1, <2>2 DEF MclstInv
<1>5. CASE MclstRun
  <2>1. UNCHANGED <<ois, argv, flagValue, values, parse, mclstCfg>> /\ mclst = "config"
    BY <1>5 DEF MclstRun, golVars
  <2>2. HelpNamedShort'
    BY <2>1 DEF HelpNamedShort, MclstInv
  <2>3. AsArgued /\ AsArgued' /\ WhatRuns' = WhatRuns
    BY <2>1 DEF MclstInv, AsArgued, WhatRuns
  <2>4. CASE flagValue["ShowConfig"]
    <3>1. mclst' = "ended" /\ parse = "result"
      BY <1>5, <2>3, <2>4 DEF MclstRun, MclstExit, AsArgued
    <3> QED
      BY <2>1, <2>2, <2>4, <3>1 DEF MclstInv
  <2>5. CASE ~flagValue["ShowConfig"]
    <3>1. mclst' = WhatRuns /\ mclstStatus' = mclstStatus
      BY <1>5, <2>5 DEF MclstRun, WhatRuns
    <3>2. WhatRuns \in {"sender"} \cup Receivers
      BY DEF WhatRuns, Receivers
    <3>3. mclstStatus = "none"
      BY <2>1 DEF MclstInv
    <3> QED
      BY <2>1, <2>2, <2>3, <3>1, <3>2, <3>3 DEF MclstInv
  <2> QED
    BY <2>4, <2>5
<1> QED
  BY <1>1, <1>2, <1>3, <1>4, <1>5 DEF MclstNext

LEMMA MclstSame ==
  ASSUME MclstInv, UNCHANGED <<mclstVars, golVars>> PROVE MclstInv'
<1>1. UNCHANGED <<ois, argv, flagValue, values, parse, mclst, mclstCfg, mclstStatus>>
  BY DEF mclstVars, golVars
<1>2. HelpNamedShort'
  BY <1>1 DEF HelpNamedShort, MclstInv
<1>3. AsArgued' = AsArgued /\ WhatRuns' = WhatRuns
  BY <1>1 DEF AsArgued, WhatRuns
<1> QED
  BY <1>1, <1>2, <1>3 DEF MclstInv

LEMMA MclstInitInv == ASSUME NEW l, MclstInit(l) PROVE MclstInv
<1>1. /\ ois = MclstOptions /\ mclst = "args" /\ mclstStatus = "none"
      /\ parse # "help"
  BY DEF MclstInit, GolInit
<1> QED
  BY <1>1 DEF MclstInv, HelpNamedShort

LEMMA MclstAsAskedHolds ==
  ASSUME MclstInv, GolInv
  PROVE  MclstAsAsked
<1>0. IsTable(ois) /\ CommandLineHonoured
  BY DEF GolInv, GolTypeOK
<1>1. RangeOf(ois) =
        { HelpOption, InterfaceOption, SourceOfGOption, TimeoutOption, ShowPayloadOption,
          SenderOption, SetTTLOption, CountOption, NoColorsOption, ShowConfigOption,
          ShowVersionOption }
  <2>1. RangeOf(MclstOptions) =
          { HelpOption, InterfaceOption, SourceOfGOption, TimeoutOption, ShowPayloadOption,
            SenderOption, SetTTLOption, CountOption, NoColorsOption, ShowConfigOption,
            ShowVersionOption }
    BY MclstTable, Zenon DEF TableOf
  <2>2. ois = MclstOptions
    BY DEF MclstInv
  <2> QED
    BY <2>1, <2>2, Zenon
<1>2. /\ OptionRecord("Sender", 115, "sender", TRUE) \in RangeOf(ois)
      /\ OptionRecord("Count", 99, "count", FALSE) \in RangeOf(ois)
      /\ OptionRecord("SetTTL", 0, "ttl", FALSE) \in RangeOf(ois)
      /\ OptionRecord("ShowConfig", 0, "show-config", TRUE) \in RangeOf(ois)
      /\ OptionRecord("ShowVersion", 118, "version", TRUE) \in RangeOf(ois)
  BY <1>1, Zenon DEF SenderOption, CountOption, SetTTLOption, ShowConfigOption,
                     ShowVersionOption, LongOnly
<1> PICK S, C, T, W, V :
      /\ S = ArgsOf(115, "sender") /\ C = ArgsOf(99, "count") /\ T = ArgsOf(0, "ttl")
      /\ W = ArgsOf(0, "show-config") /\ V = ArgsOf(118, "version")
  OBVIOUS
<1>3. ASSUME parse = "result"
      PROVE  /\ flagValue["Sender"] <=> S # {}
             /\ flagValue["ShowConfig"] <=> W # {}
             /\ flagValue["ShowVersion"] <=> V # {}
             /\ \/ C = {} /\ values["Count"] = << >>
                \/ \E a : C = {a} /\ values["Count"] = << a >>
             /\ \/ T = {} /\ values["SetTTL"] = << >>
                \/ \E a : T = {a} /\ values["SetTTL"] = << a >>
  <2>1. flagValue["Sender"] <=> S # {}
    BY <1>0, <1>2, <1>3, FlagArgs
  <2>2. flagValue["ShowConfig"] <=> W # {}
    BY <1>0, <1>2, <1>3, FlagArgs
  <2>3. flagValue["ShowVersion"] <=> V # {}
    BY <1>0, <1>2, <1>3, FlagArgs
  <2>4. \/ C = {} /\ values["Count"] = << >>
        \/ \E a : C = {a} /\ values["Count"] = << a >>
    <3>1. \/ ArgsOf(99, "count") = {} /\ values["Count"] = << >>
          \/ \E a : ArgsOf(99, "count") = {a} /\ values["Count"] = << a >>
      BY <1>0, <1>2, <1>3, ValueArgs, Zenon
    <3> QED
      BY <3>1
  <2>5. \/ T = {} /\ values["SetTTL"] = << >>
        \/ \E a : T = {a} /\ values["SetTTL"] = << a >>
    BY <1>0, <1>2, <1>3, ValueArgs
  <2> QED
    BY <2>1, <2>2, <2>3, <2>4, <2>5
<1> DEFINE sends == S # {}
           counts == { NumberOf[a] : a \in C }
           ttls == { NumberOf[a] : a \in T }
<1>4. ASSUME mclst \notin {"args", "config", "ended"}
      PROVE  /\ mclst = "sender" <=> sends
             /\ sends => mclstCfg.dport \in 1 .. MaxPort /\ mclstCfg.ttl \in 1 .. 255
             /\ IF sends THEN ttls \subseteq {mclstCfg.ttl} ELSE ttls = {}
             /\ ~sends =>
                  /\ mclst \in {"limited receiver", "limited raw receiver"} <=>
                       counts \notin {{}, {0}}
                  /\ mclst \in {"raw receiver", "limited raw receiver"} <=> mclstCfg.dport = 0
             /\ mclstCfg.timeoutSecs \in 1 .. 600
             /\ V = {}
  <2>1. AsArgued /\ mclst = WhatRuns
    BY <1>4 DEF MclstInv
  <2>2. /\ parse = "result" /\ ~flagValue["ShowVersion"]
        /\ mclstCfg.sender = flagValue["Sender"]
        /\ mclstCfg.timeoutSecs \in 1 .. 600
        /\ mclstCfg.count = parseCount(values["Count"]) /\ mclstCfg.count # Bad
        /\ mclstCfg.ttl = parseTTL(values["SetTTL"], mclstCfg.sender) /\ mclstCfg.ttl # Bad
        /\ IF mclstCfg.wildcard THEN mclstCfg.dport = 0 ELSE mclstCfg.dport \in 1 .. MaxPort
        /\ ~(mclstCfg.sender /\ mclstCfg.wildcard)
    BY <2>1 DEF AsArgued
  <2>3. mclstCfg.sender <=> sends
    BY <1>3, <2>2
  <2>4. V = {}
    BY <1>3, <2>2
  <2>5. mclst = "sender" <=> sends
    BY <2>1, <2>3 DEF WhatRuns
  <2>6. IF mclstCfg.wildcard THEN mclstCfg.dport = 0 ELSE mclstCfg.dport # 0
    <3>1. 0 \notin 1 .. MaxPort
      BY DEF MaxPort
    <3> QED
      BY <2>2, <3>1
  <2>7. sends => mclstCfg.dport \in 1 .. MaxPort
    BY <2>2, <2>3
  <2>8. ASSUME ~sends
        PROVE  /\ mclst \in {"limited receiver", "limited raw receiver"} <=> mclstCfg.count # 0
               /\ mclst \in {"raw receiver", "limited raw receiver"} <=> mclstCfg.dport = 0
    BY <2>1, <2>3, <2>6, <2>8 DEF WhatRuns
  <2>9. counts \in {{}, {0}} <=> mclstCfg.count = 0
    <3>1. CASE C = {} /\ values["Count"] = << >>
      BY <2>2, <3>1 DEF parseCount
    <3>2. CASE \E a : C = {a} /\ values["Count"] = << a >>
      <4> PICK a : C = {a} /\ values["Count"] = << a >>
        BY <3>2
      <4>1. << a >> # << >> /\ << a >>[1] = a
        OBVIOUS
      <4>2. parseCount(values["Count"]) = IF a \in DOMAIN NumberOf THEN NumberOf[a] ELSE Bad
        BY <4>1 DEF parseCount
      <4>3. mclstCfg.count = NumberOf[a]
        BY <2>2, <4>2
      <4>4. counts = {NumberOf[a]}
        OBVIOUS
      <4> QED
        BY <4>3, <4>4
    <3> QED
      BY <1>3, <2>2, <3>1, <3>2
  <2>10. /\ sends => mclstCfg.ttl \in 1 .. 255
         /\ IF sends THEN ttls \subseteq {mclstCfg.ttl} ELSE ttls = {}
    <3>1. CASE T = {} /\ values["SetTTL"] = << >>
      <4>1. ttls = {}
        BY <3>1
      <4>2. sends => mclstCfg.ttl = 255
        BY <2>2, <2>3, <3>1 DEF parseTTL
      <4> QED
        BY <4>1, <4>2, SMTT(30)
    <3>2. CASE \E a : T = {a} /\ values["SetTTL"] = << a >>
      <4> PICK a : T = {a} /\ values["SetTTL"] = << a >>
        BY <3>2
      <4>1. << a >> # << >> /\ << a >>[1] = a
        OBVIOUS
      <4>2. mclstCfg.sender /\ mclstCfg.ttl = InRange(a, 1, 255)
        BY <2>2, <4>1 DEF parseTTL
      <4>3. mclstCfg.ttl = NumberOf[a] /\ mclstCfg.ttl \in 1 .. 255
        <5>1. mclstCfg.ttl # Bad
          BY ONLY <2>2
        <5>2. PICK n : n = mclstCfg.ttl
          OBVIOUS
        <5>3. n = InRange(a, 1, 255) /\ n # Bad
          BY ONLY <4>2, <5>1, <5>2
        <5>4. n = NumberOf[a] /\ n \in 1 .. 255
          BY ONLY <5>3, TextsAssumption DEF InRange, Bad
        <5> QED
          BY ONLY <5>2, <5>4
      <4>4. ttls = {NumberOf[a]}
        OBVIOUS
      <4> QED
        BY <2>3, <4>2, <4>3, <4>4
    <3> QED
      BY <1>3, <2>2, <3>1, <3>2
  <2> HIDE DEF counts, ttls, sends
  <2> QED
    BY <2>2, <2>4, <2>5, <2>7, <2>8, <2>9, <2>10
<1>5. ASSUME mclstStatus = "0"
      PROVE  \/ \E j \in DOMAIN argv : Names(argv[j], 104, "none")
             \/ V \cup W # {}
  <2>1. CASE parse = "help"
    BY <2>1 DEF MclstInv, HelpNamedShort
  <2>2. CASE parse = "result" /\ (flagValue["ShowVersion"] \/ flagValue["ShowConfig"])
    BY <1>3, <2>2
  <2> QED
    BY <1>5, <2>1, <2>2 DEF MclstInv
<1> QED
  BY <1>4, <1>5, Zenon DEF MclstAsAsked

(* Whatever is on the command line of mclst: what it runs, if anything, is *)
(* what the command line asks for (Config.cpp:149-274, Main.cpp:19-51).    *)
THEOREM MclstOutcomeTheorem ==
  ASSUME NEW commandLine, IsCommandLine(commandLine)
  PROVE  MclstSpec(commandLine) => []MclstAsAsked
<1>1. MclstInit(commandLine) => GolInv /\ MclstInv
  BY MclstGolInit, MclstInitInv
<1>2. GolInv /\ MclstInv /\ [MclstNext]_<<mclstVars, golVars>> => (GolInv /\ MclstInv)'
  <2>1. ASSUME GolInv, MclstInv, MclstNext PROVE (GolInv /\ MclstInv)'
    BY <2>1, MclstGolStep, MclstStep
  <2>2. ASSUME GolInv, MclstInv, UNCHANGED <<mclstVars, golVars>> PROVE (GolInv /\ MclstInv)'
    BY <2>2, GolSame, MclstSame
  <2> QED
    BY <2>1, <2>2
<1>3. GolInv /\ MclstInv => MclstAsAsked
  BY MclstAsAskedHolds
<1> QED
  BY <1>1, <1>2, <1>3, PTL DEF MclstSpec

(* Both programs as the run starts them, with the files it reads.          *)
StartupInv ==
  /\ IntfInv /\ GolInv /\ ConfigInv(YamlNodes)
  /\ IF program = "pimc" THEN StageInv ELSE program = "mclst" /\ MclstInv

THEOREM StartupOutcomeTheorem == MCSpec => []StartupOutcome
<1>1. MCInit => StartupInv
  <2>1. ASSUME MCInit PROVE IntfInv /\ GolInv
    BY <2>1, InitIntfInv, PimcGolInit, MclstGolInit, WordIsLine, LinesAssumption DEF MCInit
  <2>2. ASSUME MCInit PROVE ConfigInv(YamlNodes)
    BY <2>2, StartupConfigInit
  <2>3. ASSUME NEW l, NEW f, PimcInit(l, f) PROVE StageInv
    BY <2>3 DEF PimcInit, StageInv, Stages
  <2>4. ASSUME MCInit PROVE IF program = "pimc" THEN StageInv ELSE program = "mclst" /\ MclstInv
    BY <2>3, <2>4, MclstInitInv DEF MCInit
  <2> QED
    BY <2>1, <2>2, <2>4 DEF StartupInv
<1>2. StartupInv /\ [MCNext]_allVars => StartupInv'
  <2>1. ASSUME StartupInv, program = "pimc", PimcNext, UNCHANGED <<program, mclstVars>>
        PROVE  StartupInv'
    BY <2>1, FilesAssumption, PimcStep, PimcGolStep, ConfigStep, StageStep DEF StartupInv
  <2>2. ASSUME StartupInv, program = "mclst", MclstNext, UNCHANGED <<program, pimcVars, intfVars>>
        PROVE  StartupInv'
    BY <2>2, IntfSame, MclstGolStep, ConfigSame, MclstStep DEF StartupInv
  <2>3. ASSUME StartupInv, UNCHANGED allVars PROVE StartupInv'
    <3>1. /\ UNCHANGED intfVars /\ UNCHANGED golVars /\ UNCHANGED pimcVars
          /\ UNCHANGED mclstVars /\ program' = program
      BY <2>3 DEF allVars
    <3>2. IntfInv' /\ GolInv' /\ ConfigInv(YamlNodes)'
      BY <2>3, <3>1, IntfSame, GolSame, ConfigSame DEF StartupInv
    <3> QED
      BY <2>3, <3>1, <3>2, StageSame, MclstSame DEF StartupInv
  <2> QED
    BY <2>1, <2>2, <2>3 DEF MCNext
<1>3. StartupInv => StartupOutcome
  <2>1. ASSUME StartupInv, program = "pimc" PROVE PimcOutcome
    BY <2>1, FilesAssumption, PimcOutcomeHolds DEF StartupInv
  <2>2. ASSUME StartupInv, program # "pimc" PROVE MclstAsAsked
    BY <2>2, MclstAsAskedHolds DEF StartupInv
  <2> QED
    BY <2>1, <2>2 DEF StartupOutcome
<1> QED
  BY <1>1, <1>2, <1>3, PTL DEF MCSpec
=============================================================================
