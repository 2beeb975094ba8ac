--------------------------- MODULE ResolveProofs ----------------------------
(***************************************************************************)
(* Theorems about module resolution (Resolve), for every project: the      *)
(* search keeps its books and only takes steps ImportOrder allows.         *)
(***************************************************************************)
EXTENDS Resolve, NatSets, SequenceTheorems, TLAPS

Frame(p) == [file : p.files, next : Nat \ {0}]

(* A frame r over the project p with the modules done resolved: its file   *)
(* is needed and readable, and the imports before the current one are done *)
(* and importable.                                                         *)
FrameDone(p, done, r) ==
  /\ Reachable(p, r.file)
  /\ p.text[r.file] = "ok"
  /\ \A j \in DOMAIN p.imports[r.file] :
       j < r.next => Dep(p, r.file, j) \in done /\ ItemVisible(p, r.file, j)

FramesDone == \A i \in DOMAIN stack : FrameDone(fs, resolved, stack[i])

(* The call stack starts at the entry, and is what in_progress holds.      *)
StackIsInProgress ==
  /\ stack # << >> => stack[1].file = fs.entry
  /\ Running => inProgress = { stack[i].file : i \in DOMAIN stack }
  /\ Running /\ stack = << >> => resolved = {}

IInv ==
  /\ TypeOK
  /\ EachModuleOnce
  /\ CallsFollowImports
  /\ FramesDone
  /\ StackIsInProgress

---------------------------------------------------------------------------
(* Projects                                                                *)

LEMMA SearchPathsSeq ==
  ASSUME NEW p, WellFormed(p)
  PROVE  DOMAIN SearchPaths(p) \subseteq Nat
<1>1. p.include \in Seq(Range(p.include) \cup {p.home})
  BY DEF WellFormed, Range
<1>2. SearchPaths(p) \in Seq(Range(p.include) \cup {p.home})
  BY <1>1, AppendProperties DEF SearchPaths
<1>. QED BY <1>2

(* A module name leads to a source file or to none.                        *)
LEMMA FindModuleType ==
  ASSUME NEW p, WellFormed(p), NEW name
  PROVE  FindModule(p, name) \in p.files \cup {NotFound}
<1>1. ASSUME NEW rel, Holding(p, rel) # {}
      PROVE  FirstHit(p, rel) \in p.files
  <2>1. Holding(p, rel) \subseteq Nat
    BY SearchPathsSeq DEF Holding
  <2>2. \E i \in Holding(p, rel) : \A j \in Holding(p, rel) : i <= j
    BY <1>1, <2>1, LeastElement
  <2>3. PICK i \in Holding(p, rel) : FirstHit(p, rel) = p.at[<<SearchPaths(p)[i], rel>>]
    BY <2>2 DEF FirstHit
  <2>4. <<SearchPaths(p)[i], rel>> \in DOMAIN p.at
    BY <2>3 DEF Holding
  <2>. QED BY <2>3, <2>4 DEF WellFormed, Range
<1>. QED BY <1>1 DEF FindModule

(* What an import of a needed file leads to is needed.                     *)
LEMMA DepReachable ==
  ASSUME NEW p, WellFormed(p), NEW f \in p.files, Reachable(p, f),
         NEW i \in DOMAIN p.imports[f], Dep(p, f, i) # NotFound
  PROVE  /\ Dep(p, f, i) \in p.files
         /\ Dep(p, f, i) \in Deps(p, f)
         /\ Reachable(p, Dep(p, f, i))
<1>1. Dep(p, f, i) \in p.files
  BY FindModuleType DEF Dep
<1>2. Dep(p, f, i) \in Deps(p, f)
  BY DEF Deps
<1>3. Reachable(p, Dep(p, f, i))
  BY <1>2 DEF Reachable
<1>. QED BY <1>1, <1>2, <1>3

LEMMA EntryReachable == ASSUME NEW p PROVE Reachable(p, p.entry)
BY DEF Reachable

(* The innermost frame.                                                    *)
LEMMA TopFacts ==
  ASSUME IInv, stack # << >>
  PROVE  /\ WellFormed(fs)
         /\ Len(stack) \in Nat \ {0} /\ Len(stack) \in DOMAIN stack
         /\ DOMAIN stack = 1 .. Len(stack)
         /\ Top \in Frame(fs) /\ Top.file \in fs.files /\ Top.next \in Nat \ {0}
         /\ FrameDone(fs, resolved, Top)
<1>1. stack \in Seq(Frame(fs)) /\ WellFormed(fs)
  BY ProjectsAssumption DEF IInv, TypeOK, Frame
<1>2. Len(stack) \in Nat \ {0} /\ DOMAIN stack = 1 .. Len(stack)
  BY <1>1, EmptySeq, LenProperties
<1>3. Top \in Frame(fs)
  BY <1>1, <1>2, ElementOfSeq DEF Top
<1>. QED BY <1>1, <1>2, <1>3 DEF Frame, Top, IInv, FramesDone

---------------------------------------------------------------------------
(* The steps of the search, by what they do                                *)

Errors == {"circular", "not found", "not exported"} \cup Faults

(* An error ends the search and leaves the books as they are.              *)
LEMMA FailStep ==
  ASSUME IInv, Running, result' \in Errors, UNCHANGED <<fs, resolved, order, stack>>,
         inProgress \subseteq inProgress', inProgress' \subseteq fs.files
  PROVE  IInv'
<1>1. TypeOK' /\ ~Running'
  BY DEF IInv, TypeOK, Errors, Running, Faults
<1>2. EachModuleOnce' /\ FramesDone'
  BY DEF IInv, EachModuleOnce, FramesDone, FrameDone
<1>3. CallsFollowImports'
  BY DEF IInv, CallsFollowImports
<1>4. StackIsInProgress'
  BY <1>1 DEF IInv, StackIsInProgress
<1>. QED BY <1>1, <1>2, <1>3, <1>4 DEF IInv

(* visit begins: f is the entry, or what the innermost frame imports next. *)
LEMMA PushStep ==
  ASSUME IInv, Running,
         NEW f \in fs.files, Reachable(fs, f), fs.text[f] = "ok",
         f \notin inProgress, f \notin resolved,
         \/ stack = << >> /\ f = fs.entry
         \/ /\ stack # << >> /\ Top.next \in DOMAIN fs.imports[Top.file]
            /\ f = Dep(fs, Top.file, Top.next),
         inProgress' = inProgress \cup {f},
         stack' = Append(stack, [file |-> f, next |-> 1]),
         UNCHANGED <<fs, resolved, order, result>>
  PROVE  IInv'
<1> DEFINE n == Len(stack)
           r == [file |-> f, next |-> 1]
<1>0. stack \in Seq(Frame(fs)) /\ r \in Frame(fs) /\ WellFormed(fs)
  <2>1. stack \in Seq(Frame(fs)) /\ fs \in Projects
    BY DEF IInv, TypeOK, Frame
  <2>2. r \in Frame(fs)
    BY DEF Frame
  <2>. QED BY <2>1, <2>2, ProjectsAssumption
<1>1. n \in Nat /\ DOMAIN stack = 1 .. n
  BY <1>0, LenProperties
<1>2. /\ stack' \in Seq(Frame(fs)) /\ stack' # << >>
      /\ Len(stack') = n + 1 /\ DOMAIN stack' = 1 .. n + 1
      /\ \A i \in 1 .. n : stack'[i] = stack[i]
      /\ stack'[n + 1] = r
  BY <1>0, <1>1, AppendProperties, LenProperties
<1>3. TypeOK' /\ EachModuleOnce'
  BY <1>2 DEF IInv, TypeOK, Frame, EachModuleOnce
<1>4. inProgress = { stack[i].file : i \in 1 .. n }
  BY <1>1 DEF IInv, StackIsInProgress
<1>5. CallsFollowImports'
  <2>1. \A i, j \in 1 .. n + 1 : stack'[i].file = stack'[j].file => i = j
    BY <1>1, <1>2, <1>4 DEF IInv, CallsFollowImports
  <2>2. \A i \in 1 .. n + 1 : stack'[i].file \in inProgress' \ resolved'
    BY <1>1, <1>2 DEF IInv, CallsFollowImports
  <2>3. ASSUME NEW i \in 1 .. n + 1, i > 1
        PROVE  /\ stack'[i - 1].next \in DOMAIN fs.imports[stack'[i - 1].file]
               /\ stack'[i].file = Dep(fs, stack'[i - 1].file, stack'[i - 1].next)
    <3>1. CASE i <= n
      <4>1. i \in 1 .. n /\ i - 1 \in 1 .. n
        BY <1>1, <2>3, <3>1
      <4>2. stack'[i] = stack[i] /\ stack'[i - 1] = stack[i - 1]
        BY <1>2, <4>1
      <4>3. /\ stack[i - 1].next \in DOMAIN fs.imports[stack[i - 1].file]
            /\ stack[i].file = Dep(fs, stack[i - 1].file, stack[i - 1].next)
        <5>1. i \in DOMAIN stack
          BY <1>1, <4>1
        <5>. QED BY <2>3, <5>1 DEF IInv, CallsFollowImports
      <4>. QED BY <4>2, <4>3
    <3>2. CASE i = n + 1
      <4>1. stack # << >> /\ n \in 1 .. n /\ i - 1 = n
        BY <1>0, <1>1, <2>3, <3>2, EmptySeq
      <4>2. stack'[n] = Top
        BY <1>2, <4>1 DEF Top
      <4>. QED BY <1>2, <3>2, <4>1, <4>2
    <3>3. i <= n \/ i = n + 1
      BY <1>1
    <3>. QED BY <3>1, <3>2, <3>3
  <2>. QED BY <1>2, <2>1, <2>2, <2>3 DEF CallsFollowImports
<1>6. FramesDone'
  <2>1. ASSUME NEW i \in 1 .. n
        PROVE  FrameDone(fs', resolved', stack'[i])
    BY <1>1, <1>2 DEF IInv, FramesDone, FrameDone
  <2>2. FrameDone(fs', resolved', r)
    <3>1. ~ \E j \in DOMAIN fs.imports[f] : j < 1
      <4>1. DOMAIN fs.imports[f] \subseteq Nat \ {0}
        BY <1>0 DEF WellFormed
      <4>. QED BY <4>1
    <3>. QED BY <3>1 DEF FrameDone
  <2>. QED BY <1>2, <2>1, <2>2 DEF FramesDone
<1>7. StackIsInProgress'
  <2>1. stack'[1].file = fs.entry
    BY <1>0, <1>1, <1>2, EmptySeq DEF IInv, StackIsInProgress
  <2>2. inProgress' = { stack'[i].file : i \in 1 .. n + 1 }
    BY <1>1, <1>2, <1>4
  <2>. QED BY <1>2, <2>1, <2>2 DEF StackIsInProgress
<1>. QED BY <1>3, <1>5, <1>6, <1>7 DEF IInv

(* The innermost frame goes on to its next import.                         *)
LEMMA AdvanceStep ==
  ASSUME IInv, AtImport, Dep(fs, Top.file, Top.next) \in resolved,
         ItemVisible(fs, Top.file, Top.next),
         stack' = [stack EXCEPT ![Len(stack)].next = @ + 1],
         UNCHANGED <<fs, resolved, inProgress, order, result>>
  PROVE  IInv'
<1> DEFINE n == Len(stack)
           r == [file |-> Top.file, next |-> Top.next + 1]
<1>0. stack \in Seq(Frame(fs)) /\ stack # << >>
  BY DEF AtImport, IInv, TypeOK, Frame
<1>1. /\ WellFormed(fs) /\ n \in Nat \ {0} /\ n \in 1 .. n /\ DOMAIN stack = 1 .. n
      /\ Top \in Frame(fs) /\ FrameDone(fs, resolved, Top)
      /\ Top.file \in fs.files /\ Top.next \in Nat \ {0}
  BY <1>0, TopFacts
<1>2. r \in Frame(fs) /\ stack' = [stack EXCEPT ![n] = r]
  <2>1. [Top EXCEPT !.next = @ + 1] = r
    BY <1>1 DEF Frame
  <2>2. stack' = [stack EXCEPT ![n] = [Top EXCEPT !.next = @ + 1]]
    BY DEF Top
  <2>3. r \in Frame(fs)
    BY <1>1 DEF Frame
  <2>. QED BY <2>1, <2>2, <2>3
<1>. HIDE DEF r
<1>3. /\ stack' \in Seq(Frame(fs)) /\ Len(stack') = n /\ DOMAIN stack' = 1 .. n
      /\ \A i \in 1 .. n : stack'[i] = IF i = n THEN r ELSE stack[i]
  <2>1. /\ stack' \in Seq(Frame(fs)) /\ Len(stack') = n
        /\ \A i \in 1 .. n : stack'[i] = IF i = n THEN r ELSE stack[i]
    BY <1>0, <1>1, <1>2, ExceptSeq
  <2>. QED BY <2>1, LenProperties
<1>4. \A i \in 1 .. n : stack'[i].file = stack[i].file
  BY <1>1, <1>3 DEF Top
<1>5. TypeOK' /\ EachModuleOnce'
  BY <1>3 DEF IInv, TypeOK, Frame, EachModuleOnce
<1>6. CallsFollowImports'
  <2>1. \A i \in 1 .. n : i > 1 => /\ stack'[i].file = stack[i].file
                                   /\ stack'[i - 1] = stack[i - 1]
    BY <1>1, <1>3, <1>4
  <2>. QED BY <1>1, <1>3, <1>4, <2>1 DEF IInv, CallsFollowImports
<1>7. FramesDone'
  <2>1. ASSUME NEW i \in 1 .. n, i # n
        PROVE  FrameDone(fs', resolved', stack'[i])
    BY <1>1, <1>3, <2>1 DEF IInv, FramesDone, FrameDone
  <2>2. FrameDone(fs', resolved', r)
    <3>1. ASSUME NEW j \in DOMAIN fs.imports[Top.file], j < Top.next + 1
          PROVE  Dep(fs, Top.file, j) \in resolved /\ ItemVisible(fs, Top.file, j)
      <4>1. j \in Nat
        BY <1>1 DEF WellFormed
      <4>2. CASE j < Top.next
        BY <1>1, <4>2 DEF FrameDone
      <4>3. CASE j = Top.next
        BY <4>3
      <4>. QED BY <1>1, <3>1, <4>1, <4>2, <4>3
    <3>. QED BY <1>1, <3>1 DEF FrameDone, r
  <2>. QED BY <1>1, <1>3, <2>1, <2>2 DEF FramesDone
<1>8. StackIsInProgress'
  <2>1. stack # << >> /\ stack' # << >> /\ stack'[1].file = stack[1].file
    BY <1>0, <1>1, <1>3, <1>4, EmptySeq
  <2>2. { stack'[i].file : i \in 1 .. n } = { stack[i].file : i \in 1 .. n }
    BY <1>4
  <2>. QED BY <1>1, <1>3, <2>1, <2>2 DEF IInv, StackIsInProgress, Running
<1>. QED BY <1>5, <1>6, <1>7, <1>8 DEF IInv

(* Dropping the last element.                                              *)
LEMMA FrontFacts ==
  ASSUME NEW S, NEW s \in Seq(S), s # << >>
  PROVE  /\ Len(s) \in Nat \ {0}
         /\ Front(s) \in Seq(S) /\ Len(Front(s)) = Len(s) - 1
         /\ DOMAIN Front(s) = 1 .. Len(s) - 1
         /\ \A i \in 1 .. Len(s) - 1 : Front(s)[i] = s[i]
<1>1. Len(s) \in Nat \ {0} /\ DOMAIN s = 1 .. Len(s)
  BY EmptySeq, LenProperties
<1>2. PICK k \in Nat : Len(s) = k + 1
  <2>1. Len(s) - 1 \in Nat /\ Len(s) = (Len(s) - 1) + 1
    BY <1>1
  <2>. QED BY <2>1
<1>3. \A i \in 1 .. k : s[i] \in S
  BY <1>2, ElementOfSeq
<1>4. Front(s) = SubSeq(s, 1, k)
  BY <1>2 DEF Front
<1>5. /\ SubSeq(s, 1, k) \in Seq(S)
      /\ Len(SubSeq(s, 1, k)) = IF 1 <= k THEN k - 1 + 1 ELSE 0
      /\ \A i \in 1 .. k - 1 + 1 : SubSeq(s, 1, k)[i] = s[1 + i - 1]
  BY <1>3, SubSeqProperties
<1>6. Len(SubSeq(s, 1, k)) = k
  BY <1>5
<1>7. \A i \in 1 .. k : SubSeq(s, 1, k)[i] = s[i]
  <2>1. k - 1 + 1 = k /\ \A i \in 1 .. k : 1 + i - 1 = i
    OBVIOUS
  <2>. QED BY <1>5, <2>1
<1>8. DOMAIN SubSeq(s, 1, k) = 1 .. k
  BY <1>5, <1>6, LenProperties
<1>9. Len(s) - 1 = k
  BY <1>2
<1>. QED BY <1>1, <1>4, <1>5, <1>6, <1>7, <1>8, <1>9

(* A sequence with an element more.                                        *)
LEMMA AppendFacts ==
  ASSUME NEW S, NEW s \in Seq(S), NEW e \in S
  PROVE  /\ Append(s, e) \in Seq(S) /\ Len(s) \in Nat /\ DOMAIN s = 1 .. Len(s)
         /\ DOMAIN Append(s, e) = 1 .. Len(s) + 1
         /\ \A i \in 1 .. Len(s) : Append(s, e)[i] = s[i]
         /\ Append(s, e)[Len(s) + 1] = e
         /\ Range(Append(s, e)) = Range(s) \cup {e}
<1>1. /\ Append(s, e) \in Seq(S) /\ Len(s) \in Nat /\ DOMAIN s = 1 .. Len(s)
      /\ Len(Append(s, e)) = Len(s) + 1
      /\ \A i \in 1 .. Len(s) : Append(s, e)[i] = s[i]
      /\ Append(s, e)[Len(s) + 1] = e
  BY AppendProperties, LenProperties
<1>2. DOMAIN Append(s, e) = 1 .. Len(s) + 1
  BY <1>1, LenProperties
<1>3. Range(Append(s, e)) = Range(s) \cup {e}
  BY <1>1, <1>2 DEF Range
<1>. QED BY <1>1, <1>2, <1>3

(* The innermost visit returns.                                            *)
LEMMA FinishStep ==
  ASSUME IInv, Finish
  PROVE  IInv'
<1> DEFINE n == Len(stack)
           f == Top.file
<1>0. stack \in Seq(Frame(fs)) /\ stack # << >> /\ order \in Seq(fs.files)
  BY DEF Finish, IInv, TypeOK, Frame
<1>1. /\ n \in Nat \ {0} /\ n \in 1 .. n /\ DOMAIN stack = 1 .. n
      /\ f \in fs.files /\ f = stack[n].file
  BY <1>0, TopFacts DEF Top
<1>2. /\ stack' \in Seq(Frame(fs)) /\ Len(stack') = n - 1 /\ DOMAIN stack' = 1 .. n - 1
      /\ \A i \in 1 .. n - 1 : stack'[i] = stack[i]
  <2>1. stack' = Front(stack)
    BY DEF Finish
  <2>. QED BY <1>0, <2>1, FrontFacts
<1>3. f \in inProgress /\ f \notin resolved
  BY <1>1 DEF IInv, CallsFollowImports
<1>4. /\ order' \in Seq(fs.files) /\ Len(order) \in Nat
      /\ DOMAIN order = 1 .. Len(order) /\ DOMAIN order' = 1 .. Len(order) + 1
      /\ \A i \in 1 .. Len(order) : order'[i] = order[i]
      /\ order'[Len(order) + 1] = f
      /\ Range(order') = Range(order) \cup {f}
  <2>1. order' = Append(order, f)
    BY DEF Finish
  <2>2. /\ Append(order, f) \in Seq(fs.files) /\ Len(order) \in Nat
        /\ DOMAIN order = 1 .. Len(order)
        /\ DOMAIN Append(order, f) = 1 .. Len(order) + 1
        /\ \A i \in 1 .. Len(order) : Append(order, f)[i] = order[i]
        /\ Append(order, f)[Len(order) + 1] = f
        /\ Range(Append(order, f)) = Range(order) \cup {f}
    <3>1. order \in Seq(fs.files) /\ f \in fs.files
      BY <1>0, <1>1
    <3>. HIDE DEF f
    <3>. QED BY <3>1, AppendFacts
  <2>. QED BY <2>1, <2>2
<1>5. TypeOK'
  <2>1. stack' \in Seq([file : fs.files, next : Nat \ {0}])
    BY <1>2 DEF Frame
  <2>. QED BY <1>1, <1>4, <2>1 DEF Finish, IInv, TypeOK
<1>6. EachModuleOnce'
  <2>2. \A i \in DOMAIN order : order[i] # f
    BY <1>3 DEF IInv, EachModuleOnce, Range
  <2>3. \A i, j \in DOMAIN order' : order'[i] = order'[j] => i = j
    BY <1>4, <2>2 DEF IInv, EachModuleOnce
  <2>. QED BY <1>4, <2>3 DEF Finish, IInv, EachModuleOnce
<1>7. \A i \in 1 .. n - 1 : stack[i].file # f
  BY <1>1 DEF IInv, CallsFollowImports
<1>8. CallsFollowImports'
  <2>1. \A i \in 1 .. n - 1 : i > 1 => stack'[i - 1] = stack[i - 1]
    BY <1>1, <1>2
  <2>2. \A i \in 1 .. n - 1 : stack'[i].file \in inProgress' \ resolved'
    <3>1. \A i \in 1 .. n - 1 : i \in 1 .. n
      BY <1>1
    <3>2. \A i \in 1 .. n - 1 : stack[i].file \in inProgress \ resolved
      BY <1>1, <3>1 DEF IInv, CallsFollowImports
    <3>3. inProgress' = inProgress \ {f} /\ resolved' = resolved \cup {f}
      BY DEF Finish
    <3>. QED BY <1>2, <1>7, <3>2, <3>3
  <2>3. \A i, j \in 1 .. n - 1 : stack'[i].file = stack'[j].file => i = j
    <3>1. \A i \in 1 .. n - 1 : i \in 1 .. n
      BY <1>1
    <3>2. \A i, j \in 1 .. n - 1 : stack[i].file = stack[j].file => i = j
      BY <1>1, <3>1 DEF IInv, CallsFollowImports
    <3>. QED BY <1>2, <3>2
  <2>4. ASSUME NEW i \in 1 .. n - 1, i > 1
        PROVE  /\ stack'[i - 1].next \in DOMAIN fs.imports[stack'[i - 1].file]
               /\ stack'[i].file = Dep(fs, stack'[i - 1].file, stack'[i - 1].next)
    <3>1. /\ stack[i - 1].next \in DOMAIN fs.imports[stack[i - 1].file]
          /\ stack[i].file = Dep(fs, stack[i - 1].file, stack[i - 1].next)
      <4>1. i \in DOMAIN stack
        BY <1>1, <2>4
      <4>. QED BY <2>4, <4>1 DEF IInv, CallsFollowImports
    <3>. QED BY <1>2, <2>1, <2>4, <3>1
  <2>. QED BY <1>2, <2>2, <2>3, <2>4 DEF Finish, CallsFollowImports
<1>9. FramesDone'
  BY <1>1, <1>2 DEF Finish, IInv, FramesDone, FrameDone
<1>10. StackIsInProgress'
  <2>1. stack' # << >> => stack'[1].file = fs.entry
    <3>1. stack' # << >> => n - 1 \in Nat \ {0}
      BY <1>1, <1>2, EmptySeq
    <3>. QED BY <1>0, <1>1, <1>2, <3>1 DEF IInv, StackIsInProgress
  <2>2. inProgress' = { stack'[i].file : i \in 1 .. n - 1 }
    <3>1. inProgress = { stack[i].file : i \in 1 .. n }
      BY <1>1 DEF Finish, IInv, StackIsInProgress
    <3>2. { stack[i].file : i \in 1 .. n } \ {f} = { stack[i].file : i \in 1 .. n - 1 }
      <4>1. \A k \in Nat \ {0} : /\ \A i \in 1 .. k : (i \in 1 .. k - 1 \/ i = k)
                                 /\ \A i \in 1 .. k - 1 : i \in 1 .. k
        OBVIOUS
      <4>2. /\ \A i \in 1 .. n : (i \in 1 .. n - 1 \/ i = n)
            /\ \A i \in 1 .. n - 1 : i \in 1 .. n
        BY <1>1, <4>1
      <4>. QED BY <1>1, <1>7, <4>2
    <3>3. { stack[i].file : i \in 1 .. n - 1 } = { stack'[i].file : i \in 1 .. n - 1 }
      BY <1>2
    <3>. QED BY <3>1, <3>2, <3>3 DEF Finish
  <2>3. Running' => stack' # << >>
    <3>1. Running' => n # 1
      BY DEF Finish, Running
    <3>. QED BY <1>1, <1>2, <3>1, EmptySeq
  <2>. QED BY <1>2, <2>1, <2>2, <2>3 DEF Finish, StackIsInProgress
<1>. QED BY <1>5, <1>6, <1>8, <1>9, <1>10 DEF IInv

---------------------------------------------------------------------------
(* The invariant                                                           *)

LEMMA InitIInv == Init => IInv
<1> SUFFICES ASSUME Init PROVE IInv
  OBVIOUS
<1>1. TypeOK
  BY DEF Init, TypeOK
<1>2. EachModuleOnce
  BY DEF Init, EachModuleOnce, Range
<1>3. CallsFollowImports /\ FramesDone /\ StackIsInProgress
  BY DEF Init, CallsFollowImports, FramesDone, StackIsInProgress
<1>. QED BY <1>1, <1>2, <1>3 DEF IInv

(* visit(f) keeps the invariant, whether f is the entry or an import.      *)
LEMMA VisitStep ==
  ASSUME IInv, Running,
         NEW f \in fs.files, Reachable(fs, f), f \notin resolved, Visit(f),
         \/ stack = << >> /\ f = fs.entry
         \/ /\ stack # << >> /\ Top.next \in DOMAIN fs.imports[Top.file]
            /\ f = Dep(fs, Top.file, Top.next)
  PROVE  IInv'
<1>0. inProgress \subseteq fs.files
  BY DEF IInv, TypeOK
<1>1. CASE f \in inProgress
  <2>1. /\ result' \in Errors /\ UNCHANGED <<fs, resolved, order, stack>>
        /\ inProgress' = inProgress
    BY <1>1 DEF Visit, Fail, Errors
  <2>. QED BY <1>0, <2>1, FailStep
<1>2. CASE f \notin inProgress /\ fs.text[f] # "ok"
  <2>1. fs \in Projects /\ WellFormed(fs)
    BY ProjectsAssumption DEF IInv, TypeOK
  <2>2. fs.text[f] \in Faults
    BY <1>2, <2>1 DEF WellFormed, Range
  <2>3. /\ result' \in Errors /\ UNCHANGED <<fs, resolved, order, stack>>
        /\ inProgress' = inProgress \cup {f}
    BY <1>2, <2>2 DEF Visit, Fail, Errors
  <2>. QED BY <1>0, <2>3, FailStep
<1>3. CASE f \notin inProgress /\ fs.text[f] = "ok"
  <2>1. /\ inProgress' = inProgress \cup {f}
        /\ stack' = Append(stack, [file |-> f, next |-> 1])
        /\ UNCHANGED <<fs, resolved, order, result>>
    BY <1>3 DEF Visit
  <2>. QED BY <1>3, <2>1, PushStep
<1>. QED BY <1>1, <1>2, <1>3

(* What the innermost visit looks for next.                                *)
LEMMA ImportFacts ==
  ASSUME IInv, AtImport, Dep(fs, Top.file, Top.next) # NotFound
  PROVE  /\ Dep(fs, Top.file, Top.next) \in fs.files
         /\ Dep(fs, Top.file, Top.next) \in Deps(fs, Top.file)
         /\ Reachable(fs, Dep(fs, Top.file, Top.next))
<1>1. /\ WellFormed(fs) /\ Top.file \in fs.files /\ Reachable(fs, Top.file)
      /\ Top.next \in DOMAIN fs.imports[Top.file]
  BY TopFacts DEF AtImport, FrameDone
<1>. QED BY <1>1, DepReachable

LEMMA NextIInv == IInv /\ [Next]_vars => IInv'
<1> SUFFICES ASSUME IInv, [Next]_vars PROVE IInv'
  OBVIOUS
<1>1. CASE VisitEntry
  <2>1. fs.entry \in fs.files
    BY ProjectsAssumption DEF IInv, TypeOK, WellFormed
  <2>2. fs.entry \notin resolved
    BY <1>1 DEF VisitEntry, IInv, StackIsInProgress
  <2>. QED BY <1>1, <2>1, <2>2, EntryReachable, VisitStep DEF VisitEntry
<1>2. CASE Missing
  <2>1. /\ Running /\ result' \in Errors /\ UNCHANGED <<fs, resolved, order, stack>>
        /\ inProgress' = inProgress /\ inProgress \subseteq fs.files
    BY <1>2 DEF Missing, AtImport, Fail, Errors, IInv, TypeOK
  <2>. QED BY <2>1, FailStep
<1>3. CASE VisitDep
  <2> DEFINE f == Dep(fs, Top.file, Top.next)
  <2>1. /\ AtImport /\ Running /\ f # NotFound /\ f \notin resolved /\ Visit(f)
        /\ stack # << >> /\ Top.next \in DOMAIN fs.imports[Top.file]
    BY <1>3 DEF VisitDep, AtImport
  <2>2. f \in fs.files /\ Reachable(fs, f)
    BY <2>1, ImportFacts
  <2>. QED BY <2>1, <2>2, VisitStep
<1>4. CASE CheckExport
  <2>1. CASE ItemVisible(fs, Top.file, Top.next)
    BY <1>4, <2>1, AdvanceStep DEF CheckExport
  <2>2. CASE ~ItemVisible(fs, Top.file, Top.next)
    <3>1. /\ Running /\ result' \in Errors /\ UNCHANGED <<fs, resolved, order, stack>>
          /\ inProgress' = inProgress /\ inProgress \subseteq fs.files
      BY <1>4, <2>2 DEF CheckExport, AtImport, Fail, Errors, IInv, TypeOK
    <3>. QED BY <3>1, FailStep
  <2>. QED BY <2>1, <2>2
<1>5. CASE Finish
  BY <1>5, FinishStep
<1>6. CASE UNCHANGED vars
  <2>1. TypeOK'
    BY <1>6 DEF vars, IInv, TypeOK
  <2>2. EachModuleOnce' /\ CallsFollowImports'
    BY <1>6 DEF vars, IInv, EachModuleOnce, CallsFollowImports
  <2>3. FramesDone' /\ StackIsInProgress'
    BY <1>6 DEF vars, IInv, FramesDone, FrameDone, StackIsInProgress, Running
  <2>. QED BY <2>1, <2>2, <2>3 DEF IInv
<1>. QED BY <1>1, <1>2, <1>3, <1>4, <1>5, <1>6 DEF Next

LEMMA IInvInvariant == Spec => []IInv
BY InitIInv, NextIInv, PTL DEF Spec

(* The search only handles files of the project, whatever the imports.     *)
THEOREM ResolveTypeCorrect == Spec => []TypeOK
<1>1. IInv => TypeOK
  BY DEF IInv
<1>. QED BY <1>1, IInvInvariant, PTL

(* The final loop of resolve() finds every path of order in the map, and   *)
(* leaves none behind: a file two importers share is inserted once.        *)
THEOREM OrderNamesEachModuleOnce == Spec => []EachModuleOnce
<1>1. IInv => EachModuleOnce
  BY DEF IInv
<1>. QED BY <1>1, IInvInvariant, PTL

(* The recursion of visit is a path of the import graph without            *)
(* repetition, and in_progress holds it: the search cannot recur forever.  *)
THEOREM CallsAreAnImportPath == Spec => []CallsFollowImports
<1>1. IInv => CallsFollowImports
  BY DEF IInv
<1>. QED BY <1>1, IInvInvariant, PTL

---------------------------------------------------------------------------
(* Resolution keeps the promise of ImportOrder                             *)

(* ImportOrder sees the same project and the same import graph.            *)
LEMMA SameGraph ==
  ASSUME NEW p, NEW f
  PROVE  /\ O!NotFound = NotFound
         /\ \A i : O!Dep(p, f, i) = Dep(p, f, i)
         /\ \A i : O!ItemVisible(p, f, i) <=> ItemVisible(p, f, i)
         /\ O!Deps(p, f) = Deps(p, f)
         /\ O!Sound(p, f) <=> Sound(p, f)
         /\ O!Reachable(p, f) <=> Reachable(p, f)
         /\ O!Cyclic(p) <=> Cyclic(p)
<1>1. O!NotFound = NotFound /\ O!NoItem = NoItem
  BY DEF O!NotFound, NotFound, O!NoItem, NoItem
<1>2. ASSUME NEW name
      PROVE  O!FindModule(p, name) = FindModule(p, name)
  BY <1>1 DEF O!FindModule, FindModule, O!Holding, Holding, O!FirstHit, FirstHit,
              O!SearchPaths, SearchPaths, O!Range, Range
<1>3. ASSUME NEW g, NEW i
      PROVE  O!Dep(p, g, i) = Dep(p, g, i)
  BY <1>2 DEF O!Dep, Dep
<1>4. ASSUME NEW g
      PROVE  O!Exportable(p, g) = Exportable(p, g)
  BY DEF O!Exportable, Exportable
<1>5. ASSUME NEW i
      PROVE  O!ItemVisible(p, f, i) <=> ItemVisible(p, f, i)
  BY <1>1, <1>3, <1>4 DEF O!ItemVisible, ItemVisible
<1>6. ASSUME NEW g
      PROVE  O!Deps(p, g) = Deps(p, g)
  BY <1>1, <1>3 DEF O!Deps, Deps
<1>7. O!Sound(p, f) <=> Sound(p, f)
  BY <1>1, <1>3, <1>5 DEF O!Sound, Sound
<1>8. ASSUME NEW g
      PROVE  O!Reachable(p, g) <=> Reachable(p, g)
  BY <1>6 DEF O!Reachable, Reachable
<1>9. O!Cyclic(p) <=> Cyclic(p)
  BY <1>6, <1>8 DEF O!Cyclic, Cyclic
<1>. QED BY <1>1, <1>3, <1>5, <1>6, <1>7, <1>8, <1>9

LEMMA SameRange == ASSUME NEW s PROVE O!Range(s) = Range(s)
BY DEF O!Range, Range

(* What the innermost visit has done when it returns.                      *)
LEMMA FinishAdds ==
  ASSUME IInv, Finish
  PROVE  O!Add(Top.file)
<1> DEFINE f == Top.file
           n == Len(stack)
<1>1. /\ WellFormed(fs) /\ n \in Nat \ {0} /\ DOMAIN stack = 1 .. n
      /\ f \in fs.files /\ Top.next \in Nat \ {0} /\ FrameDone(fs, resolved, Top)
  BY TopFacts DEF Finish
<1>2. Range(order) = resolved /\ resolved \subseteq fs.files /\ NotFound \notin fs.files
  BY <1>1 DEF IInv, EachModuleOnce, TypeOK, WellFormed
<1>3. \A j \in DOMAIN fs.imports[f] : Dep(fs, f, j) \in resolved /\ ItemVisible(fs, f, j)
  <2>1. \A s, k : s \in Seq(Range(s)) /\ k \in Nat \ {0} /\ k \notin DOMAIN s
                    => \A j \in DOMAIN s : j < k
    <3>1. TAKE s, k
    <3>2. HAVE s \in Seq(Range(s)) /\ k \in Nat \ {0} /\ k \notin DOMAIN s
    <3>3. Len(s) \in Nat /\ DOMAIN s = 1 .. Len(s)
      BY <3>2, LenProperties
    <3>. QED BY <3>2, <3>3
  <2>2. fs.imports[f] \in Seq(Range(fs.imports[f])) /\ Top.next \notin DOMAIN fs.imports[f]
    BY <1>1 DEF WellFormed, Finish
  <2>3. \A j \in DOMAIN fs.imports[f] : j < Top.next
    BY <1>1, <2>1, <2>2
  <2>. QED BY <1>1, <2>3 DEF FrameDone
<1>4. Reachable(fs, f) /\ Sound(fs, f)
  BY <1>1, <1>2, <1>3 DEF FrameDone, Sound
<1>5. Deps(fs, f) \subseteq Range(order)
  BY <1>2, <1>3 DEF Deps
<1>6. f \notin Range(order)
  BY <1>1, <1>2 DEF IInv, CallsFollowImports, Top
<1>7. n = 1 <=> f = fs.entry
  <2>1. stack[1].file = fs.entry /\ f = stack[n].file /\ 1 \in DOMAIN stack /\ n \in DOMAIN stack
    BY <1>1 DEF Finish, IInv, StackIsInProgress, Top
  <2>. QED BY <2>1 DEF IInv, CallsFollowImports
<1>8. /\ result = "running" /\ order' = Append(order, f) /\ UNCHANGED fs
      /\ result' = IF n = 1 THEN "ok" ELSE "running"
  BY DEF Finish, Running
<1>. HIDE DEF f, n
<1>9. O!Add(f)
  BY <1>4, <1>5, <1>6, <1>7, <1>8, SameGraph, SameRange DEF O!Add
<1>. QED BY <1>9 DEF f

(* The files being visited import one another in a chain: an import of one *)
(* of them closes a circle.                                                *)
LEMMA CircleFound ==
  ASSUME IInv, AtImport, Dep(fs, Top.file, Top.next) \in inProgress
  PROVE  Cyclic(fs)
<1> DEFINE n == Len(stack)
           S == inProgress
<1>1. /\ WellFormed(fs) /\ n \in Nat \ {0} /\ DOMAIN stack = 1 .. n /\ stack # << >>
      /\ Top.next \in DOMAIN fs.imports[Top.file] /\ Top = stack[n]
  BY TopFacts DEF AtImport, Top
<1>2. S = { stack[i].file : i \in 1 .. n } /\ S \subseteq fs.files
  BY <1>1 DEF AtImport, IInv, StackIsInProgress, TypeOK
<1>3. NotFound \notin fs.files
  BY <1>1 DEF WellFormed
<1>4. ASSUME NEW i \in 1 .. n
      PROVE  Reachable(fs, stack[i].file) /\ Deps(fs, stack[i].file) \cap S # {}
  <2>1. Reachable(fs, stack[i].file)
    BY <1>1 DEF IInv, FramesDone, FrameDone
  <2>2. CASE i = n
    <3>1. Dep(fs, Top.file, Top.next) \in Deps(fs, Top.file)
      BY <1>1, <1>2, <1>3 DEF Deps
    <3>. QED BY <1>1, <2>1, <2>2, <3>1
  <2>3. CASE i # n
    <3>1. i + 1 \in 1 .. n /\ i + 1 > 1 /\ (i + 1) - 1 = i
      BY <1>1, <2>3
    <3>2. /\ stack[i].next \in DOMAIN fs.imports[stack[i].file]
          /\ stack[i + 1].file = Dep(fs, stack[i].file, stack[i].next)
      <4>1. \A j \in 1 .. n : j > 1 =>
              /\ stack[j - 1].next \in DOMAIN fs.imports[stack[j - 1].file]
              /\ stack[j].file = Dep(fs, stack[j - 1].file, stack[j - 1].next)
        BY <1>1 DEF IInv, CallsFollowImports
      <4>2. /\ stack[(i + 1) - 1].next \in DOMAIN fs.imports[stack[(i + 1) - 1].file]
            /\ stack[i + 1].file
                 = Dep(fs, stack[(i + 1) - 1].file, stack[(i + 1) - 1].next)
        BY <3>1, <4>1
      <4>. QED BY <3>1, <4>2
    <3>3. stack[i + 1].file \in S
      BY <1>2, <3>1
    <3>4. stack[i + 1].file \in Deps(fs, stack[i].file)
      BY <1>2, <1>3, <3>2, <3>3 DEF Deps
    <3>. QED BY <2>1, <3>3, <3>4
  <2>. QED BY <2>2, <2>3
<1>5. S # {} /\ \A g \in S : Reachable(fs, g) /\ Deps(fs, g) \cap S # {}
  BY <1>2, <1>4
<1>. QED BY <1>2, <1>5 DEF Cyclic

(* An error has its cause in a file the entry needs.                       *)
LEMMA FailHasCause ==
  ASSUME NEW f \in fs.files, Running, Reachable(fs, f), result' \in O!Evidence(f),
         UNCHANGED <<fs, order>>
  PROVE  O!Fail
BY SameGraph DEF O!Fail, Running

(* visit(f) fails for a reason, or only pushes a frame.                    *)
LEMMA VisitRefines ==
  ASSUME Running, NEW f \in fs.files, Reachable(fs, f), Visit(f),
         f \in inProgress => Cyclic(fs)
  PROVE  O!Fail \/ UNCHANGED O!vars
<1>1. CASE f \in inProgress
  <2>1. result' \in O!Evidence(f) /\ UNCHANGED <<fs, order>>
    BY <1>1, SameGraph DEF Visit, Fail, O!Evidence
  <2>. QED BY <2>1, FailHasCause
<1>2. CASE f \notin inProgress /\ fs.text[f] # "ok"
  <2>1. result' \in O!Evidence(f) /\ UNCHANGED <<fs, order>>
    BY <1>2 DEF Visit, Fail, O!Evidence
  <2>. QED BY <2>1, FailHasCause
<1>3. CASE f \notin inProgress /\ fs.text[f] = "ok"
  BY <1>3 DEF Visit, O!vars
<1>. QED BY <1>1, <1>2, <1>3

LEMMA NextRefines == IInv /\ [Next]_vars => [O!Next]_(O!vars)
<1> SUFFICES ASSUME IInv, [Next]_vars PROVE O!Next \/ UNCHANGED O!vars
  OBVIOUS
<1>1. CASE VisitEntry
  <2>1. /\ fs.entry \in fs.files /\ Running /\ Visit(fs.entry)
        /\ fs.entry \notin inProgress
    <3>1. Running /\ stack = << >> /\ Visit(fs.entry)
      BY <1>1 DEF VisitEntry
    <3>2. fs.entry \in fs.files
      BY ProjectsAssumption DEF IInv, TypeOK, WellFormed
    <3>3. inProgress = {}
      BY <3>1 DEF IInv, StackIsInProgress
    <3>. QED BY <3>1, <3>2, <3>3
  <2>2. O!Fail \/ UNCHANGED O!vars
    BY <2>1, EntryReachable, VisitRefines
  <2>. QED BY <2>2 DEF O!Next
<1>2. CASE Missing
  <2>1. /\ Running /\ Top.next \in DOMAIN fs.imports[Top.file] /\ stack # << >>
        /\ Dep(fs, Top.file, Top.next) = NotFound
        /\ result' = "not found" /\ UNCHANGED <<fs, order>>
    BY <1>2 DEF Missing, AtImport, Fail
  <2>2. Top.file \in fs.files /\ Reachable(fs, Top.file)
    BY <2>1, TopFacts DEF FrameDone
  <2>3. result' \in O!Evidence(Top.file)
    BY <2>1, SameGraph DEF O!Evidence
  <2>4. O!Fail
    BY <2>1, <2>2, <2>3, FailHasCause
  <2>. QED BY <2>4 DEF O!Next
<1>3. CASE VisitDep
  <2> DEFINE f == Dep(fs, Top.file, Top.next)
  <2>1. AtImport /\ Running /\ f # NotFound /\ Visit(f)
    BY <1>3 DEF VisitDep, AtImport
  <2>2. f \in fs.files /\ Reachable(fs, f)
    BY <2>1, ImportFacts
  <2>3. f \in inProgress => Cyclic(fs)
    BY <2>1, CircleFound
  <2>4. O!Fail \/ UNCHANGED O!vars
    BY <2>1, <2>2, <2>3, VisitRefines
  <2>. QED BY <2>4 DEF O!Next
<1>4. CASE CheckExport
  <2>1. /\ Running /\ AtImport /\ Top.next \in DOMAIN fs.imports[Top.file] /\ stack # << >>
        /\ Dep(fs, Top.file, Top.next) \in resolved
    BY <1>4 DEF CheckExport, AtImport
  <2>2. CASE ItemVisible(fs, Top.file, Top.next)
    BY <1>4, <2>2 DEF CheckExport, O!vars
  <2>3. CASE ~ItemVisible(fs, Top.file, Top.next)
    <3>1. result' = "not exported" /\ UNCHANGED <<fs, order>>
      BY <1>4, <2>3 DEF CheckExport, Fail
    <3>2. Top.file \in fs.files /\ Reachable(fs, Top.file) /\ WellFormed(fs)
      BY <2>1, TopFacts DEF FrameDone
    <3>3. Dep(fs, Top.file, Top.next) # NotFound
      BY <2>1, <3>2 DEF IInv, TypeOK, WellFormed
    <3>4. result' \in O!Evidence(Top.file)
      BY <2>1, <2>3, <3>1, <3>3, SameGraph DEF O!Evidence
    <3>5. O!Fail
      BY <2>1, <3>1, <3>2, <3>4, FailHasCause
    <3>. QED BY <3>5 DEF O!Next
  <2>. QED BY <2>2, <2>3
<1>5. CASE Finish
  <2>1. Top.file \in fs.files
    BY <1>5, TopFacts DEF Finish
  <2>. QED BY <1>5, <2>1, FinishAdds DEF O!Next
<1>6. CASE UNCHANGED vars
  BY <1>6 DEF vars, O!vars
<1>. QED BY <1>1, <1>2, <1>3, <1>4, <1>5, <1>6 DEF Next

(* The compilation that follows resolution gets every module after the     *)
(* modules it imports and only modules the entry needs, and an error only  *)
(* when the project has it.                                                *)
THEOREM ResolveStepsAreAllowed == Spec => O!Init /\ [][O!Next]_(O!vars)
<1>1. Init => O!Init
  BY DEF Init, O!Init
<1>. QED BY <1>1, IInvInvariant, NextRefines, PTL DEF Spec
---------------------------------------------------------------------------
(* The verdict                                                             *)

(* Every module comes after those it imports.                              *)
DepsFirst ==
  \A m \in DOMAIN order : \A i \in DOMAIN fs.imports[order[m]] :
    \E j \in 1 .. m - 1 : order[j] = Dep(fs, order[m], i)

(* The modules in order are needed and sound.                              *)
OrderIsSound ==
  \A m \in DOMAIN order : Reachable(fs, order[m]) /\ Sound(fs, order[m])

(* Ok once the entry is resolved, an error for something wrong with the    *)
(* project.                                                                *)
ResultHasCause ==
  /\ result = "ok" => fs.entry \in resolved
  /\ ~Running /\ result # "ok" =>
       Cyclic(fs) \/ \E f \in fs.files : Reachable(fs, f) /\ ~Sound(fs, f)

VInv ==
  /\ IInv
  /\ DepsFirst
  /\ OrderIsSound
  /\ ResultHasCause

(* The files of order are of the project.                                  *)
LEMMA OrderFacts ==
  ASSUME IInv
  PROVE  order \in Seq(fs.files) /\ Len(order) \in Nat /\ DOMAIN order = 1 .. Len(order)
BY LenProperties DEF IInv, TypeOK

(* A module is added to order after all of its imports.                    *)
LEMMA AddKeepsOrder ==
  ASSUME IInv, DepsFirst, OrderIsSound, NEW f \in fs.files, O!Add(f)
  PROVE  DepsFirst' /\ OrderIsSound' /\ Len(order') > 0
<1> DEFINE n == Len(order)
<1>1. order \in Seq(fs.files)
  BY DEF IInv, TypeOK
<1>2. order' = Append(order, f) /\ fs' = fs
  BY DEF O!Add
<1>3. Deps(fs, f) \subseteq Range(order) /\ Sound(fs, f) /\ Reachable(fs, f)
  <2>1. O!Deps(fs, f) \subseteq O!Range(order) /\ O!Sound(fs, f) /\ O!Reachable(fs, f)
    BY DEF O!Add
  <2>. QED BY <2>1, SameGraph, SameRange
<1>4. /\ n \in Nat /\ DOMAIN order = 1 .. n
      /\ DOMAIN order' = 1 .. n + 1 /\ Len(order') = n + 1
      /\ \A i \in 1 .. n : order'[i] = order[i]
      /\ order'[n + 1] = f
  BY <1>1, <1>2, AppendFacts, AppendProperties
<1>5. ASSUME NEW i \in DOMAIN fs.imports[f]
      PROVE  \E j \in 1 .. n : order'[j] = Dep(fs, f, i)
  <2>1. Dep(fs, f, i) \in Range(order)
    BY <1>3 DEF Sound, Deps
  <2>. QED BY <1>4, <2>1 DEF Range
<1>6. ASSUME NEW m \in 1 .. n + 1, NEW i \in DOMAIN fs.imports[order'[m]]
      PROVE  \E j \in 1 .. m - 1 : order'[j] = Dep(fs, order'[m], i)
  <2>1. CASE m = n + 1
    BY <1>4, <1>5, <1>6, <2>1
  <2>2. CASE m \in 1 .. n
    <3>1. order'[m] = order[m]
      BY <1>4, <2>2
    <3>2. PICK j \in 1 .. m - 1 : order[j] = Dep(fs, order[m], i)
      BY <1>4, <1>6, <2>2, <3>1 DEF DepsFirst
    <3>3. j \in 1 .. n
      BY <1>4, <2>2, <3>2
    <3>. QED BY <1>4, <3>1, <3>2, <3>3
  <2>. QED BY <1>4, <2>1, <2>2
<1>7. DepsFirst'
  BY <1>2, <1>4, <1>6 DEF DepsFirst
<1>8. OrderIsSound'
  <2>1. \A m \in 1 .. n + 1 : Reachable(fs, order'[m]) /\ Sound(fs, order'[m])
    BY <1>3, <1>4 DEF OrderIsSound
  <2>. QED BY <1>2, <1>4, <2>1 DEF OrderIsSound
<1>. QED BY <1>4, <1>7, <1>8

LEMMA InitVInv == Init => VInv
BY InitIInv DEF Init, VInv, DepsFirst, OrderIsSound, ResultHasCause, Running

LEMMA NextVInv == VInv /\ [Next]_vars => VInv'
<1> SUFFICES ASSUME VInv, [Next]_vars PROVE VInv'
  OBVIOUS
<1>1. IInv /\ IInv' /\ (O!Next \/ UNCHANGED O!vars)
  BY NextIInv, NextRefines DEF VInv
<1>2. Range(order') = resolved'
  BY <1>1 DEF IInv, EachModuleOnce
<1>3. CASE \E f \in fs.files : O!Add(f)
  <2>1. PICK f \in fs.files : O!Add(f)
    BY <1>3
  <2>2. DepsFirst' /\ OrderIsSound'
    BY <1>1, <2>1, AddKeepsOrder DEF VInv
  <2>3. /\ order' = Append(order, f) /\ fs' = fs
        /\ result' = IF f = fs.entry THEN "ok" ELSE "running"
    BY <2>1 DEF O!Add
  <2>4. f \in resolved'
    BY <1>1, <1>2, <2>3, OrderFacts, AppendFacts
  <2>. QED BY <1>1, <2>2, <2>3, <2>4 DEF VInv, ResultHasCause, Running
<1>4. CASE O!Fail
  <2>1. UNCHANGED <<fs, order>>
    BY <1>4 DEF O!Fail
  <2>2. PICK f \in fs.files : Reachable(fs, f) /\ result' \in O!Evidence(f)
    BY <1>4, SameGraph DEF O!Fail
  <2>3. Cyclic(fs) \/ ~Sound(fs, f)
    BY <2>2, SameGraph DEF O!Evidence, Sound
  <2>4. result' # "ok"
    <3>1. fs.text[f] # "ok" => fs.text[f] \in Faults
      BY <1>1, ProjectsAssumption DEF IInv, TypeOK, WellFormed, Range
    <3>. QED BY <2>2, <3>1 DEF O!Evidence
  <2>5. DepsFirst' /\ OrderIsSound'
    BY <2>1 DEF VInv, DepsFirst, OrderIsSound
  <2>. QED BY <1>1, <2>1, <2>2, <2>3, <2>4, <2>5 DEF VInv, ResultHasCause
<1>5. CASE UNCHANGED O!vars
  <2>1. UNCHANGED <<fs, order, result>>
    BY <1>5 DEF O!vars
  <2>2. resolved' = resolved
    BY <1>1, <1>2, <2>1 DEF IInv, EachModuleOnce
  <2>. QED BY <1>1, <2>1, <2>2 DEF VInv, DepsFirst, OrderIsSound, ResultHasCause, Running
<1>. QED BY <1>1, <1>3, <1>4, <1>5 DEF O!Next

LEMMA VInvInvariant == Spec => []VInv
BY InitVInv, NextVInv, PTL DEF Spec

(* Files that import one another in a circle are never all resolved: one   *)
(* of them would come first, before its own import.                        *)
LEMMA OrderHasNoCircle ==
  ASSUME VInv, NEW S, S # {}, S \subseteq resolved, \A f \in S : Deps(fs, f) \cap S # {}
  PROVE  FALSE
<1> DEFINE I == { i \in DOMAIN order : order[i] \in S }
<1>1. Range(order) = resolved /\ Len(order) \in Nat /\ DOMAIN order = 1 .. Len(order)
  BY OrderFacts DEF VInv, IInv, EachModuleOnce
<1>2. I # {} /\ I \subseteq Nat
  BY <1>1 DEF Range
<1>3. PICK i \in I : \A j \in I : i <= j
  BY <1>2, LeastElement
<1>4. PICK g \in Deps(fs, order[i]) \cap S : TRUE
  BY <1>3
<1>5. PICK k \in DOMAIN fs.imports[order[i]] : g = Dep(fs, order[i], k)
  BY <1>4 DEF Deps
<1>6. PICK j \in 1 .. i - 1 : order[j] = g
  BY <1>5 DEF VInv, DepsFirst
<1>7. j \in I /\ j < i
  BY <1>1, <1>4, <1>6
<1>. QED BY <1>1, <1>3, <1>7

(* What is resolved when the entry is: what the entry needs.               *)
LEMMA ResolvedIsNeeded ==
  ASSUME VInv, fs.entry \in resolved
  PROVE  \A f \in fs.files : f \in resolved <=> Reachable(fs, f)
<1>1. /\ Range(order) = resolved /\ resolved \subseteq fs.files
      /\ Len(order) \in Nat /\ DOMAIN order = 1 .. Len(order)
  BY OrderFacts DEF VInv, IInv, EachModuleOnce, TypeOK
<1>2. \A f \in resolved : Reachable(fs, f)
  BY <1>1 DEF VInv, OrderIsSound, Range
<1>3. ASSUME NEW f \in resolved, NEW g \in Deps(fs, f)
      PROVE  g \in resolved
  <2>1. PICK m \in DOMAIN order : order[m] = f
    BY <1>1 DEF Range
  <2>2. PICK i \in DOMAIN fs.imports[f] : g = Dep(fs, f, i)
    BY DEF Deps
  <2>3. PICK j \in 1 .. m - 1 : order[j] = g
    BY <2>1, <2>2 DEF VInv, DepsFirst
  <2>4. j \in DOMAIN order
    BY <1>1, <2>1, <2>3
  <2>. QED BY <1>1, <2>3, <2>4 DEF Range
<1>4. \A f \in fs.files : Reachable(fs, f) => f \in resolved
  BY <1>1, <1>3 DEF Reachable
<1>. QED BY <1>2, <1>4

(* For every project: resolve() returns Ok exactly when what the entry     *)
(* needs is readable, found, exported and free of import cycles, and then  *)
(* with the map of all the files it needs and of no other.                 *)
THEOREM VerdictIsCorrect == Spec => []VerdictIsRight
<1>1. VInv => VerdictIsRight
  <2>. SUFFICES ASSUME VInv, ~Running PROVE VerdictIsRight
    BY DEF VerdictIsRight
  <2>1. Range(order) = resolved /\ resolved \subseteq fs.files
    BY DEF VInv, IInv, EachModuleOnce, TypeOK
  <2>2. CASE result = "ok"
    <3>1. \A f \in fs.files : f \in resolved <=> Reachable(fs, f)
      BY <2>2, ResolvedIsNeeded DEF VInv, ResultHasCause
    <3>2. \A f \in fs.files : Reachable(fs, f) => Sound(fs, f)
      BY <2>1, <3>1 DEF VInv, OrderIsSound, Range
    <3>3. ~Cyclic(fs)
      <4>. SUFFICES ASSUME Cyclic(fs) PROVE FALSE
        OBVIOUS
      <4>1. PICK S \in SUBSET fs.files :
              S # {} /\ \A f \in S : Reachable(fs, f) /\ Deps(fs, f) \cap S # {}
        BY DEF Cyclic
      <4>2. S \subseteq resolved
        BY <3>1, <4>1
      <4>. QED BY <4>1, <4>2, OrderHasNoCircle
    <3>4. resolved = { f \in fs.files : Reachable(fs, f) }
      BY <2>1, <3>1
    <3>. QED BY <2>2, <3>2, <3>3, <3>4 DEF VerdictIsRight
  <2>3. CASE result # "ok"
    BY <2>3 DEF VInv, ResultHasCause, VerdictIsRight
  <2>. QED BY <2>2, <2>3
<1>. QED BY <1>1, VInvInvariant, PTL
=============================================================================
