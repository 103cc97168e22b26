------------------------ MODULE WindowsBackend_proofs ------------------------
(***************************************************************************)
(* What the runs of WindowsBackend check for two artifacts and two         *)
(* timestamp authorities, for every number of both.                        *)
(*                                                                         *)
(* The three safety properties speak of finished calls.  They rest on      *)
(* where a call in progress is: SortedListing and Progress say which       *)
(* <<artifact, authority>> pairs have run and which run exited 0, as a     *)
(* function of the loop position and of the authority to try next.         *)
(***************************************************************************)
EXTENDS WindowsBackend, FiniteSetTheorems, TLAPS

(* The glob expansion is strictly sorted, so positions and artifacts come   *)
(* in the same order.                                                       *)
SortedListing ==
  \A i, j \in DOMAIN artifacts : i < j => artifacts[i] < artifacts[j]

(* Everything before the loop position succeeded, nothing after it ran, and *)
(* at it exactly the authorities before the next one were tried, in vain.   *)
Progress ==
  /\ pc = "signing" =>
       /\ \A i \in DOMAIN artifacts : i < index => stamp[artifacts[i]] \in 1..ntsa
       /\ stamp[artifacts[index]] = 0
       /\ \A t \in Tsas : <<artifacts[index], t>> \in ran <=> t < attempt
       /\ \A i \in DOMAIN artifacts :
            i > index => /\ stamp[artifacts[i]] = 0
                         /\ \A t \in Tsas : <<artifacts[i], t>> \notin ran
  /\ pc = "verifying" =>
       \A i \in DOMAIN artifacts : stamp[artifacts[i]] \in 1..ntsa

IInv ==
  /\ TypeOK
  /\ SortedListing
  /\ Progress
  /\ FallbackInOrder
  /\ FailedMarksTheStop
  /\ SignedCoversListing

------------------------------------------------------------------------------
USE NArtifactsAssumption, NTsaAssumption

(* What a listing is: a sequence of artifacts that is not too long. *)
LEMMA ListingFacts ==
  ASSUME NEW s \in Listings
  PROVE  /\ s \in Seq(Artifacts)
         /\ Len(s) \in 0..NArtifacts
         /\ DOMAIN s = 1..Len(s)
         /\ \A i \in DOMAIN s : s[i] \in Artifacts
<1>1. PICK n \in 0..NArtifacts : s \in [1..n -> Artifacts]
  BY DEF Listings
<1> QED
  BY <1>1

(* A glob that expands to something has a first artifact. *)
LEMMA NonEmptyListing ==
  ASSUME NEW s \in Listings, s # <<>>
  PROVE  1 \in DOMAIN s
  BY ListingFacts

(* A file that a tool may have written is still in one of the known states. *)
LEMMA ToolKeepsDiskType ==
  ASSUME TypeOK, NEW a \in Artifacts, ToolMayWrite(a)
  PROVE  disk' \in [Artifacts -> FileStates]
  BY DEF TypeOK, ToolMayWrite, FileStates

LEMMA InitTypeOK == Init => TypeOK
<1> SUFFICES ASSUME Init PROVE TypeOK
  OBVIOUS
<1>1. <<>> \in [1..0 -> Artifacts]
  OBVIOUS
<1>2. artifacts \in Listings
  BY <1>1 DEF Init, Listings
<1> QED
  BY <1>2 DEF Init, TypeOK, Artifacts, Tsas, OutcomeOf, NoOutcome, VerifyVerdict, CallStatus

LEMMA NextTypeOK == TypeOK /\ [Next]_vars => TypeOK'
<1> SUFFICES ASSUME TypeOK, [Next]_vars PROVE TypeOK'
  OBVIOUS
<1> USE DEF OutcomeOf, Skipped, NoOutcome, RaisedOutcome, VerifyVerdict, SigningStatus,
            CallStatus, Artifacts, Tsas
<1>0. \A i \in DOMAIN artifacts : artifacts[i] \in Artifacts
  BY ListingFacts DEF TypeOK
<1>1. ASSUME NEW installed \in Installations, NEW usable \in BOOLEAN, NEW n \in 0..NTsa,
             SignCall(installed, usable, n)
      PROVE  TypeOK'
  <2>1. CASE SignSkipsToolAbsent(installed)
    BY <2>1 DEF SignSkipsToolAbsent, ReturnsAtOnce, NothingRan, TypeOK, locals
  <2>2. CASE SignSkipsNoCredential(installed, usable)
    BY <2>2 DEF SignSkipsNoCredential, ReturnsAtOnce, NothingRan, TypeOK, locals
  <2>3. CASE SignFailsEarly(installed, usable, n)
    BY <2>3 DEF SignFailsEarly, ReturnsAtOnce, NothingRan, TypeOK, locals
  <2>4. CASE SignBegins(installed, usable, n)
    <3>1. artifacts' \in Listings /\ 1 \in DOMAIN artifacts'
      BY <2>4, NonEmptyListing DEF SignBegins, Expand
    <3>2. installed \subseteq ToolNames
      BY DEF Installations
    <3>3. index' = 1 /\ attempt' = 1 /\ ntsa' \in 1..NTsa /\ tsaUsed' = 0
      BY <2>4 DEF SignBegins
    <3>4. ran' = {} /\ passed' = {} /\ stamp' \in [Artifacts -> 0..NTsa]
      BY <2>4 DEF SignBegins, NothingRan
    <3>5. UNCHANGED <<disk, outcome, outcomeTsa>> /\ pc' = "signing" /\ tools' = installed
      BY <2>4 DEF SignBegins, results
    <3>6. index' \in 1..NArtifacts /\ attempt' \in Tsas /\ attempt' <= ntsa'
      BY <3>3
    <3>7. disk' \in [Artifacts -> FileStates] /\ outcomeTsa' \in 0..NTsa
      BY <3>5 DEF TypeOK
    <3>8. outcome' \in [status : CallStatus, verdict : VerifyVerdict,
                        artifact : 0..NArtifacts]
      BY <3>5 DEF TypeOK
    <3>9. /\ pc' \in {"idle", "signing", "verifying"} /\ tools' \subseteq ToolNames
          /\ ntsa' \in 0..NTsa /\ tsaUsed' \in 0..NTsa
          /\ ran' \subseteq Artifacts \X Tsas /\ passed' \subseteq Artifacts
      BY <3>2, <3>3, <3>4, <3>5
    <3> HIDE DEF OutcomeOf, Skipped, NoOutcome, RaisedOutcome, VerifyVerdict, SigningStatus,
             CallStatus, Artifacts, Tsas
    <3>10. index' \in DOMAIN artifacts'
      BY <3>1, <3>3
    <3> QED
      BY <3>1, <3>4, <3>6, <3>7, <3>8, <3>9, <3>10 DEF TypeOK
  <2> QED
    BY <1>1, <2>1, <2>2, <2>3, <2>4 DEF SignCall
<1>2. CASE ToolSucceeds
  <2>1. disk' \in [Artifacts -> FileStates]
    BY <1>0, <1>2, ToolKeepsDiskType DEF ToolSucceeds, TypeOK
  <2>2. ran' \subseteq Artifacts \X Tsas
    BY <1>0, <1>2 DEF ToolSucceeds, TypeOK, RunsTool
  <2>3. Len(artifacts) \in 0..NArtifacts /\ DOMAIN artifacts = 1..Len(artifacts)
    BY ListingFacts DEF TypeOK
  <2>4. index \in DOMAIN artifacts /\ attempt \in 1..ntsa
    BY <1>2 DEF ToolSucceeds, TypeOK
  <2>5. /\ pc' \in {"signing", "verifying"}
        /\ index' \in 1..Len(artifacts)
        /\ attempt' \in 1..ntsa
    BY <1>2, <2>3, <2>4 DEF ToolSucceeds, FirstAttempt, TypeOK
  <2>6. stamp' \in [Artifacts -> 0..NTsa] /\ tsaUsed' \in 0..NTsa
    <3>1. stamp \in [Artifacts -> 0..NTsa] /\ attempt \in 0..NTsa
      BY DEF TypeOK
    <3>2. stamp' = [stamp EXCEPT ![artifacts[index]] = attempt] /\ tsaUsed' = attempt
      BY <1>2 DEF ToolSucceeds
    <3> QED
      BY <3>1, <3>2
  <2>7. UNCHANGED <<tools, artifacts, ntsa, outcome, outcomeTsa, passed>>
    BY <1>2 DEF ToolSucceeds, results
  <2>8. /\ index' \in 1..NArtifacts /\ index' \in DOMAIN artifacts'
        /\ attempt' \in Tsas /\ attempt' <= ntsa'
    BY <2>3, <2>5, <2>7 DEF TypeOK
  <2> HIDE DEF OutcomeOf, Skipped, NoOutcome, RaisedOutcome, VerifyVerdict, SigningStatus,
             CallStatus, Artifacts, Tsas
  <2> QED
    <3>1. disk' \in [Artifacts -> FileStates] BY <2>1
    <3>2. outcome' \in [status : CallStatus, verdict : VerifyVerdict, artifact : 0..NArtifacts] BY <2>7 DEF TypeOK
    <3>3. tools' \subseteq ToolNames /\ artifacts' \in Listings /\ ntsa' \in 0..NTsa BY <2>7 DEF TypeOK
    <3>4. passed' \subseteq Artifacts /\ outcomeTsa' \in 0..NTsa BY <2>7 DEF TypeOK
    <3>5. pc' \in {"idle", "signing", "verifying"} BY <2>5
    <3> QED BY <3>1, <3>2, <3>3, <3>4, <3>5, <2>2, <2>6, <2>8 DEF TypeOK
<1>3. CASE ToolFailsOver
  <2>1. disk' \in [Artifacts -> FileStates]
    BY <1>0, <1>3, ToolKeepsDiskType DEF ToolFailsOver, TypeOK
  <2>2. ran' \subseteq Artifacts \X Tsas
    BY <1>0, <1>3 DEF ToolFailsOver, TypeOK, RunsTool
  <2> QED
    BY <1>3, <2>1, <2>2 DEF ToolFailsOver, TypeOK, HasNextTsa, NextAttempt, results
<1>4. CASE ToolGivesUp
  <2>1. disk' \in [Artifacts -> FileStates]
    BY <1>0, <1>4, ToolKeepsDiskType DEF ToolGivesUp, TypeOK
  <2>2. ran' \subseteq Artifacts \X Tsas
    BY <1>0, <1>4 DEF ToolGivesUp, TypeOK, RunsTool
  <2> QED
    BY <1>0, <1>4, <2>1, <2>2
    DEF ToolGivesUp, TypeOK, ReturnsFailed, StoppedAt, locals
<1>5. CASE VerifyAfterSign
  <2>1. artifacts[1] \in Artifacts
    BY <1>0, <1>5, ListingFacts DEF VerifyAfterSign, TypeOK
  <2>2. outcome' \in [status : CallStatus, verdict : VerifyVerdict,
                      artifact : 0..NArtifacts]
    BY <1>5, <2>1 DEF VerifyAfterSign, ReturnsFailed
  <2>3. outcomeTsa' \in 0..NTsa /\ passed' \subseteq Artifacts /\ pc' = "idle"
    <3>1. tsaUsed \in 0..NTsa /\ passed \subseteq Artifacts
      BY DEF TypeOK
    <3>2. /\ outcomeTsa' \in {0, tsaUsed} /\ pc' = "idle"
          /\ passed' \in {passed, passed \cup {artifacts[1]}}
      BY <1>5 DEF VerifyAfterSign, ReturnsFailed
    <3> QED
      BY <2>1, <3>1, <3>2
  <2>4. UNCHANGED <<disk, tools, artifacts, index, ntsa, attempt, tsaUsed, ran, stamp>>
    BY <1>5 DEF VerifyAfterSign, locals
  <2> HIDE DEF OutcomeOf, Skipped, NoOutcome, RaisedOutcome, VerifyVerdict, SigningStatus,
             CallStatus, Artifacts, Tsas
  <2> QED
    BY <2>2, <2>3, <2>4 DEF TypeOK
<1>6. CASE CallAbandoned
  <2>1. /\ pc' = "idle" /\ outcome' \in {NoOutcome, RaisedOutcome} /\ outcomeTsa' = 0
        /\ UNCHANGED <<locals, stamp, passed>>
        /\ \/ pc = "signing" /\ RunsTool /\ ToolMayWrite(artifacts[index])
           \/ UNCHANGED <<disk, ran>>
    BY <1>6 DEF CallAbandoned
  <2>2. disk' \in [Artifacts -> FileStates]
    BY <1>0, <2>1, ToolKeepsDiskType DEF TypeOK
  <2>3. ran' \subseteq Artifacts \X Tsas
    BY <1>0, <2>1 DEF TypeOK, RunsTool
  <2> QED
    BY <2>1, <2>2, <2>3 DEF TypeOK, locals
<1>7. ASSUME NEW installed \in Installations, NEW a \in Artifacts,
             VerifySkips(installed, a) \/ Verify(installed, a)
      PROVE  TypeOK'
  <2>1. CASE VerifySkips(installed, a)
    BY <2>1 DEF VerifySkips, ReturnsAtOnce, NothingRan, TypeOK, locals
  <2>2. CASE Verify(installed, a)
    BY <2>2 DEF Verify, TypeOK, locals
  <2> QED
    BY <1>7, <2>1, <2>2
<1>8. ASSUME NEW a \in Artifacts, Rebuild(a) \/ Clean(a)
      PROVE  TypeOK'
  BY <1>8 DEF Rebuild, Clean, TypeOK, FileStates, locals, results, history
<1>9. CASE UNCHANGED vars
  BY <1>9 DEF vars, TypeOK, locals, results, history
<1>10. CASE RaisesAtOnce
  BY <1>10 DEF RaisesAtOnce, ReturnsAtOnce, NothingRan, TypeOK, locals
<1> QED
  BY <1>1, <1>2, <1>3, <1>4, <1>5, <1>6, <1>7, <1>8, <1>9, <1>10 DEF Next, Running

(* Every variable has its type in every reachable state, for any number of  *)
(* artifacts and authorities: in particular the loop of windows.py:248 and  *)
(* the authority loop of _sign_one stay within their lists.                 *)
THEOREM TypeCorrect == Spec => []TypeOK
  BY InitTypeOK, NextTypeOK, PTL DEF Spec

------------------------------------------------------------------------------
(* The inductive step, one lemma per kind of action.                        *)

(* A call that returns at once: it ran nothing and blames no artifact.      *)
LEMMA AtOnceSafe ==
  ASSUME IInv, pc = "idle", UNCHANGED <<pc, locals>>,
         ran' = {}, stamp' = [a \in Artifacts |-> 0],
         outcome'.status # "signed",
         outcome'.status = "failed" =>
           outcome'.verdict # "not_run" \/ outcome'.artifact = 0
  PROVE  /\ SortedListing' /\ Progress' /\ FallbackInOrder'
         /\ FailedMarksTheStop' /\ SignedCoversListing'
<1>1. SortedListing' /\ Progress'
  BY DEF IInv, SortedListing, Progress, locals
<1>2. FallbackInOrder'
  BY DEF FallbackInOrder
<1>3. FailedMarksTheStop' /\ SignedCoversListing'
  BY DEF FailedMarksTheStop, SignedCoversListing
<1> QED
  BY <1>1, <1>2, <1>3

LEMMA SignBeginsSafe ==
  ASSUME IInv, NEW installed, NEW usable, NEW n, SignBegins(installed, usable, n)
  PROVE  /\ SortedListing' /\ Progress' /\ FallbackInOrder'
         /\ FailedMarksTheStop' /\ SignedCoversListing'
<1>1. /\ artifacts' \in Expand(disk) /\ artifacts' # <<>>
      /\ pc' = "signing" /\ index' = 1 /\ attempt' = 1
      /\ ran' = {} /\ stamp' = [a \in Artifacts |-> 0]
  BY DEF SignBegins, NothingRan
<1>2. SortedListing' /\ artifacts' \in Listings
  BY <1>1 DEF SortedListing, Expand
<1>3. \A i \in DOMAIN artifacts' : i >= 1 /\ artifacts'[i] \in Artifacts
  BY <1>2, ListingFacts
<1>4. 1 \in DOMAIN artifacts'
  BY <1>1, <1>2, NonEmptyListing
<1>5. Progress'
  <2>1. \A i \in DOMAIN artifacts' : stamp'[artifacts'[i]] = 0 /\ ~(i < 1)
    BY <1>1, <1>2, <1>3, ListingFacts
  <2>2. \A t \in Tsas : ~(t < 1)
    BY DEF Tsas
  <2> QED
    BY <1>1, <1>4, <2>1, <2>2 DEF Progress
<1>6. FallbackInOrder'
  BY <1>1 DEF FallbackInOrder
<1>7. FailedMarksTheStop' /\ SignedCoversListing'
  BY <1>1 DEF FailedMarksTheStop, SignedCoversListing
<1> QED
  BY <1>2, <1>5, <1>6, <1>7

(* What the actions of the loop have in common: one more pair has run. *)
LEMMA LoopFacts ==
  ASSUME IInv, pc = "signing"
  PROVE  /\ DOMAIN artifacts = 1..Len(artifacts) /\ Len(artifacts) \in Nat
         /\ index \in DOMAIN artifacts /\ ntsa \in 0..NTsa
         /\ attempt \in Tsas /\ attempt <= ntsa /\ attempt \in 1..ntsa
         /\ \A i \in DOMAIN artifacts : artifacts[i] \in Artifacts
         /\ \A i, j \in DOMAIN artifacts : artifacts[i] = artifacts[j] => i = j
         /\ \A i, j \in DOMAIN artifacts : artifacts[i] < artifacts[j] => i < j
         /\ stamp \in [Artifacts -> 0..NTsa]
<1>1. /\ artifacts \in Listings /\ index \in DOMAIN artifacts
      /\ ntsa \in 0..NTsa /\ attempt \in Tsas /\ attempt <= ntsa
      /\ stamp \in [Artifacts -> 0..NTsa]
  BY DEF IInv, TypeOK
<1>2. /\ DOMAIN artifacts = 1..Len(artifacts) /\ Len(artifacts) \in Nat
      /\ \A i \in DOMAIN artifacts : artifacts[i] \in Artifacts
  BY <1>1, ListingFacts
<1>3. \A i, j \in DOMAIN artifacts :
        /\ i \in Nat /\ j \in Nat
        /\ artifacts[i] \in Nat /\ artifacts[j] \in Nat
        /\ i < j => artifacts[i] < artifacts[j]
  BY <1>2 DEF IInv, SortedListing, Artifacts
<1>4. attempt \in 1..ntsa
  BY <1>1 DEF Tsas
<1>5. \A i, j \in DOMAIN artifacts :
        /\ artifacts[i] = artifacts[j] => i = j
        /\ artifacts[i] < artifacts[j] => i < j
  BY <1>3
<1> QED
  BY <1>1, <1>2, <1>4, <1>5

(* Running the next authority for the current artifact keeps to list order. *)
LEMMA RunsToolInOrder ==
  ASSUME IInv, pc = "signing", RunsTool,
         \/ stamp' = stamp
         \/ stamp' = [stamp EXCEPT ![artifacts[index]] = attempt]
  PROVE  FallbackInOrder'
<1>1. /\ \A t \in Tsas : <<artifacts[index], t>> \in ran <=> t < attempt
      /\ stamp[artifacts[index]] = 0
  BY DEF IInv, Progress
<1>2. /\ attempt \in Tsas /\ artifacts[index] \in Artifacts
      /\ stamp \in [Artifacts -> 0..NTsa]
  BY LoopFacts
<1>3. ran' = ran \cup {<<artifacts[index], attempt>>}
  BY DEF RunsTool
<1> SUFFICES ASSUME NEW a \in Artifacts, NEW t \in Tsas, <<a, t>> \in ran'
             PROVE  /\ \A u \in 1..t : <<a, u>> \in ran'
                    /\ stamp'[a] # 0 => t <= stamp'[a]
  BY DEF FallbackInOrder
<1>4. CASE a = artifacts[index]
  <2>1. t <= attempt
    BY <1>1, <1>2, <1>3, <1>4 DEF Tsas
  <2>2. \A u \in 1..t : <<a, u>> \in ran'
    BY <1>1, <1>2, <1>3, <1>4, <2>1 DEF Tsas
  <2>3. stamp'[a] # 0 => t <= stamp'[a]
    BY <1>1, <1>2, <1>4, <2>1
  <2> QED
    BY <2>2, <2>3
<1>5. CASE a # artifacts[index]
  <2>1. <<a, t>> \in ran /\ stamp'[a] = stamp[a]
    BY <1>2, <1>3, <1>5
  <2>2. /\ \A u \in 1..t : <<a, u>> \in ran
        /\ stamp[a] # 0 => t <= stamp[a]
    BY <2>1 DEF IInv, FallbackInOrder
  <2> QED
    BY <1>3, <2>1, <2>2
<1> QED
  BY <1>4, <1>5

(* Exit 0: the loop goes on to the next artifact, or to the verifier. *)
LEMMA ToolSucceedsSafe ==
  ASSUME IInv, ToolSucceeds
  PROVE  /\ SortedListing' /\ Progress' /\ FallbackInOrder'
         /\ FailedMarksTheStop' /\ SignedCoversListing'
<1>1. /\ pc = "signing" /\ RunsTool
      /\ stamp' = [stamp EXCEPT ![artifacts[index]] = attempt]
      /\ UNCHANGED <<artifacts, ntsa>>
      /\ \/ index < Len(artifacts) /\ pc' = "signing" /\ index' = index + 1 /\ attempt' = 1
         \/ ~(index < Len(artifacts)) /\ pc' = "verifying"
  BY DEF ToolSucceeds, FirstAttempt
<1>2. SortedListing'
  BY <1>1 DEF IInv, SortedListing
<1>3. FallbackInOrder'
  BY <1>1, RunsToolInOrder
<1>4. FailedMarksTheStop' /\ SignedCoversListing'
  BY <1>1 DEF FailedMarksTheStop, SignedCoversListing
<1>5. /\ DOMAIN artifacts = 1..Len(artifacts) /\ Len(artifacts) \in Nat
      /\ index \in DOMAIN artifacts /\ attempt \in 1..ntsa
      /\ \A i \in DOMAIN artifacts : artifacts[i] \in Artifacts
      /\ \A i, j \in DOMAIN artifacts : artifacts[i] = artifacts[j] => i = j
      /\ stamp \in [Artifacts -> 0..NTsa]
  BY <1>1, LoopFacts
<1>6. /\ \A i \in DOMAIN artifacts : i < index => stamp[artifacts[i]] \in 1..ntsa
      /\ \A i \in DOMAIN artifacts :
           i > index => /\ stamp[artifacts[i]] = 0
                        /\ \A t \in Tsas : <<artifacts[i], t>> \notin ran
  BY <1>1 DEF IInv, Progress
<1>7. \A i \in DOMAIN artifacts : i <= index => stamp'[artifacts[i]] \in 1..ntsa
  BY <1>1, <1>5, <1>6
<1>8. \A i \in DOMAIN artifacts :
        i > index => /\ stamp'[artifacts[i]] = 0
                     /\ \A t \in Tsas : <<artifacts[i], t>> \notin ran'
  BY <1>1, <1>5, <1>6 DEF RunsTool
<1>9. CASE index < Len(artifacts)
  <2>1. index' \in DOMAIN artifacts /\ index' > index
    BY <1>1, <1>5, <1>9
  <2>2. \A i \in DOMAIN artifacts : i < index' => stamp'[artifacts[i]] \in 1..ntsa
    BY <1>1, <1>5, <1>7, <1>9
  <2>3. \A i \in DOMAIN artifacts : i > index' => i > index
    BY <1>1, <1>5, <1>9
  <2>4. \A t \in Tsas : ~(t < attempt')
    BY <1>1, <1>9 DEF Tsas
  <2> QED
    BY <1>1, <1>2, <1>3, <1>4, <1>8, <1>9, <2>1, <2>2, <2>3, <2>4 DEF Progress
<1>10. CASE ~(index < Len(artifacts))
  <2>1. \A i \in DOMAIN artifacts : stamp'[artifacts[i]] \in 1..ntsa
    BY <1>5, <1>7, <1>10
  <2> QED
    BY <1>1, <1>2, <1>3, <1>4, <1>10, <2>1 DEF Progress
<1> QED
  BY <1>9, <1>10

LEMMA ToolFailsOverSafe ==
  ASSUME IInv, ToolFailsOver
  PROVE  /\ SortedListing' /\ Progress' /\ FallbackInOrder'
         /\ FailedMarksTheStop' /\ SignedCoversListing'
<1>1. /\ pc = "signing" /\ RunsTool /\ attempt' = attempt + 1
      /\ UNCHANGED <<pc, artifacts, index, ntsa, stamp>>
  BY DEF ToolFailsOver, NextAttempt
<1>2. SortedListing'
  BY <1>1 DEF IInv, SortedListing
<1>3. FallbackInOrder'
  BY <1>1, RunsToolInOrder
<1>4. FailedMarksTheStop' /\ SignedCoversListing'
  BY <1>1 DEF FailedMarksTheStop, SignedCoversListing
<1>5. /\ DOMAIN artifacts = 1..Len(artifacts) /\ Len(artifacts) \in Nat
      /\ index \in DOMAIN artifacts /\ attempt \in Tsas
      /\ \A i, j \in DOMAIN artifacts : artifacts[i] = artifacts[j] => i = j
  BY <1>1, LoopFacts
<1>6. \A t \in Tsas : <<artifacts[index], t>> \in ran' <=> t < attempt'
  <2>1. \A t \in Tsas : <<artifacts[index], t>> \in ran <=> t < attempt
    BY <1>1 DEF IInv, Progress
  <2>2. \A t \in Tsas : <<artifacts[index], t>> \in ran' <=> t < attempt \/ t = attempt
    BY <1>1, <2>1 DEF RunsTool
  <2> QED
    BY <1>1, <1>5, <2>2 DEF Tsas
<1>7. \A i \in DOMAIN artifacts :
        i > index => \A t \in Tsas : <<artifacts[i], t>> \notin ran'
  BY <1>1, <1>5 DEF RunsTool, IInv, Progress
<1>8. Progress'
  BY <1>1, <1>6, <1>7 DEF IInv, Progress
<1> QED
  BY <1>2, <1>3, <1>4, <1>8

LEMMA ToolGivesUpSafe ==
  ASSUME IInv, ToolGivesUp
  PROVE  /\ SortedListing' /\ Progress' /\ FallbackInOrder'
         /\ FailedMarksTheStop' /\ SignedCoversListing'
<1>1. /\ pc = "signing" /\ pc' = "idle" /\ RunsTool /\ ~(attempt < ntsa)
      /\ UNCHANGED <<artifacts, index, ntsa, stamp>>
      /\ outcome' = [status |-> "failed", verdict |-> "not_run",
                      artifact |-> artifacts[index]]
  BY DEF ToolGivesUp, HasNextTsa, ReturnsFailed, OutcomeOf, StoppedAt, locals
<1>2. SortedListing' /\ Progress'
  BY <1>1 DEF IInv, SortedListing, Progress
<1>3. FallbackInOrder'
  BY <1>1, RunsToolInOrder
<1>4. SignedCoversListing'
  BY <1>1 DEF SignedCoversListing
<1>5. FailedMarksTheStop'
  <2>1. /\ DOMAIN artifacts = 1..Len(artifacts) /\ Len(artifacts) \in Nat
        /\ index \in DOMAIN artifacts /\ attempt \in Tsas
        /\ attempt <= ntsa /\ ntsa \in 0..NTsa
        /\ \A i, j \in DOMAIN artifacts : artifacts[i] = artifacts[j] => i = j
        /\ \A i, j \in DOMAIN artifacts : artifacts[i] < artifacts[j] => i < j
    BY <1>1, LoopFacts
  <2>2. attempt = ntsa
    BY <1>1, <2>1 DEF Tsas
  <2>3. ran' = ran \cup {<<artifacts[index], ntsa>>}
    BY <1>1, <2>2 DEF RunsTool
  <2> SUFFICES ASSUME NEW i \in DOMAIN artifacts
               PROVE  LET a == artifacts[i] IN
                      /\ a < artifacts[index] => stamp[a] # 0
                      /\ a = artifacts[index] => stamp[a] = 0 /\ <<a, ntsa>> \in ran'
                      /\ a > artifacts[index] => \A t \in Tsas : <<a, t>> \notin ran'
    BY <1>1 DEF FailedMarksTheStop
  <2>4. artifacts[i] < artifacts[index] => stamp[artifacts[i]] # 0
    <3>1. i < index => stamp[artifacts[i]] \in 1..ntsa
      BY <1>1 DEF IInv, Progress
    <3> QED
      BY <2>1, <3>1
  <2>5. artifacts[i] = artifacts[index] =>
          stamp[artifacts[i]] = 0 /\ <<artifacts[i], ntsa>> \in ran'
    BY <1>1, <2>3 DEF IInv, Progress
  <2>6. artifacts[i] > artifacts[index] => \A t \in Tsas : <<artifacts[i], t>> \notin ran'
    <3>1. i > index => \A t \in Tsas : <<artifacts[i], t>> \notin ran
      BY <1>1 DEF IInv, Progress
    <3>2. artifacts[i] \in Nat /\ artifacts[index] \in Nat /\ i \in Nat /\ index \in Nat
      BY <1>1, <2>1, LoopFacts DEF Artifacts
    <3>3. artifacts[i] > artifacts[index] => i > index /\ artifacts[i] # artifacts[index]
      BY <2>1, <3>2
    <3> QED
      BY <2>3, <3>1, <3>3
  <2> QED
    BY <2>4, <2>5, <2>6
<1> QED
  BY <1>2, <1>3, <1>4, <1>5

LEMMA VerifyAfterSignSafe ==
  ASSUME IInv, VerifyAfterSign
  PROVE  /\ SortedListing' /\ Progress' /\ FallbackInOrder'
         /\ FailedMarksTheStop' /\ SignedCoversListing'
<1>1. /\ pc = "verifying" /\ pc' = "idle"
      /\ UNCHANGED <<artifacts, ntsa, ran, stamp>>
      /\ outcome'.status = "failed" => outcome'.verdict = "failed"
  BY DEF VerifyAfterSign, ReturnsFailed, OutcomeOf, locals
<1>2. SortedListing' /\ Progress' /\ FallbackInOrder'
  BY <1>1 DEF IInv, SortedListing, Progress, FallbackInOrder
<1>3. FailedMarksTheStop' /\ SignedCoversListing'
  BY <1>1 DEF IInv, Progress, FailedMarksTheStop, SignedCoversListing
<1> QED
  BY <1>2, <1>3

(* What leaves the call, its history and its outcome alone. *)
LEMMA NothingHappensSafe ==
  ASSUME IInv, UNCHANGED <<pc, artifacts, index, ntsa, attempt, outcome, ran, stamp>>
  PROVE  /\ SortedListing' /\ Progress' /\ FallbackInOrder'
         /\ FailedMarksTheStop' /\ SignedCoversListing'
BY DEF IInv, SortedListing, Progress, FallbackInOrder, FailedMarksTheStop,
       SignedCoversListing

(* A call that ends without an outcome may have run the tool once more. *)
LEMMA CallAbandonedSafe ==
  ASSUME IInv, CallAbandoned
  PROVE  /\ SortedListing' /\ Progress' /\ FallbackInOrder'
         /\ FailedMarksTheStop' /\ SignedCoversListing'
<1>1. /\ pc' = "idle" /\ UNCHANGED <<artifacts, index, ntsa, attempt, stamp>>
      /\ outcome'.status \in {"none", "raised"}
      /\ (pc = "signing" /\ RunsTool) \/ ran' = ran
  BY DEF CallAbandoned, NoOutcome, RaisedOutcome, OutcomeOf, locals
<1>2. SortedListing' /\ Progress'
  BY <1>1 DEF IInv, SortedListing, Progress
<1>3. FallbackInOrder'
  BY <1>1, RunsToolInOrder DEF IInv, FallbackInOrder
<1>4. FailedMarksTheStop' /\ SignedCoversListing'
  BY <1>1 DEF FailedMarksTheStop, SignedCoversListing
<1> QED
  BY <1>2, <1>3, <1>4

LEMMA InitIInv == Init => IInv
<1> SUFFICES ASSUME Init PROVE IInv
  OBVIOUS
<1>1. TypeOK
  BY InitTypeOK
<1>2. SortedListing /\ Progress
  BY DEF Init, SortedListing, Progress
<1>3. FallbackInOrder /\ FailedMarksTheStop /\ SignedCoversListing
  BY DEF Init, FallbackInOrder, FailedMarksTheStop, SignedCoversListing, NoOutcome,
         OutcomeOf
<1> QED
  BY <1>1, <1>2, <1>3 DEF IInv

LEMMA NextIInv == IInv /\ [Next]_vars => IInv'
<1> SUFFICES ASSUME IInv, [Next]_vars PROVE IInv'
  OBVIOUS
<1> DEFINE Safe == /\ SortedListing /\ Progress /\ FallbackInOrder
                   /\ FailedMarksTheStop /\ SignedCoversListing
<1>0. TypeOK'
  BY NextTypeOK DEF IInv
<1>1. ASSUME NEW installed \in Installations, NEW usable \in BOOLEAN, NEW n \in 0..NTsa,
             SignCall(installed, usable, n)
      PROVE  Safe'
  <2>1. CASE SignSkipsToolAbsent(installed)
    BY <2>1, AtOnceSafe
    DEF SignSkipsToolAbsent, ReturnsAtOnce, NothingRan, Skipped, OutcomeOf
  <2>2. CASE SignSkipsNoCredential(installed, usable)
    BY <2>2, AtOnceSafe
    DEF SignSkipsNoCredential, ReturnsAtOnce, NothingRan, Skipped, OutcomeOf
  <2>3. CASE SignFailsEarly(installed, usable, n)
    BY <2>3, AtOnceSafe DEF SignFailsEarly, ReturnsAtOnce, NothingRan, OutcomeOf
  <2>4. CASE SignBegins(installed, usable, n)
    BY <2>4, SignBeginsSafe
  <2> QED
    BY <1>1, <2>1, <2>2, <2>3, <2>4 DEF SignCall
<1>2. ASSUME Running PROVE Safe'
  BY <1>2, ToolSucceedsSafe, ToolFailsOverSafe, ToolGivesUpSafe, VerifyAfterSignSafe
  DEF Running
<1>3. ASSUME CallAbandoned PROVE Safe'
  BY <1>3, CallAbandonedSafe
<1>4. ASSUME NEW installed \in Installations, NEW a \in Artifacts,
             VerifySkips(installed, a) \/ Verify(installed, a)
      PROVE  Safe'
  <2>1. CASE VerifySkips(installed, a)
    BY <2>1, AtOnceSafe DEF VerifySkips, ReturnsAtOnce, NothingRan, OutcomeOf
  <2>2. CASE Verify(installed, a)
    BY <2>2, AtOnceSafe DEF Verify, OutcomeOf
  <2> QED
    BY <1>4, <2>1, <2>2
<1>5. ASSUME NEW a \in Artifacts, Rebuild(a) \/ Clean(a)
      PROVE  Safe'
  BY <1>5, NothingHappensSafe DEF Rebuild, Clean, locals, results, history
<1>6. ASSUME UNCHANGED vars PROVE Safe'
  BY <1>6, NothingHappensSafe DEF vars, locals, results, history
<1>7. ASSUME RaisesAtOnce PROVE Safe'
  BY <1>7, AtOnceSafe DEF RaisesAtOnce, ReturnsAtOnce, NothingRan, RaisedOutcome, OutcomeOf
<1>8. Safe'
  BY <1>1, <1>2, <1>3, <1>4, <1>5, <1>6, <1>7 DEF Next
<1> QED
  BY <1>0, <1>8 DEF IInv

THEOREM Invariance == Spec => []IInv
  BY InitIInv, NextIInv, PTL DEF Spec

(* Timestamp authorities are tried in list order from the first one on for  *)
(* every artifact, and none after one that worked, however long the list.   *)
THEOREM FallsBackInOrder == Spec => []FallbackInOrder
<1>1. IInv => FallbackInOrder
  BY DEF IInv
<1> QED
  BY <1>1, Invariance, PTL

(* A FAILED outcome from the signing loop says how far it got: everything   *)
(* sorted before the artifact it names was signed by a run that exited 0,   *)
(* all authorities failed for that one, and nothing after it was touched.   *)
THEOREM FailureMarksTheStop == Spec => []FailedMarksTheStop
<1>1. IInv => FailedMarksTheStop
  BY DEF IInv
<1> QED
  BY <1>1, Invariance, PTL

(* SIGNED is only reported when a run of this call exited 0 for every       *)
(* artifact the glob listed, under an authority of the target's list.       *)
THEOREM SignedCoversTheListing == Spec => []SignedCoversListing
<1>1. IInv => SignedCoversListing
  BY DEF IInv
<1> QED
  BY <1>1, Invariance, PTL

(* A step that returns a success does so while the artifact it names is     *)
(* validly signed on disk.                                                  *)
THEOREM SuccessesAreGenuine == Spec => SuccessIsGenuine
<1>1. IInv /\ [Next]_vars =>
        (<<pc, results>>' # <<pc, results>> /\ pc' = "idle" /\ IsSuccess(outcome'.status) =>
           disk[outcome'.artifact] = "signed")
  <2> SUFFICES ASSUME IInv, [Next]_vars, <<pc, results>>' # <<pc, results>>,
                      pc' = "idle", IsSuccess(outcome'.status)
               PROVE  disk[outcome'.artifact] = "signed"
    OBVIOUS
  <2> USE DEF OutcomeOf, Skipped, NoOutcome, RaisedOutcome, IsSuccess
  <2>1. ASSUME NEW installed \in Installations, NEW usable \in BOOLEAN, NEW n \in 0..NTsa,
               SignCall(installed, usable, n)
        PROVE  FALSE
    BY <2>1 DEF SignCall, SignSkipsToolAbsent, SignSkipsNoCredential, SignFailsEarly,
                SignBegins, ReturnsAtOnce
  <2>2. CASE ToolSucceeds \/ ToolFailsOver \/ ToolGivesUp
    BY <2>2 DEF ToolSucceeds, ToolFailsOver, ToolGivesUp, ReturnsFailed
  <2>3. CASE VerifyAfterSign
    BY <2>3 DEF VerifyAfterSign, VerifierAccepts, ReturnsFailed
  <2>4. CASE CallAbandoned \/ RaisesAtOnce
    BY <2>4 DEF CallAbandoned, RaisesAtOnce, ReturnsAtOnce
  <2>5. ASSUME NEW installed \in Installations, NEW a \in Artifacts,
               VerifySkips(installed, a) \/ Verify(installed, a)
        PROVE  disk[outcome'.artifact] = "signed"
    BY <2>5 DEF VerifySkips, Verify, ReturnsAtOnce, VerifierAccepts
  <2>6. CASE \E a \in Artifacts : Rebuild(a) \/ Clean(a)
    BY <2>6 DEF Rebuild, Clean
  <2>7. CASE UNCHANGED vars
    BY <2>7 DEF vars
  <2> QED
    BY <2>1, <2>2, <2>3, <2>4, <2>5, <2>6, <2>7 DEF Next, Running
<1> QED
  BY <1>1, Invariance, PTL DEF Spec, SuccessIsGenuine

------------------------------------------------------------------------------
(* The backend implements the signing contract.                             *)

(* The artifacts that the contract sees as touched. *)
Worked == {a \in Artifacts : \E t \in Tsas : <<a, t>> \in ran}

(* A run that exited 0 is a run. *)
StampedRan == \A a \in Artifacts : stamp[a] # 0 => a \in Worked

LEMMA StampedRanInvariant == Spec => []StampedRan
<1>1. Init => StampedRan
  BY DEF Init, StampedRan
<1>2. IInv /\ StampedRan /\ [Next]_vars => StampedRan'
  <2> SUFFICES ASSUME IInv, StampedRan, [Next]_vars PROVE StampedRan'
    OBVIOUS
  <2>1. CASE stamp' = [a \in Artifacts |-> 0]
    BY <2>1 DEF StampedRan
  <2>2. CASE stamp' = stamp /\ ran \subseteq ran'
    BY <2>2 DEF StampedRan, Worked
  <2>3. CASE ToolSucceeds
    <3>1. /\ ran' = ran \cup {<<artifacts[index], attempt>>}
          /\ stamp' = [stamp EXCEPT ![artifacts[index]] = attempt]
      BY <2>3 DEF ToolSucceeds, RunsTool
    <3>2. /\ stamp \in [Artifacts -> 0..NTsa] /\ attempt \in Tsas
          /\ artifacts[index] \in Artifacts
      BY <2>3, LoopFacts DEF ToolSucceeds
    <3> SUFFICES ASSUME NEW a \in Artifacts, stamp'[a] # 0
                 PROVE  a \in Worked'
      BY DEF StampedRan
    <3>3. CASE a = artifacts[index]
      BY <3>1, <3>2, <3>3 DEF Worked
    <3>4. CASE a # artifacts[index]
      <4>1. stamp[a] # 0
        BY <3>1, <3>2, <3>4
      <4> QED
        BY <3>1, <4>1 DEF StampedRan, Worked
    <3> QED
      BY <3>3, <3>4
  <2>4. ASSUME NEW installed \in Installations, NEW usable \in BOOLEAN, NEW n \in 0..NTsa,
               SignCall(installed, usable, n)
        PROVE  stamp' = [a \in Artifacts |-> 0]
    BY <2>4 DEF SignCall, SignSkipsToolAbsent, SignSkipsNoCredential, SignFailsEarly,
                SignBegins, ReturnsAtOnce, NothingRan
  <2>5. ASSUME NEW installed \in Installations, NEW a \in Artifacts,
               VerifySkips(installed, a) \/ Verify(installed, a)
        PROVE  stamp' = [b \in Artifacts |-> 0]
    BY <2>5 DEF VerifySkips, Verify, ReturnsAtOnce, NothingRan
  <2>6. ASSUME ToolFailsOver \/ ToolGivesUp PROVE stamp' = stamp /\ ran \subseteq ran'
    BY <2>6 DEF ToolFailsOver, ToolGivesUp, RunsTool
  <2>7. ASSUME VerifyAfterSign \/ CallAbandoned PROVE stamp' = stamp /\ ran \subseteq ran'
    BY <2>7 DEF VerifyAfterSign, CallAbandoned, RunsTool
  <2>8. ASSUME NEW a \in Artifacts, Rebuild(a) \/ Clean(a)
        PROVE  stamp' = stamp /\ ran \subseteq ran'
    BY <2>8 DEF Rebuild, Clean, history
  <2>9. ASSUME UNCHANGED vars PROVE stamp' = stamp /\ ran \subseteq ran'
    BY <2>9 DEF vars, history
  <2>10. ASSUME RaisesAtOnce PROVE stamp' = [a \in Artifacts |-> 0]
    BY <2>10 DEF RaisesAtOnce, ReturnsAtOnce, NothingRan
  <2> QED
    BY <2>1, <2>2, <2>3, <2>4, <2>5, <2>6, <2>7, <2>8, <2>9, <2>10 DEF Next, Running
<1> QED
  BY <1>1, <1>2, Invariance, PTL DEF Spec

LEMMA StepRefines ==
  IInv /\ StampedRan /\ [Next]_vars => [Contract!Next]_(Contract!contractVars)
<1> SUFFICES ASSUME IInv, StampedRan, [Next]_vars
             PROVE  Contract!Next \/ UNCHANGED Contract!contractVars
  OBVIOUS
<1> USE DEF OutcomeOf, Skipped, NoOutcome, RaisedOutcome, SigningStatus,
            Contract!OutcomeOf, Contract!NoOutcome, Contract!RaisedOutcome,
            Contract!SigningStatus
<1>0. 1 \in Artifacts
  BY DEF Artifacts
<1>1. ASSUME NEW installed \in Installations, NEW usable \in BOOLEAN, NEW n \in 0..NTsa,
             SignCall(installed, usable, n)
      PROVE  Contract!Next
  <2>1. CASE SignBegins(installed, usable, n)
    BY <2>1 DEF SignBegins, NothingRan, results, Contract!Next, Contract!Accept
  <2>2. CASE \/ SignSkipsToolAbsent(installed)
             \/ SignSkipsNoCredential(installed, usable)
             \/ SignFailsEarly(installed, usable, n)
    <3>1. /\ pc = "idle" /\ pc' = "idle" /\ ran' = {} /\ passed' = {}
          /\ \E s \in SigningStatus \ {"signed", "verified"} :
               outcome' = [status |-> s, verdict |-> "not_run", artifact |-> 0]
      BY <2>2 DEF SignSkipsToolAbsent, SignSkipsNoCredential, SignFailsEarly,
                  ReturnsAtOnce, NothingRan
    <3> QED
      BY <3>1 DEF Contract!Next, Contract!Decline
  <2> QED
    BY <1>1, <2>1, <2>2 DEF SignCall
<1>2. ASSUME pc = "signing", RunsTool, UNCHANGED <<passed, outcome>>, pc' # "idle"
      PROVE  Contract!Next
  <2>1. artifacts[index] \in Artifacts /\ attempt \in Tsas
    BY <1>2, LoopFacts
  <2>2. Worked' = Worked \cup {artifacts[index]}
    BY <1>2, <2>1 DEF RunsTool, Worked
  <2> QED
    BY <1>2, <2>1, <2>2 DEF Contract!Next, Contract!Touch, Worked
<1>3. ASSUME ToolGivesUp PROVE Contract!Next
  <2>1. artifacts[index] \in Artifacts /\ attempt \in Tsas
    BY <1>3, LoopFacts DEF ToolGivesUp
  <2>2. Worked' = Worked \cup {artifacts[index]}
    BY <1>3, <2>1 DEF ToolGivesUp, RunsTool, Worked
  <2>3. PICK a \in Artifacts : a = artifacts[index]
    BY <2>1
  <2>4. Contract!ReturnFailed(a)
    BY <1>3, <2>2, <2>3 DEF ToolGivesUp, ReturnsFailed, StoppedAt, Contract!ReturnFailed,
                            Contract!TouchedOnceMore, Worked
  <2> QED
    BY <2>4 DEF Contract!Next
<1>4. ASSUME VerifyAfterSign PROVE Contract!Next
  <2>1. /\ pc = "verifying" /\ pc' = "idle" /\ UNCHANGED <<artifacts, ran, stamp>>
        /\ \/ /\ passed' = passed \cup {artifacts[1]}
              /\ outcome' = [status |-> "signed", verdict |-> "passed",
                             artifact |-> artifacts[1]]
           \/ /\ UNCHANGED passed
              /\ outcome' = [status |-> "failed", verdict |-> "failed",
                             artifact |-> artifacts[1]]
    BY <1>4 DEF VerifyAfterSign, ReturnsFailed, locals
  <2>2. 1 \in DOMAIN artifacts /\ artifacts[1] \in Artifacts
    BY <2>1, ListingFacts DEF IInv, TypeOK
  <2>3. artifacts[1] \in Worked
    BY <2>1, <2>2 DEF IInv, Progress, StampedRan
  <2>4. PICK a \in Artifacts : a = artifacts[1]
    BY <2>2
  <2>5. Contract!ReturnSigned(a) \/ Contract!ReturnFailed(a)
    BY <2>1, <2>3, <2>4 DEF Contract!ReturnSigned, Contract!ReturnFailed,
                            Contract!TouchedOnceMore, Worked
  <2> QED
    BY <2>5 DEF Contract!Next
<1>5. ASSUME CallAbandoned PROVE Contract!Next
  <2>1. /\ pc' = "idle" /\ outcome' \in {NoOutcome, RaisedOutcome} /\ UNCHANGED passed
        /\ (pc = "signing" /\ RunsTool) \/ ran' = ran
    BY <1>5 DEF CallAbandoned
  <2>2. CASE ran' = ran
    <3>1. Contract!Abandon(1)
      BY <2>1, <2>2 DEF Contract!Abandon, Contract!TouchedOnceMore
    <3> QED
      BY <1>0, <3>1 DEF Contract!Next
  <2>3. CASE pc = "signing" /\ RunsTool
    <3>1. artifacts[index] \in Artifacts /\ attempt \in Tsas
      BY <2>3, LoopFacts
    <3>2. Worked' = Worked \cup {artifacts[index]}
      BY <2>3, <3>1 DEF RunsTool, Worked
    <3>3. PICK a \in Artifacts : a = artifacts[index]
      BY <3>1
    <3>4. Contract!Abandon(a)
      BY <2>1, <3>2, <3>3 DEF Contract!Abandon, Contract!TouchedOnceMore, Worked
    <3> QED
      BY <3>4 DEF Contract!Next
  <2> QED
    BY <2>1, <2>2, <2>3
<1>6. ASSUME NEW installed \in Installations, NEW a \in Artifacts,
             VerifySkips(installed, a) \/ Verify(installed, a)
      PROVE  Contract!Next
  <2>1. CASE VerifySkips(installed, a)
    BY <2>1 DEF VerifySkips, ReturnsAtOnce, NothingRan, Contract!Next, Contract!Decline
  <2>2. CASE Verify(installed, a)
    <3>1. Contract!VerifyOnly(a)
      BY <2>2 DEF Verify, Contract!VerifyOnly
    <3> QED
      BY <3>1 DEF Contract!Next
  <2> QED
    BY <1>6, <2>1, <2>2
<1>7. ASSUME UNCHANGED <<pc, ran, passed, outcome>> PROVE UNCHANGED Contract!contractVars
  BY <1>7 DEF Contract!contractVars
<1>8. ASSUME ToolSucceeds \/ ToolFailsOver PROVE Contract!Next
  BY <1>2, <1>8 DEF ToolSucceeds, ToolFailsOver, results
<1>9. ASSUME NEW a \in Artifacts, Rebuild(a) \/ Clean(a)
      PROVE  UNCHANGED <<pc, ran, passed, outcome>>
  BY <1>9 DEF Rebuild, Clean, results, history
<1>10. ASSUME UNCHANGED vars PROVE UNCHANGED <<pc, ran, passed, outcome>>
  BY <1>10 DEF vars, results, history
<1>11. ASSUME RaisesAtOnce PROVE Contract!Next
  <2>1. Contract!Abandon(1)
    BY <1>11 DEF RaisesAtOnce, ReturnsAtOnce, NothingRan, Contract!Abandon
  <2> QED
    BY <1>0, <2>1 DEF Contract!Next
<1> QED
  BY <1>1, <1>3, <1>4, <1>5, <1>6, <1>7, <1>8, <1>9, <1>10, <1>11 DEF Next, Running

(* Every behaviour of the Windows backend is one that backends/base.py      *)
(* allows, except that a call may raise: no skip after an artifact was      *)
(* touched, and no SIGNED without an accepting verifier.                    *)
THEOREM ContractImplemented == Spec => ImplementsContract
<1>1. Init => Contract!Init
  BY DEF Init, Contract!Init, NoOutcome, Contract!NoOutcome, OutcomeOf, Contract!OutcomeOf
<1> QED
  BY <1>1, StepRefines, Invariance, StampedRanInvariant, PTL
  DEF Spec, ImplementsContract, Contract!Spec

(* The contract's theorems, about the machine that this backend refines.    *)
Theory ==
  INSTANCE SignerContract_proofs WITH
    Artifacts <- Artifacts, LateSkip <- FALSE, TrustsTool <- FALSE, Raises <- TRUE,
    busy <- pc # "idle",
    touched <- {a \in Artifacts : \E t \in Tsas : <<a, t>> \in ran},
    passed <- passed,
    outcome <- outcome

LEMMA SameContract == Contract!Spec => Theory!Spec
<1>1. Contract!Init => Theory!Init
  BY DEF Contract!Init, Theory!Init, Contract!NoOutcome, Theory!NoOutcome,
         Contract!OutcomeOf, Theory!OutcomeOf
<1>2. [Contract!Next]_(Contract!contractVars) => [Theory!Next]_(Theory!contractVars)
  BY DEF Contract!Next, Theory!Next, Contract!contractVars, Theory!contractVars,
         Contract!Accept, Theory!Accept, Contract!Decline, Theory!Decline,
         Contract!VerifyOnly, Theory!VerifyOnly, Contract!Touch, Theory!Touch,
         Contract!Check, Theory!Check, Contract!Abandon, Theory!Abandon,
         Contract!ReturnSigned, Theory!ReturnSigned, Contract!ReturnFailed,
         Theory!ReturnFailed, Contract!ReturnUnverified, Theory!ReturnUnverified,
         Contract!ReturnLateSkip, Theory!ReturnLateSkip, Contract!TouchedOnceMore,
         Theory!TouchedOnceMore, Contract!NoOutcome, Theory!NoOutcome,
         Contract!OutcomeOf, Theory!OutcomeOf, Contract!SigningStatus,
         Theory!SigningStatus, Contract!RaisedOutcome, Theory!RaisedOutcome
<1> QED
  BY <1>1, <1>2, PTL DEF Contract!Spec, Theory!Spec

(* backends/base.py:138-152 with result.py, what the refinement buys: a     *)
(* SIGNED or VERIFIED names an artifact that the verifier accepted in the   *)
(* same call and, if signed, that the tool ran on; and when a call says it  *)
(* was skipped, the signing tool ran on nothing.                            *)
THEOREM ContractHonoured == Spec => [](Contract!SuccessIsChecked /\ Contract!SkipTouchesNothing)
<1>1. 0 \notin Artifacts
  BY DEF Artifacts
<1>2. Theory!Spec => []Theory!SuccessIsChecked
  BY <1>1, Theory!ContractSuccessIsChecked
<1>3. Contract!SuccessIsChecked <=> Theory!SuccessIsChecked
  BY DEF Contract!SuccessIsChecked, Theory!SuccessIsChecked, Contract!IsSuccess,
         Theory!IsSuccess
<1>4. Theory!Spec => []Theory!SkipTouchesNothing
  BY Theory!ContractSkipTouchesNothing, PTL
<1>5. Contract!SkipTouchesNothing <=> Theory!SkipTouchesNothing
  BY DEF Contract!SkipTouchesNothing, Theory!SkipTouchesNothing, Contract!IsSkipped,
         Theory!IsSkipped
<1> QED
  BY <1>2, <1>3, <1>4, <1>5, ContractImplemented, SameContract, PTL DEF ImplementsContract

(* windows.py:260-288, how far verify-after-sign reaches: the artifact that *)
(* SIGNED names is the first of the sorted listing, and the verifier        *)
(* accepted it in this call.                                                *)
NamesVerifiedFirst ==
  pc = "idle" /\ outcome.status = "signed" =>
    /\ outcome.artifact = artifacts[1] /\ outcome.verdict = "passed"
    /\ artifacts[1] \in passed

THEOREM FirstIsVerified == Spec => []NamesVerifiedFirst
<1> USE DEF NamesVerifiedFirst, OutcomeOf, NoOutcome, RaisedOutcome, Skipped
<1>1. Init => NamesVerifiedFirst
  BY DEF Init
<1>2. NamesVerifiedFirst /\ [Next]_vars => NamesVerifiedFirst'
  <2> SUFFICES ASSUME NamesVerifiedFirst, [Next]_vars PROVE NamesVerifiedFirst'
    OBVIOUS
  <2>1. ASSUME NEW installed \in Installations, NEW usable \in BOOLEAN, NEW n \in 0..NTsa,
               SignCall(installed, usable, n)
        PROVE  NamesVerifiedFirst'
    BY <2>1 DEF SignCall, SignSkipsToolAbsent, SignSkipsNoCredential, SignFailsEarly,
                SignBegins, ReturnsAtOnce
  <2>2. CASE ToolSucceeds \/ ToolFailsOver \/ ToolGivesUp
    BY <2>2 DEF ToolSucceeds, ToolFailsOver, ToolGivesUp, ReturnsFailed
  <2>3. CASE VerifyAfterSign
    BY <2>3 DEF VerifyAfterSign, ReturnsFailed, locals
  <2>4. ASSUME NEW installed \in Installations, NEW a \in Artifacts,
               VerifySkips(installed, a) \/ Verify(installed, a)
        PROVE  NamesVerifiedFirst'
    BY <2>4 DEF VerifySkips, Verify, ReturnsAtOnce
  <2>5. CASE CallAbandoned \/ RaisesAtOnce
    BY <2>5 DEF CallAbandoned, RaisesAtOnce, ReturnsAtOnce
  <2>6. ASSUME NEW a \in Artifacts, Rebuild(a) \/ Clean(a)
        PROVE  NamesVerifiedFirst'
    BY <2>6 DEF Rebuild, Clean, locals, results, history
  <2>7. CASE UNCHANGED vars
    BY <2>7 DEF vars, locals, results, history
  <2> QED
    BY <2>1, <2>2, <2>3, <2>4, <2>5, <2>6, <2>7 DEF Next, Running
<1> QED
  BY <1>1, <1>2, PTL DEF Spec

(* README.md, "verifies every signature after producing it", is true of the *)
(* Windows backend whenever the target's glob matched a single file.        *)
THEOREM SingleFileIsVerified == Spec => [](Len(artifacts) = 1 => EverySignatureVerified)
<1>1. IInv /\ NamesVerifiedFirst => (Len(artifacts) = 1 => EverySignatureVerified)
  BY ListingFacts DEF IInv, TypeOK, NamesVerifiedFirst, EverySignatureVerified
<1> QED
  BY <1>1, Invariance, FirstIsVerified, PTL

------------------------------------------------------------------------------
(* The safety half of CallReturns: a number that every step of sign() lowers. *)
Runs == Artifacts \X Tsas

WorkLeft == IF pc = "idle" THEN 0 ELSE 1 + Cardinality(Runs \ ran)

LEMMA RunsFinite ==
  ASSUME NEW R
  PROVE  /\ IsFiniteSet(Runs \ R) /\ Cardinality(Runs \ R) \in Nat
         /\ Cardinality(Runs \ R) <= NArtifacts * NTsa
<1>1. /\ IsFiniteSet(Artifacts) /\ Cardinality(Artifacts) = NArtifacts
      /\ IsFiniteSet(Tsas) /\ Cardinality(Tsas) = NTsa
  BY FS_Interval DEF Artifacts, Tsas
<1>2. IsFiniteSet(Runs) /\ Cardinality(Runs) = NArtifacts * NTsa
  BY <1>1, FS_Product DEF Runs
<1>3. Runs \ R \in SUBSET Runs
  OBVIOUS
<1> QED
  BY <1>2, <1>3, FS_Subset, FS_CardinalityType

(* The next run of the tool is one that this call has not made yet.         *)
LEMMA RunIsNew ==
  ASSUME IInv, pc = "signing", RunsTool
  PROVE  Cardinality(Runs \ ran') < Cardinality(Runs \ ran)
<1> DEFINE run == <<artifacts[index], attempt>>
<1>1. attempt \in Tsas /\ artifacts[index] \in Artifacts
  BY LoopFacts
<1>2. run \notin ran
  BY <1>1 DEF IInv, Progress, Tsas
<1>3. run \in Runs \ ran
  BY <1>1, <1>2 DEF Runs
<1>4. Runs \ ran' = (Runs \ ran) \ {run}
  BY DEF RunsTool
<1> HIDE DEF run
<1>5. Cardinality((Runs \ ran) \ {run}) = Cardinality(Runs \ ran) - 1
  BY <1>3, RunsFinite, FS_RemoveElement
<1> DEFINE left == Cardinality(Runs \ ran)
<1>6. left \in Nat /\ Cardinality(Runs \ ran') = left - 1
  BY <1>4, <1>5, RunsFinite
<1> HIDE DEF left
<1>7. left - 1 < left
  BY <1>6
<1> QED
  BY <1>6, <1>7 DEF left

(* windows.py:337-372 with 243-288.  From its first tool run on, a call     *)
(* lowers, with every subprocess it runs, a number that is at most          *)
(* NArtifacts * NTsa + 1: no (artifact, authority) pair is tried twice, and *)
(* nothing outside the call raises the number again.                        *)
CallShrinks ==
  [][pc # "idle" => /\ WorkLeft' <= WorkLeft
                    /\ Running => WorkLeft' < WorkLeft]_vars

THEOREM CallsShrink == Spec => [](WorkLeft \in 0..(NArtifacts * NTsa + 1)) /\ CallShrinks
<1>1. WorkLeft \in 0..(NArtifacts * NTsa + 1)
  <2>1. NArtifacts * NTsa \in Nat
    OBVIOUS
  <2> DEFINE bound == NArtifacts * NTsa
             left == Cardinality(Runs \ ran)
  <2>2. left \in Nat /\ left <= bound /\ bound \in Nat
    BY <2>1, RunsFinite
  <2>3. WorkLeft = IF pc = "idle" THEN 0 ELSE 1 + left
    BY DEF WorkLeft
  <2> HIDE DEF bound, left, WorkLeft
  <2>4. WorkLeft \in 0..(bound + 1)
    BY <2>2, <2>3
  <2> QED
    BY <2>4 DEF bound
<1>2. IInv /\ [Next]_vars =>
        [pc # "idle" => /\ WorkLeft' <= WorkLeft
                        /\ Running => WorkLeft' < WorkLeft]_vars
  <2> SUFFICES ASSUME IInv, Next, pc # "idle"
               PROVE  /\ WorkLeft' <= WorkLeft
                      /\ Running => WorkLeft' < WorkLeft
    OBVIOUS
  <2> DEFINE left == Cardinality(Runs \ ran)
             leftAfter == Cardinality(Runs \ ran')
  <2>1. /\ left \in Nat /\ WorkLeft = 1 + left
        /\ leftAfter \in Nat /\ WorkLeft' \in {0, 1 + leftAfter}
    BY RunsFinite DEF WorkLeft
  <2>2. ASSUME ToolSucceeds \/ ToolFailsOver \/ ToolGivesUp
        PROVE  leftAfter < left
    BY <2>2, RunIsNew DEF ToolSucceeds, ToolFailsOver, ToolGivesUp
  <2>3. ASSUME VerifyAfterSign \/ CallAbandoned
        PROVE  WorkLeft' = 0
    BY <2>3 DEF VerifyAfterSign, ReturnsFailed, CallAbandoned, WorkLeft
  <2>4. ASSUME NEW a \in Artifacts, Rebuild(a) \/ Clean(a)
        PROVE  leftAfter = left
    BY <2>4 DEF Rebuild, Clean, history
  <2> HIDE DEF left, leftAfter, WorkLeft
  <2>5. Running => WorkLeft' < WorkLeft
    BY <2>1, <2>2, <2>3 DEF Running
  <2>6. \/ Running \/ CallAbandoned
        \/ \E a \in Artifacts : Rebuild(a) \/ Clean(a)
    BY DEF Next, SignCall, SignSkipsToolAbsent, SignSkipsNoCredential, SignFailsEarly,
           SignBegins, VerifySkips, Verify, RaisesAtOnce
  <2>7. WorkLeft' <= WorkLeft
    BY <2>1, <2>3, <2>4, <2>5, <2>6
  <2> QED
    BY <2>5, <2>7
<1> QED
  BY <1>1, <1>2, Invariance, PTL DEF Spec, CallShrinks

==============================================================================
