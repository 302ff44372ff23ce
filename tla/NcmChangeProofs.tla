--------------------------- MODULE NcmChangeProofs ---------------------------
(***************************************************************************)
(* Proofs about NcmChange, for any threads, candidates and administrators, *)
(* any configurations, any faults, and requests that overlap in any way.   *)
(*                                                                         *)
(* Statuses are written on stale reads, so a candidate's status alone says *)
(* little.  What is stable is its approver: once somebody who is not the   *)
(* author has approved it, it stays approved by somebody who is not the    *)
(* author (Seconded), because a review carries a reviewer who was compared *)
(* with an author that never changes.  Every thread that deploys relies on *)
(* that, and on the row of its deployment.                                 *)
(*                                                                         *)
(* What overlapping requests do break (a candidate sent twice, a rollback  *)
(* point older than the device) is proved of requests taken one after the  *)
(* other, under the assumption Serial: SerialInv, and from it that change  *)
(* control (ChangeControl) is implemented.                                 *)
(***************************************************************************)
EXTENDS NcmChange, SequenceTheorems, TLAPS

Seconded(c) == approver[c] \notin {Nobody, author[c]}

CandidateInv(c) ==
  /\ status[c] = "none" => approver[c] = Nobody
  /\ status[c] # "none" => lines[c] \in Changes
  /\ status[c] \in {"approved", "deployed", "failed"} => Seconded(c)

SomeGone == \E j \in DOMAIN archive : archive[j] = Gone

HasPoint(d) == deployments[d].pre # 0 \/ SomeGone

ThreadInv(w) ==
  /\ pc[w] \in {"submit", "review"} \cup Deploying =>
       job[w].cand \in Candidates /\ status[job[w].cand] # "none"
  /\ pc[w] = "review" => /\ job[w].to \in {"approved", "rejected"}
                         /\ job[w].to = "approved" =>
                              job[w].who \in Admins /\ job[w].who # author[job[w].cand]
  /\ pc[w] \in Deploying => Seconded(job[w].cand)
  /\ pc[w] \in (Deploying \cup RollingBack) \ {"insert"} => job[w].dep \in DOMAIN deployments
  /\ pc[w] \in {"pre_archive", "post_archive", "rb_archive", "rb_send"} => job[w].buf \in Configs
  /\ pc[w] = "send" => HasPoint(job[w].dep)

SentInv(i) ==
  /\ Seconded(sent[i].cand)
  /\ sent[i].dep \in DOMAIN deployments /\ HasPoint(sent[i].dep)

\* Every set of snapshot numbers has a greatest.  (A law of arithmetic; the
\* archive grows by one snapshot at a time, so it is proved along with it.)
HasGreatest == \A T \in SUBSET (1 .. Len(archive)) :
  T # {} => \E m \in T : \A j \in T : j <= m

ChangeInv ==
  /\ TypeOK /\ HasGreatest /\ NamedSnapshotsExist
  /\ \A c \in Candidates : CandidateInv(c)
  /\ \A w \in Threads : ThreadInv(w)
  /\ \A i \in DOMAIN sent : SentInv(i)

-----------------------------------------------------------------------------
(* The operators.                                                          *)

Labels == {"idle", "submit", "review"} \cup Deploying \cup RollingBack

\* What TypeOK says of the sequences, element by element.
LEMMA SeqFacts ==
  ASSUME TypeOK
  PROVE  /\ Len(deployments) \in Nat /\ DOMAIN deployments = 1 .. Len(deployments)
         /\ \A d \in DOMAIN deployments : deployments[d] \in Deployment
         /\ Len(archive) \in Nat /\ DOMAIN archive = 1 .. Len(archive)
         /\ \A i \in DOMAIN archive : archive[i] \in Configs \cup {Gone}
         /\ Len(sent) \in Nat /\ DOMAIN sent = 1 .. Len(sent)
         /\ \A i \in DOMAIN sent : sent[i].cand \in Candidates
<1> DEFINE Sending == [cand : Candidates, dep : Nat, before : Configs, after : Configs]
<1>1. deployments \in Seq(Deployment) /\ archive \in Seq(Configs \cup {Gone}) /\ sent \in Seq(Sending)
  BY DEF TypeOK
<1>2. \A e \in Sending : e.cand \in Candidates
  OBVIOUS
<1> HIDE DEF Sending
<1>3. \A i \in DOMAIN sent : sent[i] \in Sending
  BY <1>1
<1>4. QED
  BY <1>1, <1>2, <1>3

\* What a thread may become without breaking the types.
LEMMA ThreadTypes ==
  ASSUME TypeOK, NEW w \in Threads, NEW label \in Labels, NEW j \in Jobs,
         pc' = [pc EXCEPT ![w] = label], job' = [job EXCEPT ![w] = j]
  PROVE  /\ pc' \in [Threads -> Labels] /\ job' \in [Threads -> Jobs]
         /\ pc'[w] = label /\ job'[w] = j
         /\ \A v \in Threads \ {w} : pc'[v] = pc[v] /\ job'[v] = job[v]
<1>1. pc \in [Threads -> Labels] /\ job \in [Threads -> Jobs]
  BY DEF TypeOK, Labels
<1>2. QED
  BY <1>1

LEMMA NoJobIsJob == NoJob \in Jobs
BY DEF NoJob, Jobs, Statuses

LEMMA LatestIsNumber ==
  ASSUME TypeOK, HasGreatest
  PROVE  Latest \in Alive \cup {0} /\ Latest \in Nat
<1>1. Alive \subseteq 1 .. Len(archive)
  BY DEF Alive, TypeOK
<1>2. CASE Alive = {}
  BY <1>2 DEF Latest
<1>3. CASE Alive # {}
  <2>1. \E m \in Alive : \A j \in Alive : j <= m
    BY <1>1, <1>3 DEF HasGreatest
  <2>2. Latest \in Alive
    BY <1>3, <2>1 DEF Latest
  <2>3. QED
    BY <1>1, <2>2
<1>4. QED
  BY <1>2, <1>3

LEMMA SnapshotForIsNumber ==
  ASSUME TypeOK, HasGreatest, NEW content
  PROVE  SnapshotFor(content) \in Nat
BY LatestIsNumber DEF SnapshotFor, TypeOK

LEMMA OverlayIsConfig ==
  ASSUME NEW config \in Configs, NEW change \in LineSets, NEW taken
  PROVE  Overlay(config, change, taken) \in Configs
<1>1. \A k \in DOMAIN change : change[k] \in Values \cup {Absent}
  BY DEF LineSets
<1>2. QED
  BY <1>1 DEF Overlay, Configs

LEMMA ReplayIsLines ==
  ASSUME NEW config \in Configs
  PROVE  Replay(config) \in LineSets
<1>1. Replay(config) \in [{s \in Settings : config[s] # Absent} -> Values \cup {Absent}]
  BY DEF Replay, Configs
<1>2. QED
  BY <1>1 DEF LineSets

\* Archiving keeps what is there, and what is archived is a configuration.
LEMMA ArchivesKeeps ==
  ASSUME TypeOK, HasGreatest, NEW content \in Configs, Archives(content)
  PROVE  /\ archive' \in Seq(Configs \cup {Gone})
         /\ HasGreatest'
         /\ Alive \subseteq Alive'
         /\ SomeGone => SomeGone'
<1>1. CASE archive' = archive
  BY <1>1 DEF TypeOK, HasGreatest, Alive, SomeGone
<1>2. CASE archive' = Append(archive, content)
  <2>1. archive' \in Seq(Configs \cup {Gone})
    BY <1>2 DEF TypeOK
  <2>2. Len(archive') = Len(archive) + 1 /\ Len(archive) \in Nat
    BY <1>2 DEF TypeOK
  <2>3. DOMAIN archive = 1 .. Len(archive) /\ DOMAIN archive' = 1 .. Len(archive) + 1
    BY <1>2, <2>1, <2>2 DEF TypeOK
  <2>4. \A i \in DOMAIN archive : archive'[i] = archive[i]
    BY <1>2 DEF TypeOK
  <2>5. HasGreatest'
    <3> SUFFICES ASSUME NEW T \in SUBSET (1 .. Len(archive')), T # {}
                 PROVE  \E m \in T : \A j \in T : j <= m
      BY DEF HasGreatest
    <3>1. CASE Len(archive) + 1 \in T
      BY <2>2, <3>1
    <3>2. CASE Len(archive) + 1 \notin T
      <4>1. T \in SUBSET (1 .. Len(archive))
        BY <2>2, <3>2
      <4>2. QED
        BY <4>1 DEF HasGreatest
    <3>3. QED
      BY <3>1, <3>2
  <2>6. QED
    BY <2>1, <2>3, <2>4, <2>5 DEF Alive, SomeGone
<1>3. QED
  BY <1>1, <1>2 DEF Archives

LEMMA ChangeInvInit == Init => ChangeInv
<1> SUFFICES ASSUME Init PROVE ChangeInv
  OBVIOUS
<1>1. TypeOK
  BY ConfigAssumption DEF Init, TypeOK, NoJob, Jobs, Statuses, Deploying, RollingBack
<1>2. HasGreatest
  <2>1. Len(archive) = 0
    BY DEF Init
  <2>2. 1 .. Len(archive) = {}
    BY <2>1
  <2>3. QED
    BY <2>2 DEF HasGreatest
<1>3. NamedSnapshotsExist
  BY DEF Init, NamedSnapshotsExist
<1>4. \A c \in Candidates : CandidateInv(c)
  BY DEF Init, CandidateInv
<1>5. \A w \in Threads : ThreadInv(w)
  BY DEF Init, ThreadInv, Deploying, RollingBack
<1>6. \A i \in DOMAIN sent : SentInv(i)
  BY DEF Init
<1>7. QED
  BY <1>1, <1>2, <1>3, <1>4, <1>5, <1>6 DEF ChangeInv

-----------------------------------------------------------------------------
(* What no step takes back, and what a thread that did not move keeps by   *)
(* it.                                                                     *)

Stable ==
  /\ \A c \in Candidates :
       /\ Seconded(c) => Seconded(c)'
       /\ status[c] # "none" => status'[c] # "none" /\ author'[c] = author[c]
  /\ DOMAIN deployments \subseteq DOMAIN deployments'
  /\ \A d \in DOMAIN deployments : HasPoint(d) => HasPoint(d)'

LEMMA OtherThreadsKeep ==
  ASSUME TypeOK, Stable, NEW w \in Threads, ThreadInv(w), pc'[w] = pc[w], job'[w] = job[w]
  PROVE  ThreadInv(w)'
BY DEF ThreadInv, Stable, TypeOK, Deploying, RollingBack

LEMMA IdleThread ==
  ASSUME NEW w \in Threads, pc'[w] = "idle"
  PROVE  ThreadInv(w)'
BY DEF ThreadInv, Deploying, RollingBack

LEMMA SentKeeps ==
  ASSUME TypeOK, Stable, UNCHANGED sent, \A i \in DOMAIN sent : SentInv(i)
  PROVE  (\A i \in DOMAIN sent : SentInv(i))'
<1> SUFFICES ASSUME NEW i \in DOMAIN sent PROVE SentInv(i)'
  OBVIOUS
<1>1. sent[i].cand \in Candidates
  BY SeqFacts
<1>2. Seconded(sent[i].cand)' /\ HasPoint(sent[i].dep)'
  BY <1>1 DEF SentInv, Stable
<1>3. QED
  BY <1>2 DEF SentInv, Stable

\* A step of one thread: what is left to show of the invariant.
LEMMA OneThread ==
  ASSUME ChangeInv, Stable, NEW w \in Threads,
         \A v \in Threads \ {w} : pc'[v] = pc[v] /\ job'[v] = job[v],
         ThreadInv(w)'
  PROVE  \A v \in Threads : ThreadInv(v)'
BY OtherThreadsKeep DEF ChangeInv

\* The rows of the candidates, the deployments and the archive stay.
LEMMA RowsStay ==
  ASSUME ChangeInv, UNCHANGED <<candidateRows, deployments, archive, sent>>
  PROVE  /\ Stable /\ HasGreatest' /\ NamedSnapshotsExist'
         /\ \A c \in Candidates : CandidateInv(c)'
         /\ (\A i \in DOMAIN sent : SentInv(i))'
<1>1. Stable
  BY DEF ChangeInv, Stable, Seconded, HasPoint, SomeGone, candidateRows
<1>2. HasGreatest' /\ NamedSnapshotsExist'
  BY DEF ChangeInv, HasGreatest, NamedSnapshotsExist, Alive
<1>3. \A c \in Candidates : CandidateInv(c)'
  BY DEF ChangeInv, CandidateInv, Seconded, candidateRows
<1>4. QED
  BY <1>1, <1>2, <1>3, SentKeeps DEF ChangeInv

\* A step that only moves a thread and changes what it remembers.
LEMMA ThreadMoves ==
  ASSUME ChangeInv, NEW w \in Threads, NEW label \in Labels, NEW j \in Jobs,
         pc' = [pc EXCEPT ![w] = label], job' = [job EXCEPT ![w] = j],
         UNCHANGED <<candidateRows, deployments, archive, device, sent>>,
         label \in {"submit", "review"} \cup Deploying => j.cand \in Candidates /\ status[j.cand] # "none",
         label = "review" => /\ j.to \in {"approved", "rejected"}
                             /\ j.to = "approved" => j.who \in Admins /\ j.who # author[j.cand],
         label \in Deploying => Seconded(j.cand),
         label \in (Deploying \cup RollingBack) \ {"insert"} => j.dep \in DOMAIN deployments,
         label \in {"pre_archive", "post_archive", "rb_archive", "rb_send"} => j.buf \in Configs,
         label = "send" => HasPoint(j.dep)
  PROVE  ChangeInv'
<1>1. /\ pc' \in [Threads -> Labels] /\ job' \in [Threads -> Jobs]
      /\ pc'[w] = label /\ job'[w] = j
      /\ \A v \in Threads \ {w} : pc'[v] = pc[v] /\ job'[v] = job[v]
  BY ThreadTypes DEF ChangeInv
<1>2. TypeOK'
  BY <1>1 DEF ChangeInv, TypeOK, Labels, candidateRows
<1>3. ThreadInv(w)'
  BY <1>1 DEF ThreadInv, Seconded, HasPoint, SomeGone, candidateRows
<1>4. QED
  BY <1>1, <1>2, <1>3, RowsStay, OneThread DEF ChangeInv

-----------------------------------------------------------------------------
(* Candidates and reviews.                                                 *)

LEMMA create_candidateKeeps ==
  ASSUME ChangeInv, NEW c \in Candidates, NEW a \in Admins, NEW change \in Changes,
         create_candidate(c, a, change)
  PROVE  ChangeInv'
<1>1. TypeOK'
  BY DEF create_candidate, ChangeInv, TypeOK, Statuses
<1>2. Stable
  BY DEF create_candidate, ChangeInv, TypeOK, CandidateInv, Stable, Seconded, HasPoint, SomeGone
<1>3. HasGreatest' /\ NamedSnapshotsExist'
  BY DEF create_candidate, ChangeInv, HasGreatest, NamedSnapshotsExist, Alive
<1>4. \A d \in Candidates : CandidateInv(d)'
  BY <1>2 DEF create_candidate, ChangeInv, TypeOK, CandidateInv, Stable, Seconded
<1>5. \A v \in Threads : ThreadInv(v)'
  BY <1>2, OtherThreadsKeep DEF create_candidate, ChangeInv
<1>6. (\A i \in DOMAIN sent : SentInv(i))'
  BY <1>2, SentKeeps DEF create_candidate, ChangeInv
<1>7. QED
  BY <1>1, <1>3, <1>4, <1>5, <1>6 DEF ChangeInv

LEMMA submit_candidateKeeps ==
  ASSUME ChangeInv, NEW w \in Threads, NEW c \in Candidates, submit_candidate(w, c)
  PROVE  ChangeInv'
<1> DEFINE j == [NoJob EXCEPT !.cand = c]
<1>1. status[c] # "none"
  BY DEF submit_candidate, can_transition, ALLOWED_TRANSITIONS, Statuses
<1>2. j \in Jobs /\ j.cand = c
  BY NoJobIsJob DEF Jobs
<1>3. /\ pc' = [pc EXCEPT ![w] = "submit"] /\ job' = [job EXCEPT ![w] = j]
      /\ UNCHANGED <<candidateRows, deployments, archive, device, sent>>
  BY DEF submit_candidate, Starts, Goto
<1> HIDE DEF j
<1>4. QED
  BY <1>1, <1>2, <1>3, ThreadMoves DEF Labels, Deploying, RollingBack

LEMMA submit_commitKeeps ==
  ASSUME ChangeInv, NEW w \in Threads, submit_commit(w)
  PROVE  ChangeInv'
<1> USE DEF submit_commit, Ends, Goto
<1>1. job[w].cand \in Candidates /\ status[job[w].cand] # "none"
  BY DEF ChangeInv, ThreadInv
<1>2. TypeOK'
  BY DEF ChangeInv, TypeOK, NoJob, Jobs, Statuses
<1>3. Stable
  BY <1>1 DEF ChangeInv, TypeOK, Stable, Seconded, HasPoint, SomeGone
<1>4. HasGreatest' /\ NamedSnapshotsExist'
  BY DEF ChangeInv, HasGreatest, NamedSnapshotsExist, Alive
<1>5. \A c \in Candidates : CandidateInv(c)'
  BY <1>1 DEF ChangeInv, TypeOK, CandidateInv, Seconded
<1>6. \A v \in Threads : ThreadInv(v)'
  BY <1>3, IdleThread, OneThread DEF ChangeInv, TypeOK
<1>7. QED
  BY <1>2, <1>3, <1>4, <1>5, <1>6, SentKeeps DEF ChangeInv

LEMMA review_candidateKeeps ==
  ASSUME ChangeInv, NEW w \in Threads, NEW c \in Candidates, NEW a \in Admins,
         NEW target \in {"approved", "rejected"}, review_candidate(w, c, a, target)
  PROVE  ChangeInv'
<1> DEFINE j == [NoJob EXCEPT !.cand = c, !.to = target, !.who = a]
<1>1. status[c] # "none"
  BY DEF review_candidate, MayReview, can_transition, ALLOWED_TRANSITIONS, Statuses
<1>2. target = "approved" => author[c] # a
  BY DEF review_candidate, MayReview
<1>3. j \in Jobs /\ j.cand = c /\ j.to = target /\ j.who = a
  BY NoJobIsJob DEF Jobs, Statuses
<1>4. /\ pc' = [pc EXCEPT ![w] = "review"] /\ job' = [job EXCEPT ![w] = j]
      /\ UNCHANGED <<candidateRows, deployments, archive, device, sent>>
  BY DEF review_candidate, Starts, Goto
<1> HIDE DEF j
<1>5. QED
  BY <1>1, <1>2, <1>3, <1>4, ThreadMoves DEF Labels, Deploying, RollingBack

LEMMA review_commitKeeps ==
  ASSUME ChangeInv, NEW w \in Threads, review_commit(w)
  PROVE  ChangeInv'
<1> USE DEF review_commit, Ends, Goto
<1>1. /\ job[w].cand \in Candidates /\ status[job[w].cand] # "none"
      /\ job[w].to \in {"approved", "rejected"}
      /\ job[w].to = "approved" => job[w].who \in Admins /\ job[w].who # author[job[w].cand]
  BY DEF ChangeInv, ThreadInv
<1>2. TypeOK'
  BY <1>1 DEF ChangeInv, TypeOK, NoJob, Jobs, Statuses
<1>3. Stable
  BY <1>1, PeopleAssumption DEF ChangeInv, TypeOK, Stable, Seconded, HasPoint, SomeGone
<1>4. HasGreatest' /\ NamedSnapshotsExist'
  BY DEF ChangeInv, HasGreatest, NamedSnapshotsExist, Alive
<1>5. \A c \in Candidates : CandidateInv(c)'
  BY <1>1, PeopleAssumption DEF ChangeInv, TypeOK, CandidateInv, Seconded
<1>6. \A v \in Threads : ThreadInv(v)'
  BY <1>3, IdleThread, OneThread DEF ChangeInv, TypeOK
<1>7. QED
  BY <1>2, <1>3, <1>4, <1>5, <1>6, SentKeeps DEF ChangeInv

-----------------------------------------------------------------------------
(* deploy_candidate.                                                       *)

LEMMA deploy_candidateKeeps ==
  ASSUME ChangeInv, NEW w \in Threads, NEW c \in Candidates, deploy_candidate(w, c)
  PROVE  ChangeInv'
<1> DEFINE j == [NoJob EXCEPT !.cand = c, !.dep = Len(deployments) + 1]
<1>1. status[c] # "none" /\ Seconded(c)
  BY DEF deploy_candidate, ChangeInv, CandidateInv
<1>2. Len(deployments) + 1 \in Nat
  BY SeqFacts DEF ChangeInv
<1>3. j \in Jobs /\ j.cand = c
  BY <1>2, NoJobIsJob DEF Jobs
<1>4. /\ pc' = [pc EXCEPT ![w] = "insert"] /\ job' = [job EXCEPT ![w] = j]
      /\ UNCHANGED <<candidateRows, deployments, archive, device, sent>>
  BY DEF deploy_candidate, Starts, Goto
<1> HIDE DEF j
<1>5. "insert" \in Labels
  BY DEF Labels, Deploying
<1>6. QED
  BY <1>1, <1>3, <1>4, <1>5, ThreadMoves DEF Deploying, RollingBack

\* Rewriting the row of a deployment without taking its rollback point away,
\* and candidates to a later status.
LEMMA RowOf ==
  ASSUME ChangeInv, NEW w \in Threads, NEW d \in Nat, NEW row \in Deployment,
         d \in DOMAIN deployments, deployments' = [deployments EXCEPT ![d] = row],
         row.pre = deployments[d].pre \/ row.pre \in Alive,
         row.post = deployments[d].post \/ row.post \in Alive \cup {0},
         UNCHANGED <<archive, sent>>
  PROVE  /\ deployments' \in Seq(Deployment) /\ DOMAIN deployments' = DOMAIN deployments
         /\ \A e \in DOMAIN deployments : HasPoint(e) => HasPoint(e)'
         /\ NamedSnapshotsExist' /\ HasGreatest'
<1>1. deployments' \in Seq(Deployment) /\ DOMAIN deployments' = DOMAIN deployments
  BY DEF ChangeInv, TypeOK
<1>2. 0 \notin Alive
  BY DEF Alive, ChangeInv, TypeOK
<1>3. \A e \in DOMAIN deployments :
        deployments'[e] = IF e = d THEN row ELSE deployments[e]
  BY DEF ChangeInv, TypeOK
<1>4. \A e \in DOMAIN deployments : HasPoint(e) => HasPoint(e)'
  BY <1>2, <1>3 DEF HasPoint, SomeGone
<1>5. NamedSnapshotsExist'
  BY <1>1, <1>3 DEF ChangeInv, NamedSnapshotsExist, Alive
<1>6. HasGreatest'
  BY DEF ChangeInv, HasGreatest
<1>7. QED
  BY <1>1, <1>4, <1>5, <1>6

LEMMA InsertDeploymentKeeps ==
  ASSUME ChangeInv, NEW w \in Threads, InsertDeployment(w)
  PROVE  ChangeInv'
<1> DEFINE row == [cand |-> job[w].cand, status |-> "running", pre |-> 0, post |-> 0,
                   verified |-> FALSE, rollbacks |-> 0, told |-> ""]
           n == Len(deployments)
<1>1. job[w].cand \in Candidates /\ Seconded(job[w].cand) /\ status[job[w].cand] # "none"
  BY DEF InsertDeployment, ChangeInv, ThreadInv, Deploying
<1>2. row \in Deployment /\ row.pre = 0 /\ row.post = 0
  BY <1>1 DEF Deployment
<1>3. /\ deployments' = Append(deployments, row) /\ job[w].dep = n + 1
      /\ pc' = [pc EXCEPT ![w] = "pre_read"] /\ job' = job
      /\ UNCHANGED <<candidateRows, archive, device, sent>>
  BY DEF InsertDeployment, Goto
<1> HIDE DEF row
<1>4. deployments \in Seq(Deployment) /\ n \in Nat /\ DOMAIN deployments = 1 .. n
  BY SeqFacts DEF ChangeInv, TypeOK
<1>5. /\ deployments' \in Seq(Deployment) /\ DOMAIN deployments' = 1 .. n + 1
      /\ \A d \in DOMAIN deployments : deployments'[d] = deployments[d]
      /\ deployments'[n + 1] = row
  BY <1>2, <1>3, <1>4
<1> HIDE DEF n
<1>6. pc' \in [Threads -> Labels] /\ pc'[w] = "pre_read" /\ \A v \in Threads \ {w} : pc'[v] = pc[v]
  BY <1>3 DEF ChangeInv, TypeOK, Labels, Deploying
<1>7. TypeOK'
  BY <1>3, <1>5, <1>6 DEF ChangeInv, TypeOK, Labels, candidateRows
<1>8. Stable
  BY <1>3, <1>4, <1>5 DEF Stable, Seconded, HasPoint, SomeGone, candidateRows
<1>9. HasGreatest'
  BY <1>3 DEF ChangeInv, HasGreatest
<1>10. NamedSnapshotsExist'
  BY <1>2, <1>3, <1>4, <1>5 DEF ChangeInv, NamedSnapshotsExist, Alive
<1>11. \A c \in Candidates : CandidateInv(c)'
  BY <1>3 DEF ChangeInv, CandidateInv, Seconded, candidateRows
<1>12. ThreadInv(w)'
  BY <1>1, <1>3, <1>4, <1>5, <1>6 DEF ThreadInv, Deploying, RollingBack, Seconded, candidateRows
<1>13. (\A i \in DOMAIN sent : SentInv(i))'
  BY <1>3, <1>8, SentKeeps DEF ChangeInv
<1>14. QED
  BY <1>3, <1>6, <1>7, <1>8, <1>9, <1>10, <1>11, <1>12, <1>13, OneThread DEF ChangeInv

\* A thread that ends, or goes on with nothing new in its memory.
LEMMA MovesKeeps ==
  ASSUME ChangeInv, NEW w \in Threads,
         NumberTaken(w) \/ SnapshotGone(w) \/ PostBackupFails(w) \/ AfterBackupFails(w)
  PROVE  ChangeInv'
<1>1. CASE NumberTaken(w) \/ SnapshotGone(w)
  BY <1>1, NoJobIsJob, ThreadMoves
     DEF NumberTaken, SnapshotGone, Ends, Goto, Labels, Deploying, RollingBack
<1>2. CASE PostBackupFails(w) \/ AfterBackupFails(w)
  <2>1. job' = [job EXCEPT ![w] = job[w]] /\ job[w] \in Jobs
    BY <1>2 DEF PostBackupFails, AfterBackupFails, ChangeInv, TypeOK
  <2>2. ThreadInv(w)
    BY DEF ChangeInv
  <2>3. QED
    BY <1>2, <2>1, <2>2, ThreadMoves
       DEF PostBackupFails, AfterBackupFails, Goto, Labels, Deploying, RollingBack, ThreadInv
<1>3. QED
  BY <1>1, <1>2

LEMMA RetrieveKeeps ==
  ASSUME ChangeInv, NEW w \in Threads, PreBackup(w) \/ PostBackup(w) \/ AfterBackup(w)
  PROVE  ChangeInv'
<1> DEFINE j == [job[w] EXCEPT !.buf = device]
<1>1. job[w] \in Jobs /\ device \in Configs
  BY DEF ChangeInv, TypeOK
<1>2. j \in Jobs /\ j.buf = device /\ j.cand = job[w].cand /\ j.dep = job[w].dep
  BY <1>1 DEF Jobs
<1>3. job' = [job EXCEPT ![w] = j]
  BY DEF PreBackup, PostBackup, AfterBackup, Retrieve
<1>4. ThreadInv(w)
  BY DEF ChangeInv
<1> HIDE DEF j
<1>5. QED
  BY <1>1, <1>2, <1>3, <1>4, ThreadMoves
     DEF PreBackup, PostBackup, AfterBackup, Retrieve, Goto, Labels, Deploying, RollingBack, ThreadInv

\* A step of a thread that rewrites the row of one deployment and perhaps
\* concludes a candidate.
LEMMA RowKeeps ==
  ASSUME ChangeInv, NEW w \in Threads, NEW label \in Labels, NEW j \in Jobs,
         pc' = [pc EXCEPT ![w] = label], job' = [job EXCEPT ![w] = j],
         NEW d \in DOMAIN deployments, NEW row \in Deployment,
         deployments' = [deployments EXCEPT ![d] = row],
         row.pre = deployments[d].pre \/ row.pre \in Alive,
         row.post = deployments[d].post \/ row.post \in Alive \cup {0},
         \/ status' = status
         \/ \E c \in Candidates, s \in {"deployed", "failed"} :
              /\ Seconded(c) /\ status[c] # "none"
              /\ status' = [status EXCEPT ![c] = s],
         UNCHANGED <<author, approver, lines, archive, device, sent>>,
         ThreadInv(w)'
  PROVE  ChangeInv'
<1>1. d \in Nat
  BY SeqFacts DEF ChangeInv
<1>2. /\ deployments' \in Seq(Deployment) /\ DOMAIN deployments' = DOMAIN deployments
      /\ \A e \in DOMAIN deployments : HasPoint(e) => HasPoint(e)'
      /\ NamedSnapshotsExist' /\ HasGreatest'
  BY <1>1, RowOf
<1>3. /\ pc' \in [Threads -> Labels] /\ job' \in [Threads -> Jobs]
      /\ \A v \in Threads \ {w} : pc'[v] = pc[v] /\ job'[v] = job[v]
  BY ThreadTypes DEF ChangeInv
<1>4. status \in [Candidates -> Statuses] /\ status' \in [Candidates -> Statuses]
  BY DEF ChangeInv, TypeOK, Statuses
<1>5. TypeOK'
  BY <1>2, <1>3, <1>4 DEF ChangeInv, TypeOK, Labels
<1>6. Stable
  BY <1>2, <1>4 DEF Stable, Seconded
<1>7. \A c \in Candidates : CandidateInv(c)'
  BY <1>4 DEF ChangeInv, CandidateInv, Seconded
<1>8. QED
  BY <1>2, <1>3, <1>5, <1>6, <1>7, SentKeeps, OneThread DEF ChangeInv

\* A row with some columns changed is a row.
LEMMA RowTypes ==
  ASSUME NEW r \in Deployment
  PROVE  /\ \A s \in {"running", "succeeded", "failed", "rolled_back", "rollback_failed"} :
              /\ [r EXCEPT !.status = s] \in Deployment
              /\ [r EXCEPT !.status = s].pre = r.pre /\ [r EXCEPT !.status = s].post = r.post
         /\ \A n \in Nat : /\ [r EXCEPT !.pre = n] \in Deployment
                           /\ [r EXCEPT !.pre = n].pre = n /\ [r EXCEPT !.pre = n].post = r.post
BY DEF Deployment

LEMMA RowCounts ==
  ASSUME NEW r \in Deployment, NEW n \in Nat
  PROVE  LET row == [r EXCEPT !.rollbacks = n] IN
         row \in Deployment /\ row.pre = r.pre /\ row.post = r.post
BY DEF Deployment

LEMMA RowNames ==
  ASSUME NEW r \in Deployment
  PROVE  r.pre \in Nat /\ r.post \in Nat /\ r.rollbacks + 1 \in Nat
<1>1. r.pre \in Nat /\ r.post \in Nat /\ r.rollbacks \in Nat
  BY DEF Deployment
<1>2. QED
  BY <1>1

\* What the code of a thread that has a deployment can rely on.
LEMMA HasRow ==
  ASSUME ChangeInv, NEW w \in Threads, pc[w] \in (Deploying \cup RollingBack) \ {"insert"}
  PROVE  /\ job[w] \in Jobs /\ job[w].dep \in DOMAIN deployments /\ Dep(w) \in Deployment
         /\ pc[w] \in Deploying => /\ job[w].cand \in Candidates /\ Seconded(job[w].cand)
                                   /\ status[job[w].cand] # "none"
BY SeqFacts DEF ChangeInv, ThreadInv, TypeOK, Dep

LEMMA EndsAsIdle ==
  ASSUME ChangeInv, NEW w \in Threads, Ends(w)
  PROVE  /\ pc' = [pc EXCEPT ![w] = "idle"] /\ job' = [job EXCEPT ![w] = NoJob]
         /\ "idle" \in Labels /\ NoJob \in Jobs /\ ThreadInv(w)'
<1>1. pc'[w] = "idle"
  BY DEF Ends, Goto, ChangeInv, TypeOK
<1>2. QED
  BY <1>1, IdleThread, NoJobIsJob DEF Ends, Goto, Labels

LEMMA FailuresKeep ==
  ASSUME ChangeInv, NEW w \in Threads,
         PreBackupFails(w) \/ ConnectFails(w) \/ DeploymentFailed(w) \/ RollbackFailed(w)
  PROVE  ChangeInv'
<1> USE DEF MarkFailed
<1>1. pc[w] \in (Deploying \cup RollingBack) \ {"insert"} /\ Ends(w)
  BY DEF PreBackupFails, ConnectFails, DeploymentFailed, RollbackFailed, Deploying, RollingBack
<1>2. PICK s \in {"failed", "rollback_failed"} :
        deployments' = [deployments EXCEPT ![job[w].dep] = [Dep(w) EXCEPT !.status = s]]
  BY <1>1, HasRow DEF PreBackupFails, ConnectFails, DeploymentFailed, RollbackFailed, Dep
<1>3. \/ status' = status
      \/ pc[w] \in Deploying /\ status' = [status EXCEPT ![job[w].cand] = "failed"]
  BY DEF PreBackupFails, ConnectFails, DeploymentFailed, RollbackFailed, candidateRows, Deploying
<1>4. UNCHANGED <<author, approver, lines, archive, device, sent>>
  BY DEF PreBackupFails, ConnectFails, DeploymentFailed, RollbackFailed, candidateRows
<1> DEFINE row == [Dep(w) EXCEPT !.status = s]
<1>5. row \in Deployment /\ row.pre = Dep(w).pre /\ row.post = Dep(w).post
  BY <1>1, HasRow, RowTypes
<1> HIDE DEF row
<1>6. QED
  BY <1>1, <1>2, <1>3, <1>4, <1>5, HasRow, EndsAsIdle, RowKeeps DEF row, Dep

LEMMA RecordPreKeeps ==
  ASSUME ChangeInv, NEW w \in Threads, RecordPre(w)
  PROVE  ChangeInv'
<1> DEFINE row == [Dep(w) EXCEPT !.pre = job[w].point]
<1>1. pc[w] \in (Deploying \cup RollingBack) \ {"insert"} /\ pc[w] \in Deploying
  BY DEF RecordPre, Deploying
<1>2. job[w].point \in Alive /\ job[w].point \in Nat /\ job[w].point # 0
  BY SeqFacts DEF RecordPre, Alive, ChangeInv
<1>3. row \in Deployment /\ row.pre = job[w].point /\ row.post = Dep(w).post
  BY <1>1, <1>2, HasRow, RowTypes
<1>4. /\ deployments' = [deployments EXCEPT ![job[w].dep] = row]
      /\ pc' = [pc EXCEPT ![w] = "send"] /\ job' = job
      /\ UNCHANGED <<candidateRows, archive, device, sent>>
  BY <1>1, HasRow DEF RecordPre, Goto, Dep
<1> HIDE DEF row
<1>5. job' = [job EXCEPT ![w] = job[w]] /\ job'[w] = job[w] /\ pc'[w] = "send" /\ "send" \in Labels
  BY <1>4 DEF ChangeInv, TypeOK, Labels, Deploying
<1>6. HasPoint(job[w].dep)' /\ job[w].dep \in DOMAIN deployments'
  BY <1>1, <1>2, <1>3, <1>4, HasRow DEF HasPoint, ChangeInv, TypeOK
<1>7. ThreadInv(w)'
  BY <1>1, <1>4, <1>5, <1>6, HasRow DEF ThreadInv, Deploying, RollingBack, Seconded, candidateRows
<1>8. QED
  BY <1>1, <1>2, <1>3, <1>4, <1>5, <1>7, HasRow, RowKeeps DEF Dep, candidateRows

LEMMA DeploymentSucceededKeeps ==
  ASSUME ChangeInv, NEW w \in Threads, DeploymentSucceeded(w)
  PROVE  ChangeInv'
<1> DEFINE row == [Dep(w) EXCEPT !.status = "succeeded", !.post = job[w].snap,
                                 !.verified = VerifiedChanged(w)]
<1>1. pc[w] \in (Deploying \cup RollingBack) \ {"insert"} /\ pc[w] \in Deploying
  BY DEF DeploymentSucceeded, Deploying
<1>2. job[w].snap \in Nat /\ job[w].snap \in Alive \cup {0}
  BY <1>1, HasRow DEF DeploymentSucceeded, Jobs
<1>3. VerifiedChanged(w) \in BOOLEAN
  BY DEF VerifiedChanged
<1>4. row \in Deployment /\ row.pre = Dep(w).pre /\ row.post = job[w].snap
  BY <1>1, <1>2, <1>3, HasRow DEF Deployment
<1>5. /\ deployments' = [deployments EXCEPT ![job[w].dep] = row] /\ Ends(w)
      /\ status' = [status EXCEPT ![job[w].cand] = "deployed"]
      /\ UNCHANGED <<author, approver, lines, archive, device, sent>>
  BY <1>1, HasRow DEF DeploymentSucceeded, Dep
<1> HIDE DEF row
<1>6. QED
  BY <1>1, <1>2, <1>4, <1>5, HasRow, EndsAsIdle, RowKeeps DEF Dep

LEMMA RolledBackKeeps ==
  ASSUME ChangeInv, NEW w \in Threads, RolledBack(w)
  PROVE  ChangeInv'
<1> DEFINE row == [Dep(w) EXCEPT !.status = "rolled_back",
                                 !.told = IF Matched(w) THEN "restored" ELSE "differs"]
<1>1. pc[w] \in (Deploying \cup RollingBack) \ {"insert"}
  BY DEF RolledBack, RollingBack, Deploying
<1>2. row \in Deployment /\ row.pre = Dep(w).pre /\ row.post = Dep(w).post
  BY <1>1, HasRow DEF Deployment
<1>3. /\ deployments' = [deployments EXCEPT ![job[w].dep] = row] /\ Ends(w)
      /\ UNCHANGED <<candidateRows, archive, device, sent>>
  BY <1>1, HasRow DEF RolledBack, Dep
<1> HIDE DEF row
<1>4. QED
  BY <1>1, <1>2, <1>3, HasRow, EndsAsIdle, RowKeeps DEF Dep, candidateRows

LEMMA rollback_deploymentKeeps ==
  ASSUME ChangeInv, NEW w \in Threads, NEW d \in DOMAIN deployments, rollback_deployment(w, d)
  PROVE  ChangeInv'
<1> DEFINE p == deployments[d].pre
           j == [NoJob EXCEPT !.dep = d, !.point = p, !.buf = archive[p]]
           row == [deployments[d] EXCEPT !.rollbacks = deployments[d].rollbacks + 1]
<1>1. deployments[d] \in Deployment /\ d \in Nat
  BY SeqFacts DEF ChangeInv
<1>2. p \in Alive /\ p \in Nat
  BY <1>1 DEF rollback_deployment, ChangeInv, NamedSnapshotsExist, Deployment
<1>3. archive[p] \in Configs
  BY <1>2, SeqFacts DEF Alive, ChangeInv
<1>4. j \in Jobs /\ j.dep = d /\ j.buf = archive[p]
  BY <1>1, <1>2, <1>3, NoJobIsJob DEF Jobs
<1>5. row \in Deployment /\ row.pre = p /\ row.post = deployments[d].post
  BY <1>1, RowCounts, RowNames DEF p
<1>6. /\ pc' = [pc EXCEPT ![w] = "rb_send"] /\ job' = [job EXCEPT ![w] = j]
      /\ deployments' = [deployments EXCEPT ![d] = row]
      /\ UNCHANGED <<candidateRows, archive, device, sent>>
  BY DEF rollback_deployment, Starts, Goto
<1> HIDE DEF j, row, p
<1>7. "rb_send" \in Labels /\ pc'[w] = "rb_send" /\ job'[w] = j
  BY <1>4, <1>6, ThreadTypes DEF ChangeInv, Labels, RollingBack
<1>10. d \in DOMAIN deployments'
  BY <1>6
<1>8. ThreadInv(w)'
  BY <1>3, <1>4, <1>7, <1>10 DEF ThreadInv, Deploying, RollingBack
<1>9. QED
  BY <1>4, <1>5, <1>6, <1>7, <1>8, RowKeeps DEF candidateRows, p

-----------------------------------------------------------------------------
(* The archive.                                                            *)

\* A step of a thread that archives what it retrieved.
LEMMA ArchivingKeeps ==
  ASSUME ChangeInv, NEW w \in Threads, NEW label \in Labels, NEW j \in Jobs,
         job[w].buf \in Configs, Archives(job[w].buf),
         pc' = [pc EXCEPT ![w] = label], job' = [job EXCEPT ![w] = j],
         UNCHANGED <<candidateRows, deployments, device, sent>>,
         ThreadInv(w)'
  PROVE  ChangeInv'
<1>1. /\ archive' \in Seq(Configs \cup {Gone}) /\ HasGreatest'
      /\ Alive \subseteq Alive' /\ (SomeGone => SomeGone')
  BY ArchivesKeeps DEF ChangeInv
<1>2. /\ pc' \in [Threads -> Labels] /\ job' \in [Threads -> Jobs]
      /\ \A v \in Threads \ {w} : pc'[v] = pc[v] /\ job'[v] = job[v]
  BY ThreadTypes DEF ChangeInv
<1>3. TypeOK'
  BY <1>1, <1>2 DEF ChangeInv, TypeOK, Labels, candidateRows
<1>4. Stable
  BY <1>1 DEF Stable, Seconded, HasPoint, candidateRows
<1>5. NamedSnapshotsExist'
  BY <1>1 DEF ChangeInv, NamedSnapshotsExist
<1>6. \A c \in Candidates : CandidateInv(c)'
  BY DEF ChangeInv, CandidateInv, Seconded, candidateRows
<1>7. QED
  BY <1>1, <1>2, <1>3, <1>4, <1>5, <1>6, SentKeeps, OneThread DEF ChangeInv

LEMMA ArchiveKeeps ==
  ASSUME ChangeInv, NEW w \in Threads, ArchivePre(w) \/ ArchivePost(w) \/ ArchiveAfter(w)
  PROVE  ChangeInv'
<1> DEFINE n == SnapshotFor(job[w].buf)
           label == CASE pc[w] = "pre_archive" -> "pre_record"
                      [] pc[w] = "post_archive" -> "finish"
                      [] OTHER -> "rb_finish"
           j == IF pc[w] = "pre_archive" THEN [job[w] EXCEPT !.point = n, !.buf = Unread]
                                         ELSE [job[w] EXCEPT !.snap = n, !.buf = Unread]
<1>1. pc[w] \in {"pre_archive", "post_archive", "rb_archive"}
  BY DEF ArchivePre, ArchivePost, ArchiveAfter, ArchiveAs
<1>2. pc[w] \in (Deploying \cup RollingBack) \ {"insert"} /\ (label = "rb_finish" \/ pc[w] \in Deploying)
  BY <1>1 DEF Deploying, RollingBack
<1>3. job[w].buf \in Configs
  BY <1>1 DEF ChangeInv, ThreadInv
<1>4. n \in Nat
  BY SnapshotForIsNumber DEF ChangeInv
<1>5. j \in Jobs /\ j.cand = job[w].cand /\ j.dep = job[w].dep
  BY <1>2, <1>4, HasRow DEF Jobs
<1>6. /\ pc' = [pc EXCEPT ![w] = label] /\ job' = [job EXCEPT ![w] = j]
      /\ Archives(job[w].buf) /\ UNCHANGED <<candidateRows, deployments, device, sent>>
  BY <1>1, <1>2, HasRow DEF ArchivePre, ArchivePost, ArchiveAfter, ArchiveAs, Goto, ChangeInv, TypeOK
<1>7. label \in {"pre_record", "finish", "rb_finish"} /\ label \in Labels
  BY DEF Labels, Deploying, RollingBack
<1> HIDE DEF n, j, label
<1>8. pc'[w] = label /\ job'[w] = j
  BY <1>5, <1>6, <1>7, ThreadTypes DEF ChangeInv
<1>9. ThreadInv(w)'
  BY <1>2, <1>5, <1>6, <1>7, <1>8, HasRow
     DEF ThreadInv, Seconded, candidateRows, Deploying, RollingBack
<1>10. QED
  BY <1>3, <1>5, <1>6, <1>7, <1>9, ArchivingKeeps

LEMMA run_backupKeeps == ChangeInv /\ run_backup => ChangeInv'
<1> SUFFICES ASSUME ChangeInv, run_backup PROVE ChangeInv'
  OBVIOUS
<1>1. /\ archive' \in Seq(Configs \cup {Gone}) /\ HasGreatest'
      /\ Alive \subseteq Alive' /\ (SomeGone => SomeGone')
  BY ArchivesKeeps DEF ChangeInv, run_backup, TypeOK
<1>2. UNCHANGED <<candidateRows, deployments, device, pc, job, sent>>
  BY DEF run_backup
<1>3. TypeOK'
  BY <1>1, <1>2 DEF ChangeInv, TypeOK, candidateRows
<1>4. Stable
  BY <1>1, <1>2 DEF Stable, Seconded, HasPoint, candidateRows
<1>5. NamedSnapshotsExist'
  BY <1>1, <1>2 DEF ChangeInv, NamedSnapshotsExist
<1>6. \A c \in Candidates : CandidateInv(c)'
  BY <1>2 DEF ChangeInv, CandidateInv, Seconded, candidateRows
<1>7. \A v \in Threads : ThreadInv(v)'
  BY <1>2, <1>4, OtherThreadsKeep DEF ChangeInv
<1>8. QED
  BY <1>1, <1>2, <1>3, <1>4, <1>5, <1>6, <1>7, SentKeeps DEF ChangeInv

LEMMA delete_configurationKeeps ==
  ASSUME ChangeInv, NEW i \in Alive, delete_configuration(i)
  PROVE  ChangeInv'
<1>1. i \in DOMAIN archive /\ archive \in Seq(Configs \cup {Gone})
  BY DEF Alive, ChangeInv, TypeOK
<1>2. archive' = [archive EXCEPT ![i] = Gone] /\ UNCHANGED <<candidateRows, device, pc, job, sent>>
  BY DEF delete_configuration
<1>3. /\ archive' \in Seq(Configs \cup {Gone}) /\ Len(archive') = Len(archive)
      /\ DOMAIN archive' = DOMAIN archive
  BY <1>1, <1>2
<1>4. SomeGone' /\ Alive' = Alive \ {i}
  BY <1>1, <1>2, <1>3 DEF SomeGone, Alive
<1>5. HasGreatest'
  BY <1>3 DEF ChangeInv, HasGreatest
<1>6. deployments \in Seq(Deployment) /\ DOMAIN deployments = 1 .. Len(deployments)
  BY SeqFacts DEF ChangeInv, TypeOK
<1>7. DOMAIN deployments' = DOMAIN deployments
  BY DEF delete_configuration
<1>8. ASSUME NEW d \in DOMAIN deployments
      PROVE  /\ deployments'[d] \in Deployment
             /\ deployments'[d].pre = (IF deployments[d].pre = i THEN 0 ELSE deployments[d].pre)
             /\ deployments'[d].post = (IF deployments[d].post = i THEN 0 ELSE deployments[d].post)
  <2>1. deployments[d] \in Deployment
    BY SeqFacts DEF ChangeInv
  <2> DEFINE Without(n) == IF n = i THEN 0 ELSE n
             r == deployments[d]
             m == Without(r.pre)
             n == Without(r.post)
             row == [r EXCEPT !.pre = m, !.post = n]
  <2>2. deployments'[d] = row
    BY DEF delete_configuration
  <2>3. m \in Nat /\ n \in Nat
    BY <2>1, RowNames
  <2>4. /\ m = IF r.pre = i THEN 0 ELSE r.pre
        /\ n = IF r.post = i THEN 0 ELSE r.post
    OBVIOUS
  <2>5. r \in Deployment
    BY <2>1
  <2> HIDE DEF m, n, r
  <2>6. row \in Deployment /\ row.pre = m /\ row.post = n
    BY <2>3, <2>5 DEF Deployment
  <2> HIDE DEF row
  <2>7. QED
    BY <2>2, <2>4, <2>6 DEF r
<1>9. deployments' \in Seq(Deployment)
  <2>1. deployments' = [d \in 1 .. Len(deployments) |-> deployments'[d]]
    BY <1>6, <1>7 DEF delete_configuration
  <2>2. deployments' \in [1 .. Len(deployments) -> Deployment]
    BY <1>6, <1>8, <2>1
  <2>3. QED
    BY <1>6, <2>2, SeqDef
<1>10. TypeOK'
  BY <1>2, <1>3, <1>9 DEF ChangeInv, TypeOK, candidateRows
<1>11. Stable
  BY <1>2, <1>4, <1>7 DEF Stable, Seconded, HasPoint, candidateRows
<1>12. NamedSnapshotsExist'
  BY <1>4, <1>7, <1>8 DEF ChangeInv, NamedSnapshotsExist
<1>13. \A c \in Candidates : CandidateInv(c)'
  BY <1>2 DEF ChangeInv, CandidateInv, Seconded, candidateRows
<1>14. \A v \in Threads : ThreadInv(v)'
  BY <1>2, <1>11, OtherThreadsKeep DEF ChangeInv
<1>15. QED
  BY <1>2, <1>5, <1>10, <1>11, <1>12, <1>13, <1>14, SentKeeps DEF ChangeInv

-----------------------------------------------------------------------------
(* The device, and the crash.                                              *)

LEMMA SendKeeps ==
  ASSUME ChangeInv, NEW w \in Threads, SendSucceeds(w) \/ SendFails(w)
  PROVE  ChangeInv'
<1>1. \E taken : \E label \in {"post_read", "send_failed"} : SendsTo(w, taken, label)
  <2>1. CASE SendSucceeds(w)
    BY <2>1 DEF SendSucceeds
  <2>2. CASE SendFails(w)
    BY <2>2 DEF SendFails
  <2>3. QED
    BY <2>1, <2>2
<1>20. PICK taken : \E label \in {"post_read", "send_failed"} : SendsTo(w, taken, label)
  BY <1>1
<1>21. PICK label \in {"post_read", "send_failed"} : SendsTo(w, taken, label)
  BY <1>20
<1> DEFINE c == job[w].cand
           after == Overlay(device, lines[c], taken)
           entry == [cand |-> c, dep |-> job[w].dep, before |-> device, after |-> after]
           Sending == [cand : Candidates, dep : Nat, before : Configs, after : Configs]
<1>2. pc[w] = "send" /\ pc[w] \in Deploying /\ pc[w] \in (Deploying \cup RollingBack) \ {"insert"}
  BY DEF SendSucceeds, SendFails, Deploying
<1>3. c \in Candidates /\ Seconded(c) /\ job[w].dep \in DOMAIN deployments /\ job[w].dep \in Nat
  BY <1>2, HasRow, SeqFacts DEF ChangeInv
<1>4. HasPoint(job[w].dep)
  BY <1>2 DEF ChangeInv, ThreadInv
<1>5. lines[c] \in LineSets
  BY <1>2, HasRow, ConfigAssumption DEF ChangeInv, CandidateInv
<1>6. device \in Configs /\ after \in Configs
  BY <1>5, OverlayIsConfig DEF ChangeInv, TypeOK
<1>7. entry \in Sending /\ entry.cand = c /\ entry.dep = job[w].dep
  BY <1>3, <1>6
<1>8. /\ device' = after /\ sent' = Append(sent, entry)
      /\ pc' = [pc EXCEPT ![w] = label] /\ job' = job
      /\ UNCHANGED <<candidateRows, deployments, archive>>
  BY <1>21 DEF SendsTo, Goto
<1> HIDE DEF after, entry
<1>9. sent \in Seq(Sending) /\ sent' \in Seq(Sending)
  BY <1>7, <1>8 DEF ChangeInv, TypeOK
<1> HIDE DEF Sending
<1>10. /\ DOMAIN sent' = DOMAIN sent \cup {Len(sent) + 1}
       /\ \A i \in DOMAIN sent : sent'[i] = sent[i] /\ sent[i].cand \in Candidates
       /\ sent'[Len(sent) + 1] = entry
  <2>1. DOMAIN sent' = 1 .. Len(sent) + 1 /\ sent'[Len(sent) + 1] = entry
        /\ \A i \in DOMAIN sent : sent'[i] = sent[i]
    BY <1>8, <1>9
  <2>2. QED
    BY <2>1, SeqFacts DEF ChangeInv
<1>11. label \in Labels /\ job' = [job EXCEPT ![w] = job[w]] /\ job[w] \in Jobs
  BY <1>8 DEF Labels, Deploying, ChangeInv, TypeOK
<1>12. /\ pc' \in [Threads -> Labels] /\ job' \in [Threads -> Jobs] /\ pc'[w] = label /\ job'[w] = job[w]
       /\ \A v \in Threads \ {w} : pc'[v] = pc[v] /\ job'[v] = job[v]
  BY <1>8, <1>11, ThreadTypes DEF ChangeInv
<1>13. TypeOK'
  BY <1>6, <1>8, <1>9, <1>12 DEF ChangeInv, TypeOK, Labels, Sending, candidateRows
<1>14. Stable
  BY <1>8 DEF Stable, Seconded, HasPoint, SomeGone, candidateRows
<1>15. HasGreatest' /\ NamedSnapshotsExist'
  BY <1>8 DEF ChangeInv, HasGreatest, NamedSnapshotsExist, Alive
<1>16. \A d \in Candidates : CandidateInv(d)'
  BY <1>8 DEF ChangeInv, CandidateInv, Seconded, candidateRows
<1>17. ThreadInv(w)'
  BY <1>2, <1>3, <1>8, <1>12, HasRow DEF ThreadInv, Seconded, candidateRows, Deploying, RollingBack
<1>18. (\A i \in DOMAIN sent : SentInv(i))'
  <2> SUFFICES ASSUME NEW i \in DOMAIN sent' PROVE SentInv(i)'
    OBVIOUS
  <2>1. CASE i \in DOMAIN sent
    <3>1. SentInv(i) /\ sent'[i] = sent[i]
      BY <1>10, <2>1 DEF ChangeInv
    <3>2. QED
      BY <1>8, <3>1 DEF SentInv, Seconded, HasPoint, SomeGone, candidateRows
  <2>2. CASE i = Len(sent) + 1
    BY <1>3, <1>4, <1>7, <1>8, <1>10, <2>2 DEF SentInv, Seconded, HasPoint, SomeGone, candidateRows
  <2>3. QED
    BY <1>10, <2>1, <2>2
<1>19. QED
  BY <1>12, <1>13, <1>14, <1>15, <1>16, <1>17, <1>18, OneThread DEF ChangeInv

LEMMA ReplayKeeps ==
  ASSUME ChangeInv, NEW w \in Threads, ReplaySucceeds(w) \/ ReplayFails(w)
  PROVE  ChangeInv'
<1>1. \E taken : \E label \in {"rb_read", "rb_failed"} : ReplaysTo(w, taken, label)
  <2>1. CASE ReplaySucceeds(w)
    BY <2>1 DEF ReplaySucceeds
  <2>2. CASE ReplayFails(w)
    BY <2>2 DEF ReplayFails
  <2>3. QED
    BY <2>1, <2>2
<1>20. PICK taken : \E label \in {"rb_read", "rb_failed"} : ReplaysTo(w, taken, label)
  BY <1>1
<1>21. PICK label \in {"rb_read", "rb_failed"} : ReplaysTo(w, taken, label)
  BY <1>20
<1> DEFINE j == [job[w] EXCEPT !.buf = Unread]
           after == Overlay(device, Replay(job[w].buf), taken)
<1>2. pc[w] = "rb_send" /\ pc[w] \in (Deploying \cup RollingBack) \ {"insert"}
  BY DEF ReplaySucceeds, ReplayFails, RollingBack, Deploying
<1>3. job[w].buf \in Configs
  BY <1>2 DEF ChangeInv, ThreadInv
<1>4. after \in Configs
  BY <1>3, ReplayIsLines, OverlayIsConfig DEF ChangeInv, TypeOK
<1>5. j \in Jobs /\ j.dep = job[w].dep
  BY <1>2, HasRow DEF Jobs
<1>6. /\ device' = after /\ pc' = [pc EXCEPT ![w] = label] /\ job' = [job EXCEPT ![w] = j]
      /\ UNCHANGED <<candidateRows, deployments, archive, sent>>
  BY <1>21 DEF ReplaysTo, Goto
<1> HIDE DEF j, after
<1>7. label \in Labels
  BY DEF Labels, RollingBack
<1>8. /\ pc' \in [Threads -> Labels] /\ job' \in [Threads -> Jobs] /\ pc'[w] = label /\ job'[w] = j
      /\ \A v \in Threads \ {w} : pc'[v] = pc[v] /\ job'[v] = job[v]
  BY <1>5, <1>6, <1>7, ThreadTypes DEF ChangeInv
<1>9. TypeOK'
  BY <1>4, <1>6, <1>8 DEF ChangeInv, TypeOK, Labels, candidateRows
<1>10. ThreadInv(w)'
  BY <1>2, <1>5, <1>6, <1>8, HasRow DEF ThreadInv, Deploying, RollingBack
<1>11. QED
  BY <1>6, <1>8, <1>9, <1>10, RowsStay, OneThread DEF ChangeInv

LEMMA CrashKeeps == ChangeInv /\ Crash => ChangeInv'
<1> SUFFICES ASSUME ChangeInv, Crash PROVE ChangeInv'
  OBVIOUS
<1>1. /\ \A w \in Threads : pc'[w] = "idle"
      /\ UNCHANGED <<candidateRows, deployments, archive, device, sent>>
  BY DEF Crash
<1>2. pc' \in [Threads -> Labels] /\ job' \in [Threads -> Jobs]
  BY NoJobIsJob DEF Crash, Labels
<1>3. TypeOK'
  BY <1>1, <1>2 DEF ChangeInv, TypeOK, Labels, candidateRows
<1>4. QED
  BY <1>1, <1>3, IdleThread, RowsStay DEF ChangeInv

-----------------------------------------------------------------------------
(* The theorems.                                                           *)

LEMMA ChangeInvStep == ChangeInv /\ [Next]_vars => ChangeInv'
<1> SUFFICES ASSUME ChangeInv, [Next]_vars PROVE ChangeInv'
  OBVIOUS
<1>1. CASE UNCHANGED vars
  <2>1. \A w \in Threads : ThreadInv(w)'
    BY <1>1, RowsStay, OtherThreadsKeep DEF ChangeInv, vars
  <2>2. TypeOK'
    BY <1>1 DEF ChangeInv, TypeOK, vars, candidateRows
  <2>3. QED
    BY <1>1, <2>1, <2>2, RowsStay DEF ChangeInv, vars
<1>2. ASSUME NEW c \in Candidates, NEW a \in Admins, NEW change \in Changes,
             create_candidate(c, a, change)
      PROVE  ChangeInv'
  BY <1>2, create_candidateKeeps
<1>3. ASSUME NEW w \in Threads, Arrives(w) PROVE ChangeInv'
  BY <1>3, submit_candidateKeeps, review_candidateKeeps, deploy_candidateKeeps, rollback_deploymentKeeps
     DEF Arrives
<1>4. ASSUME NEW w \in Threads, Proceed(w) PROVE ChangeInv'
  BY <1>4, submit_commitKeeps, review_commitKeeps, InsertDeploymentKeeps, MovesKeeps, RetrieveKeeps,
     FailuresKeep, ArchiveKeeps, RecordPreKeeps, SendKeeps, DeploymentSucceededKeeps, ReplayKeeps,
     RolledBackKeeps
     DEF Proceed
<1>5. CASE run_backup \/ Crash
  BY <1>5, run_backupKeeps, CrashKeeps
<1>6. ASSUME NEW i \in Alive, delete_configuration(i) PROVE ChangeInv'
  BY <1>6, delete_configurationKeeps
<1>7. QED
  BY <1>1, <1>2, <1>3, <1>4, <1>5, <1>6 DEF Next

\* The invariant holds in every reachable state.
THEOREM ChangeInvariant == Spec => []ChangeInv
BY ChangeInvInit, ChangeInvStep, PTL DEF Spec

\* Every variable keeps its type, for any number of threads and candidates.
THEOREM ChangeTypes == Spec => []TypeOK
<1>1. ChangeInv => TypeOK
  BY DEF ChangeInv
<1>2. QED
  BY <1>1, ChangeInvariant, PTL

\* What is approved, deployed or failed was approved by somebody who is not
\* its author (review_candidate), however requests overlap.
THEOREM NobodyApprovesAlone == Spec => []FourEyes
<1>1. ChangeInv => FourEyes
  BY DEF ChangeInv, CandidateInv, FourEyes, Seconded
<1>2. QED
  BY <1>1, ChangeInvariant, PTL

\* No device receives a candidate that nobody else approved (deploy_candidate).
THEOREM NothingSentUnapproved == Spec => []SentWasApproved
<1>1. ChangeInv => SentWasApproved
  BY DEF ChangeInv, SentInv, SentWasApproved, Seconded
<1>2. QED
  BY <1>1, ChangeInvariant, PTL

\* No candidate is sent before the rollback point is stored with its
\* deployment (deploy_candidate, STEP 1), as long as no snapshot is deleted.
THEOREM NothingSentWithoutPoint == Spec => []SentHasPoint
<1>1. ChangeInv => SentHasPoint
  BY DEF ChangeInv, SentInv, SentHasPoint, HasPoint, SomeGone
<1>2. QED
  BY <1>1, ChangeInvariant, PTL

\* What reached a device was approved by somebody else and can be taken back: the two facts above
\* together (deploy_candidate).
THEOREM NothingSentUncovered == Spec => []SentIsCovered
BY NothingSentUnapproved, NothingSentWithoutPoint, PTL DEF SentIsCovered

\* The snapshots a deployment names exist, whoever deletes what in between.
THEOREM NamedSnapshotsAreThere == Spec => []NamedSnapshotsExist
<1>1. ChangeInv => NamedSnapshotsExist
  BY DEF ChangeInv
<1>2. QED
  BY <1>1, ChangeInvariant, PTL

-----------------------------------------------------------------------------
(* What a candidate is said to have come to, it came to.                   *)

Unsent == {"insert", "pre_read", "pre_archive", "pre_record", "send"}
Concluding == {"send_failed", "post_read", "post_archive", "finish"}

IsSent(c) == \E i \in DOMAIN sent : sent[i].cand = c

Ended == {"failed", "rolled_back", "rollback_failed"}

HasFailed(c) == \E d \in DOMAIN deployments :
  deployments[d].cand = c /\ deployments[d].status \in Ended /\ HasPoint(d)

\* A thread that deploys has the row of its own candidate, and one that has sent the
\* commands has stored the rollback point.
OwnRow(w) ==
  /\ pc[w] \in Deploying \ {"insert"} => deployments[job[w].dep].cand = job[w].cand
  /\ pc[w] \in Concluding => IsSent(job[w].cand) /\ HasPoint(job[w].dep)

Earned(c) == (status[c] = "deployed" => IsSent(c)) /\ (status[c] = "failed" => HasFailed(c))

OutcomeInv == (\A c \in Candidates : Earned(c)) /\ (\A w \in Threads : OwnRow(w))

\* What a step that sends does, in terms of the entry it adds.
Delivers(w, taken, label) ==
  LET after == Overlay(device, lines[job[w].cand], taken)  n == Len(sent) + 1 IN
  /\ device' = after /\ after \in Configs
  /\ DOMAIN sent' = DOMAIN sent \cup {n} /\ n \notin DOMAIN sent
  /\ \A i \in DOMAIN sent : sent'[i] = sent[i]
  /\ sent'[n] = [cand |-> job[w].cand, dep |-> job[w].dep, before |-> device, after |-> after]
  /\ pc'[w] = label /\ \A v \in Threads \ {w} : pc'[v] = pc[v]
  /\ UNCHANGED <<candidateRows, deployments, archive, job>>

LEMMA SendsDeliver ==
  ASSUME ChangeInv, NEW w \in Threads, SendSucceeds(w) \/ SendFails(w)
  PROVE  \E taken : \E label \in {"post_read", "send_failed"} : Delivers(w, taken, label)
<1>1. PICK taken : \E label \in {"post_read", "send_failed"} : SendsTo(w, taken, label)
  BY DEF SendSucceeds, SendFails
<1>2. PICK label \in {"post_read", "send_failed"} : SendsTo(w, taken, label)
  BY <1>1
<1> DEFINE c == job[w].cand
           after == Overlay(device, lines[c], taken)
           entry == [cand |-> c, dep |-> job[w].dep, before |-> device, after |-> after]
           Sending == [cand : Candidates, dep : Nat, before : Configs, after : Configs]
<1>3. pc[w] = "send" /\ pc[w] \in Deploying /\ pc[w] \in (Deploying \cup RollingBack) \ {"insert"}
  BY DEF SendSucceeds, SendFails, Deploying
<1>4. c \in Candidates /\ job[w].dep \in Nat /\ lines[c] \in LineSets
  BY <1>3, HasRow, SeqFacts, ConfigAssumption DEF ChangeInv, CandidateInv
<1>5. device \in Configs /\ after \in Configs
  BY <1>4, OverlayIsConfig DEF ChangeInv, TypeOK
<1>6. /\ device' = after /\ sent' = Append(sent, entry) /\ pc' = [pc EXCEPT ![w] = label]
      /\ UNCHANGED <<candidateRows, deployments, archive, job>>
  BY <1>2 DEF SendsTo, Goto
<1>7. entry \in Sending
  BY <1>4, <1>5
<1> HIDE DEF entry
<1>8. sent \in Seq(Sending)
  BY DEF ChangeInv, TypeOK
<1> HIDE DEF Sending
<1>9. /\ DOMAIN sent' = DOMAIN sent \cup {Len(sent) + 1} /\ Len(sent) + 1 \notin DOMAIN sent
      /\ \A i \in DOMAIN sent : sent'[i] = sent[i]
      /\ sent'[Len(sent) + 1] = entry
  <2>1. DOMAIN sent' = 1 .. Len(sent) + 1 /\ sent'[Len(sent) + 1] = entry
        /\ \A i \in DOMAIN sent : sent'[i] = sent[i]
    BY <1>6, <1>7, <1>8
  <2>2. QED
    BY <2>1, SeqFacts DEF ChangeInv
<1>10. pc'[w] = label /\ \A v \in Threads \ {w} : pc'[v] = pc[v]
  BY <1>6 DEF ChangeInv, TypeOK
<1>11. Delivers(w, taken, label)
  BY <1>5, <1>6, <1>9, <1>10 DEF Delivers, entry
<1>12. QED
  BY <1>11

\* What a thread remembers, with a field changed.
LEMMA JobsKeep ==
  ASSUME ChangeInv, NEW w \in Threads, NEW b, NEW n
  PROVE  /\ LET j == [job[w] EXCEPT !.buf = b] IN
              j.cand = job[w].cand /\ j.dep = job[w].dep /\ j.point = job[w].point
              /\ j.snap = job[w].snap /\ j.buf = b
         /\ LET j == [job[w] EXCEPT !.point = n, !.buf = b] IN
              j.cand = job[w].cand /\ j.dep = job[w].dep /\ j.point = n /\ j.snap = job[w].snap
         /\ LET j == [job[w] EXCEPT !.snap = n, !.buf = b] IN
              j.cand = job[w].cand /\ j.dep = job[w].dep /\ j.point = job[w].point /\ j.snap = n
<1>1. job[w] \in Jobs
  BY DEF ChangeInv, TypeOK
<1>2. QED
  BY <1>1 DEF Jobs

\* What a thread remembers when it has archived.
LEMMA ArchivesJob ==
  ASSUME ChangeInv, NEW w \in Threads, ArchivePre(w) \/ ArchivePost(w) \/ ArchiveAfter(w)
  PROVE  \E j : /\ job' = [job EXCEPT ![w] = j]
                /\ j.cand = job[w].cand /\ j.dep = job[w].dep
                /\ IF pc[w] = "pre_archive"
                   THEN j.point = SnapshotFor(job[w].buf) /\ j.snap = job[w].snap
                   ELSE j.snap = SnapshotFor(job[w].buf) /\ j.point = job[w].point
<1>1. job \in [Threads -> Jobs]
  BY DEF ChangeInv, TypeOK
<1> DEFINE n == SnapshotFor(job[w].buf)
<1>2. CASE ArchivePre(w)
  <2> DEFINE j == [job[w] EXCEPT !.point = n, !.buf = Unread]
  <2>1. job' = [job EXCEPT ![w] = j]
    BY <1>1, <1>2 DEF ArchivePre
  <2>2. j.cand = job[w].cand /\ j.dep = job[w].dep /\ j.point = n /\ j.snap = job[w].snap
    BY JobsKeep
  <2>3. pc[w] = "pre_archive"
    BY <1>2 DEF ArchivePre
  <2> HIDE DEF j
  <2>4. QED
    BY <2>1, <2>2, <2>3
<1>3. CASE ArchivePost(w) \/ ArchiveAfter(w)
  <2> DEFINE j == [job[w] EXCEPT !.snap = n, !.buf = Unread]
  <2>1. job' = [job EXCEPT ![w] = j]
    BY <1>1, <1>3 DEF ArchivePost, ArchiveAfter, ArchiveAs
  <2>2. j.cand = job[w].cand /\ j.dep = job[w].dep /\ j.point = job[w].point /\ j.snap = n
    BY JobsKeep
  <2>3. pc[w] # "pre_archive"
    BY <1>3 DEF ArchivePost, ArchiveAfter, ArchiveAs
  <2> HIDE DEF j
  <2>4. QED
    BY <2>1, <2>2, <2>3
<1>4. QED
  BY <1>2, <1>3

\* A row rewritten in some of its columns.
LEMMA RowColumns ==
  ASSUME NEW r \in Deployment
  PROVE  /\ \A s : LET row == [r EXCEPT !.status = s] IN row.cand = r.cand /\ row.status = s /\ row.pre = r.pre
         /\ \A n : LET row == [r EXCEPT !.pre = n] IN row.cand = r.cand /\ row.status = r.status /\ row.pre = n
         /\ \A n : LET row == [r EXCEPT !.rollbacks = n] IN
              row.cand = r.cand /\ row.status = r.status /\ row.pre = r.pre
         /\ \A s, t : LET row == [r EXCEPT !.status = s, !.told = t] IN
              row.cand = r.cand /\ row.status = s /\ row.pre = r.pre
         /\ \A s, n, v : LET row == [r EXCEPT !.status = s, !.post = n, !.verified = v] IN
              row.cand = r.cand /\ row.status = s /\ row.pre = r.pre
         /\ \A m, n : LET row == [r EXCEPT !.pre = m, !.post = n] IN
              row.cand = r.cand /\ row.status = r.status /\ row.pre = m
BY DEF Deployment

\* What a step leaves of the row of a deployment: its candidate, that it has a rollback
\* point, and that it failed, unless a thread that deploys it ends with success.
RowLasts(d) ==
  /\ d \in DOMAIN deployments'
  /\ deployments'[d].cand = deployments[d].cand
  /\ HasPoint(d) => HasPoint(d)'
  /\ deployments[d].status \in Ended =>
       deployments'[d].status \in Ended \/ \E w \in Threads : DeploymentSucceeded(w) /\ job[w].dep = d

\* One row is rewritten, and keeps its candidate and its point.
LEMMA RowRewritten ==
  ASSUME ChangeInv, NEW e \in DOMAIN deployments, NEW row, UNCHANGED archive,
         deployments' = [deployments EXCEPT ![e] = row], row.cand = deployments[e].cand,
         row.pre = deployments[e].pre \/ row.pre # 0,
         \/ row.status \in Ended \cup {deployments[e].status}
         \/ \E w \in Threads : DeploymentSucceeded(w) /\ job[w].dep = e,
         NEW d \in DOMAIN deployments
  PROVE  RowLasts(d)
<1>1. DOMAIN deployments' = DOMAIN deployments /\ deployments'[d] = IF d = e THEN row ELSE deployments[d]
  OBVIOUS
<1>2. HasPoint(d) => HasPoint(d)'
  BY <1>1 DEF HasPoint, SomeGone
<1>3. QED
  BY <1>1, <1>2 DEF RowLasts

LEMMA RowsLastStored ==
  ASSUME ChangeInv, NEW w \in Threads, NEW d \in DOMAIN deployments,
         \/ PreBackupFails(w) \/ ConnectFails(w) \/ DeploymentFailed(w) \/ RecordPre(w)
         \/ DeploymentSucceeded(w) \/ RollbackFailed(w) \/ RolledBack(w)
  PROVE  RowLasts(d)
<1> DEFINE e == job[w].dep
<1>1. pc[w] \in (Deploying \cup RollingBack) \ {"insert"} /\ UNCHANGED archive
  BY DEF PreBackupFails, ConnectFails, DeploymentFailed, MarkFailed, RecordPre, DeploymentSucceeded,
         RollbackFailed, RolledBack, Deploying, RollingBack
<1>2. e \in DOMAIN deployments /\ deployments[e] \in Deployment
  BY <1>1, HasRow DEF Dep
<1>3. CASE PreBackupFails(w) \/ ConnectFails(w) \/ DeploymentFailed(w) \/ RollbackFailed(w)
  <2>1. PICK s \in Ended : deployments' = [deployments EXCEPT ![e] = [deployments[e] EXCEPT !.status = s]]
    BY <1>2, <1>3 DEF PreBackupFails, ConnectFails, DeploymentFailed, MarkFailed, RollbackFailed, Ended
  <2> DEFINE row == [deployments[e] EXCEPT !.status = s]
  <2>2. row.cand = deployments[e].cand /\ row.status = s /\ row.pre = deployments[e].pre
    BY <1>2, RowColumns
  <2> HIDE DEF row
  <2>3. QED
    BY <1>1, <1>2, <2>1, <2>2, RowRewritten DEF row
<1>4. CASE RecordPre(w)
  <2> DEFINE n == job[w].point
             row == [deployments[e] EXCEPT !.pre = n]
  <2>1. deployments' = [deployments EXCEPT ![e] = row] /\ n # 0
    BY <1>2, <1>4, SeqFacts DEF RecordPre, Alive, ChangeInv
  <2>2. row.cand = deployments[e].cand /\ row.status = deployments[e].status /\ row.pre = n
    BY <1>2, RowColumns
  <2> HIDE DEF row, n
  <2>3. QED
    BY <1>1, <1>2, <2>1, <2>2, RowRewritten
<1>5. CASE DeploymentSucceeded(w)
  <2> DEFINE n == job[w].snap
             v == VerifiedChanged(w)
             row == [deployments[e] EXCEPT !.status = "succeeded", !.post = n, !.verified = v]
  <2>1. deployments' = [deployments EXCEPT ![e] = row]
    BY <1>2, <1>5 DEF DeploymentSucceeded
  <2>2. row.cand = deployments[e].cand /\ row.pre = deployments[e].pre
    BY <1>2, RowColumns
  <2> HIDE DEF row, n, v
  <2>3. QED
    BY <1>1, <1>2, <1>5, <2>1, <2>2, RowRewritten
<1>6. CASE RolledBack(w)
  <2> DEFINE t == IF Matched(w) THEN "restored" ELSE "differs"
             row == [deployments[e] EXCEPT !.status = "rolled_back", !.told = t]
  <2>1. deployments' = [deployments EXCEPT ![e] = row]
    BY <1>2, <1>6 DEF RolledBack
  <2>2. row.cand = deployments[e].cand /\ row.pre = deployments[e].pre /\ row.status \in Ended
    BY <1>2, RowColumns DEF Ended
  <2> HIDE DEF row, t
  <2>3. QED
    BY <1>1, <1>2, <2>1, <2>2, RowRewritten
<1>7. QED
  BY <1>3, <1>4, <1>5, <1>6

LEMMA RowsLast ==
  ASSUME ChangeInv, [Next]_vars, NEW d \in DOMAIN deployments
  PROVE  RowLasts(d)
<1>1. ASSUME UNCHANGED deployments, SomeGone => SomeGone' PROVE RowLasts(d)
  BY <1>1 DEF RowLasts, HasPoint
<1>2. CASE UNCHANGED vars
  BY <1>1, <1>2 DEF vars, SomeGone
<1>3. CASE \E c \in Candidates, a \in Admins, change \in Changes : create_candidate(c, a, change)
  BY <1>1, <1>3 DEF create_candidate, SomeGone
<1>4. ASSUME NEW w \in Threads, Arrives(w) PROVE RowLasts(d)
  <2>1. CASE UNCHANGED <<deployments, archive>>
    BY <1>1, <2>1 DEF SomeGone
  <2>2. ASSUME NEW e \in DOMAIN deployments, rollback_deployment(w, e) PROVE RowLasts(d)
    <3> DEFINE n == deployments[e].rollbacks + 1
               row == [deployments[e] EXCEPT !.rollbacks = n]
    <3>1. deployments' = [deployments EXCEPT ![e] = row] /\ UNCHANGED archive
      BY <2>2 DEF rollback_deployment
    <3>2. deployments[e] \in Deployment
      BY SeqFacts DEF ChangeInv
    <3>3. row.cand = deployments[e].cand /\ row.status = deployments[e].status /\ row.pre = deployments[e].pre
      BY <3>2, RowColumns
    <3> HIDE DEF row, n
    <3>4. QED
      BY <3>1, <3>3, RowRewritten
  <2>3. QED
    BY <1>4, <2>1, <2>2 DEF Arrives, submit_candidate, review_candidate, deploy_candidate
<1>5. ASSUME NEW w \in Threads, Proceed(w) PROVE RowLasts(d)
  <2>1. CASE InsertDeployment(w)
    <3> DEFINE row == [cand |-> job[w].cand, status |-> "running", pre |-> 0, post |-> 0,
                       verified |-> FALSE, rollbacks |-> 0, told |-> ""]
    <3>1. deployments' = Append(deployments, row) /\ UNCHANGED archive
      BY <2>1 DEF InsertDeployment
    <3> HIDE DEF row
    <3>2. deployments'[d] = deployments[d] /\ d \in DOMAIN deployments'
      BY <3>1 DEF ChangeInv, TypeOK
    <3>3. QED
      BY <3>1, <3>2 DEF RowLasts, HasPoint, SomeGone
  <2>2. CASE ArchivePre(w) \/ ArchivePost(w) \/ ArchiveAfter(w)
    <3>1. pc[w] \in {"pre_archive", "post_archive", "rb_archive"} /\ Archives(job[w].buf) /\ UNCHANGED deployments
      BY <2>2 DEF ArchivePre, ArchivePost, ArchiveAfter, ArchiveAs
    <3>2. job[w].buf \in Configs
      BY <3>1 DEF ChangeInv, ThreadInv
    <3>3. QED
      BY <1>1, <3>1, <3>2, ArchivesKeeps DEF ChangeInv
  <2>3. CASE \/ submit_commit(w) \/ review_commit(w) \/ NumberTaken(w) \/ SnapshotGone(w)
             \/ PreBackup(w) \/ PostBackup(w) \/ AfterBackup(w) \/ PostBackupFails(w) \/ AfterBackupFails(w)
             \/ SendSucceeds(w) \/ SendFails(w) \/ ReplaySucceeds(w) \/ ReplayFails(w)
    <3>1. UNCHANGED <<deployments, archive>>
      <4>1. CASE SendSucceeds(w) \/ SendFails(w)
        BY <4>1, SendsDeliver DEF Delivers
      <4>2. CASE ReplaySucceeds(w) \/ ReplayFails(w)
        BY <4>2 DEF ReplaySucceeds, ReplayFails, ReplaysTo
      <4>3. QED
        BY <2>3, <4>1, <4>2 DEF submit_commit, review_commit, NumberTaken, SnapshotGone, PreBackup, PostBackup,
           AfterBackup, Retrieve, PostBackupFails, AfterBackupFails
    <3>2. QED
      BY <1>1, <3>1 DEF SomeGone
  <2>4. QED
    BY <1>5, <2>1, <2>2, <2>3, RowsLastStored DEF Proceed
<1>6. CASE run_backup
  BY <1>1, <1>6, ArchivesKeeps DEF run_backup, ChangeInv, TypeOK
<1>7. CASE Crash
  BY <1>1, <1>7 DEF Crash, SomeGone
<1>8. ASSUME NEW i \in Alive, delete_configuration(i) PROVE RowLasts(d)
  <2> DEFINE Without(n) == IF n = i THEN 0 ELSE n
             m == Without(deployments[d].pre)
             n == Without(deployments[d].post)
             row == [deployments[d] EXCEPT !.pre = m, !.post = n]
  <2>1. deployments'[d] = row /\ d \in DOMAIN deployments'
    BY <1>8 DEF delete_configuration
  <2>2. deployments[d] \in Deployment
    BY SeqFacts DEF ChangeInv
  <2>3. row.cand = deployments[d].cand /\ row.status = deployments[d].status
    BY <2>2, RowColumns
  <2> HIDE DEF row, m, n
  <2>4. SomeGone'
    BY <1>8, SeqFacts DEF delete_configuration, SomeGone, Alive, ChangeInv
  <2>5. QED
    BY <2>1, <2>3, <2>4 DEF RowLasts, HasPoint
<1>9. QED
  BY <1>2, <1>3, <1>4, <1>5, <1>6, <1>7, <1>8 DEF Next

\* What was sent was sent.
LEMMA SentLasts ==
  ASSUME ChangeInv, [Next]_vars, NEW c, IsSent(c)
  PROVE  IsSent(c)'
<1>1. CASE UNCHANGED sent
  BY <1>1 DEF IsSent
<1>2. ASSUME NEW w \in Threads, SendSucceeds(w) \/ SendFails(w) PROVE IsSent(c)'
  BY <1>2, SendsDeliver DEF Delivers, IsSent
<1>3. ASSUME NEW w \in Threads, Proceed(w) PROVE IsSent(c)'
  <2>1. CASE ReplaySucceeds(w) \/ ReplayFails(w)
    BY <1>1, <2>1 DEF ReplaySucceeds, ReplayFails, ReplaysTo
  <2>2. QED
    BY <1>1, <1>2, <1>3, <2>1 DEF Proceed, submit_commit, review_commit, InsertDeployment, NumberTaken, PreBackup,
       PreBackupFails, ArchivePre, RecordPre, SnapshotGone, ConnectFails, DeploymentFailed, MarkFailed, PostBackup,
       PostBackupFails, ArchivePost, DeploymentSucceeded, RollbackFailed, AfterBackup, AfterBackupFails,
       ArchiveAfter, RolledBack, Retrieve, ArchiveAs
<1>4. QED
  BY <1>1, <1>3 DEF Next, vars, create_candidate, Arrives, submit_candidate, review_candidate, deploy_candidate,
     rollback_deployment, run_backup, Crash, delete_configuration

\* A candidate whose status stays keeps what earned it.
LEMMA EarnedKeeps ==
  ASSUME ChangeInv, OutcomeInv, [Next]_vars, NEW c \in Candidates, status'[c] = status[c]
  PROVE  Earned(c)'
<1>1. Earned(c) /\ (IsSent(c) => IsSent(c)')
  BY SentLasts DEF OutcomeInv
<1>2. ASSUME status[c] = "failed" PROVE HasFailed(c)'
  <2>1. PICK d \in DOMAIN deployments :
          deployments[d].cand = c /\ deployments[d].status \in Ended /\ HasPoint(d)
    BY <1>1, <1>2 DEF Earned, HasFailed
  <2>2. RowLasts(d)
    BY RowsLast
  <2>3. ASSUME NEW w \in Threads, DeploymentSucceeded(w), job[w].dep = d PROVE FALSE
    <3>1. pc[w] \in Deploying \ {"insert"} /\ pc[w] \in (Deploying \cup RollingBack) \ {"insert"}
      BY <2>3 DEF DeploymentSucceeded, Deploying
    <3>2. job[w].cand = c
      BY <2>1, <2>3, <3>1 DEF OutcomeInv, OwnRow
    <3>3. status'[c] = "deployed"
      BY <2>3, <3>2 DEF DeploymentSucceeded, ChangeInv, TypeOK
    <3>4. QED
      BY <1>2, <3>3
  <2>4. QED
    BY <2>1, <2>2, <2>3 DEF RowLasts, HasFailed
<1>3. QED
  BY <1>1, <1>2 DEF Earned

\* A thread that stays where it is, or goes on with the same deployment.
LEMMA OwnRowKeeps ==
  ASSUME ChangeInv, OutcomeInv, [Next]_vars, NEW w \in Threads,
         pc'[w] \in Deploying \ {"insert"} =>
           /\ pc[w] \in Deploying \ {"insert"}
           /\ job'[w].cand = job[w].cand /\ job'[w].dep = job[w].dep,
         pc'[w] \in Concluding => pc[w] \in Concluding
  PROVE  OwnRow(w)'
<1>1. CASE pc'[w] \in Deploying \ {"insert"}
  <2>1. pc[w] \in (Deploying \cup RollingBack) \ {"insert"} /\ OwnRow(w)
    BY <1>1 DEF OutcomeInv
  <2>2. RowLasts(job[w].dep)
    BY <2>1, HasRow, RowsLast
  <2>3. QED
    BY <1>1, <2>1, <2>2, SentLasts DEF OwnRow, RowLasts, HasPoint
<1>2. CASE pc'[w] \notin Deploying \ {"insert"}
  BY <1>2 DEF OwnRow, Concluding, Deploying
<1>3. QED
  BY <1>1, <1>2

\* What is said of a candidate is earned by the thread that says it.
LEMMA OutcomeInvStep == ChangeInv /\ OutcomeInv /\ [Next]_vars => OutcomeInv'
<1> SUFFICES ASSUME ChangeInv, OutcomeInv, [Next]_vars PROVE OutcomeInv'
  OBVIOUS
<1>1. ASSUME UNCHANGED <<status, pc, job>> PROVE OutcomeInv'
  BY <1>1, EarnedKeeps, OwnRowKeeps DEF OutcomeInv
\* One thread moves.
<1>2. ASSUME NEW w \in Threads, OwnRow(w)', \A v \in Threads \ {w} : pc'[v] = pc[v] /\ job'[v] = job[v],
             \A c \in Candidates : status'[c] = status[c] \/ Earned(c)'
      PROVE  OutcomeInv'
  <2>1. \A v \in Threads \ {w} : OwnRow(v)'
    BY <1>2, OwnRowKeeps
  <2>2. QED
    BY <1>2, <2>1, EarnedKeeps DEF OutcomeInv
<1>3. ASSUME NEW w \in Threads, Ends(w), \A c \in Candidates : status'[c] = status[c] \/ Earned(c)'
      PROVE  OutcomeInv'
  <2>1. pc'[w] = "idle" /\ \A v \in Threads \ {w} : pc'[v] = pc[v] /\ job'[v] = job[v]
    BY <1>3 DEF Ends, Goto, ChangeInv, TypeOK
  <2>2. OwnRow(w)'
    BY <2>1, OwnRowKeeps DEF Deploying, Concluding
  <2>3. QED
    BY <1>2, <1>3, <2>1, <2>2
<1>4. CASE UNCHANGED vars \/ run_backup
  BY <1>1, <1>4 DEF vars, candidateRows, run_backup
<1>5. ASSUME NEW c \in Candidates, NEW a \in Admins, NEW change \in Changes, create_candidate(c, a, change)
      PROVE  OutcomeInv'
  <2>1. UNCHANGED <<pc, job>> /\ \A e \in Candidates : status'[e] = status[e] \/ status'[e] = "draft"
    BY <1>5 DEF create_candidate, ChangeInv, TypeOK
  <2>2. QED
    BY <2>1, EarnedKeeps, OwnRowKeeps DEF OutcomeInv, Earned
<1>6. ASSUME NEW w \in Threads, Arrives(w) PROVE OutcomeInv'
  <2>1. \E label \in {"submit", "review", "insert", "rb_send"} : \E j : Starts(w, label, j)
    BY <1>6 DEF Arrives, submit_candidate, review_candidate, deploy_candidate, rollback_deployment
  <2>2. UNCHANGED status
    BY <1>6 DEF Arrives, submit_candidate, review_candidate, deploy_candidate, rollback_deployment,
                candidateRows
  <2>3. pc'[w] \notin Deploying \ {"insert"} /\ pc'[w] \notin Concluding
        /\ \A v \in Threads \ {w} : pc'[v] = pc[v] /\ job'[v] = job[v]
    BY <2>1 DEF Starts, Goto, ChangeInv, TypeOK, Deploying, Concluding
  <2>4. OwnRow(w)'
    BY <2>3, OwnRowKeeps
  <2>5. QED
    BY <1>2, <2>2, <2>3, <2>4
<1>7. ASSUME NEW w \in Threads, Proceed(w) PROVE OutcomeInv'
  <2>1. CASE submit_commit(w) \/ review_commit(w)
    <3>1. \A c \in Candidates : status'[c] = status[c] \/ status'[c] \notin {"deployed", "failed"}
      BY <2>1 DEF submit_commit, review_commit, ChangeInv, ThreadInv, TypeOK
    <3>2. QED
      BY <1>3, <2>1, <3>1 DEF submit_commit, review_commit, Earned
  <2>2. CASE NumberTaken(w) \/ SnapshotGone(w) \/ PreBackupFails(w) \/ RollbackFailed(w) \/ RolledBack(w)
    BY <1>3, <2>2 DEF NumberTaken, SnapshotGone, PreBackupFails, RollbackFailed, RolledBack, candidateRows
  <2>3. CASE ConnectFails(w) \/ DeploymentFailed(w)
    <3>8. PICK c, d : c = job[w].cand /\ d = job[w].dep
      OBVIOUS
    <3>1. pc[w] \in Deploying \ {"insert"} /\ pc[w] \in (Deploying \cup RollingBack) \ {"insert"} /\ MarkFailed(w)
      BY <2>3 DEF ConnectFails, DeploymentFailed, Deploying
    <3>2. HasPoint(d) /\ deployments[d].cand = c /\ d \in DOMAIN deployments /\ deployments[d] \in Deployment
      BY <2>3, <3>1, <3>8, HasRow
         DEF ConnectFails, DeploymentFailed, ChangeInv, ThreadInv, OutcomeInv, OwnRow, Concluding, Dep
    <3>3. RowLasts(d)
      BY <3>2, RowsLast
    <3>4. deployments'[d].status = "failed"
      <4> DEFINE row == [deployments[d] EXCEPT !.status = "failed"]
      <4>1. deployments' = [deployments EXCEPT ![d] = row]
        BY <3>1, <3>2, <3>8 DEF MarkFailed
      <4>2. row.status = "failed"
        BY <3>2, RowColumns
      <4> HIDE DEF row
      <4>3. QED
        BY <3>2, <4>1, <4>2
    <3>5. HasFailed(c)'
      BY <3>2, <3>3, <3>4 DEF HasFailed, RowLasts, Ended
    <3>6. \A e \in Candidates : status'[e] = status[e] \/ (e = c /\ status'[e] = "failed")
      BY <3>1, <3>8 DEF MarkFailed, ChangeInv, TypeOK
    <3>7. QED
      BY <1>3, <3>1, <3>5, <3>6 DEF MarkFailed, Earned
  <2>4. CASE DeploymentSucceeded(w)
    <3>4. PICK e : e = job[w].cand
      OBVIOUS
    <3>1. IsSent(e)'
      BY <2>4, <3>4, SentLasts DEF DeploymentSucceeded, OutcomeInv, OwnRow, Concluding
    <3>2. \A c \in Candidates : status'[c] = status[c] \/ (c = e /\ status'[c] = "deployed")
      BY <2>4, <3>4 DEF DeploymentSucceeded, ChangeInv, TypeOK
    <3>3. QED
      BY <1>3, <2>4, <3>1, <3>2 DEF DeploymentSucceeded, Earned
  <2>5. CASE SendSucceeds(w) \/ SendFails(w)
    <3>1. PICK taken : \E label \in {"post_read", "send_failed"} : Delivers(w, taken, label)
      BY <2>5, SendsDeliver
    <3>2. /\ IsSent(job[w].cand)' /\ UNCHANGED <<candidateRows, deployments, archive, job>>
          /\ \A v \in Threads \ {w} : pc'[v] = pc[v]
      BY <3>1 DEF Delivers, IsSent
    <3>3. HasPoint(job[w].dep) /\ deployments[job[w].dep].cand = job[w].cand
      BY <2>5 DEF SendSucceeds, SendFails, ChangeInv, ThreadInv, OutcomeInv, OwnRow, Deploying
    <3>4. OwnRow(w)'
      BY <3>2, <3>3 DEF OwnRow, HasPoint, SomeGone
    <3>5. QED
      BY <1>2, <3>2, <3>4 DEF candidateRows
  <2>6. CASE InsertDeployment(w)
    <3>1. deployments'[job[w].dep].cand = job[w].cand
      <4> DEFINE row == [cand |-> job[w].cand, status |-> "running", pre |-> 0, post |-> 0,
                         verified |-> FALSE, rollbacks |-> 0, told |-> ""]
      <4>1. deployments' = Append(deployments, row) /\ job[w].dep = Len(deployments) + 1
        BY <2>6 DEF InsertDeployment
      <4>2. row.cand = job[w].cand
        OBVIOUS
      <4> HIDE DEF row
      <4>3. deployments'[job[w].dep] = row
        BY <4>1 DEF ChangeInv, TypeOK
      <4>4. QED
        BY <4>2, <4>3
    <3>2. pc'[w] = "pre_read" /\ UNCHANGED <<status, job>> /\ \A v \in Threads \ {w} : pc'[v] = pc[v]
      BY <2>6 DEF InsertDeployment, Goto, ChangeInv, TypeOK, candidateRows
    <3>3. OwnRow(w)'
      BY <3>1, <3>2 DEF OwnRow, Concluding
    <3>4. QED
      BY <1>2, <3>2, <3>3
  <2>7. CASE \/ PreBackup(w) \/ PostBackup(w) \/ AfterBackup(w) \/ ReplaySucceeds(w) \/ ReplayFails(w)
             \/ ArchivePre(w) \/ ArchivePost(w) \/ ArchiveAfter(w) \/ RecordPre(w)
             \/ PostBackupFails(w) \/ AfterBackupFails(w)
    <3>1. \E label \in Labels : /\ pc' = [pc EXCEPT ![w] = label]
                                /\ label \in Deploying \ {"insert"} => pc[w] \in Deploying \ {"insert"}
                                /\ label \in Concluding => pc[w] \in Concluding
      <4>1. CASE ReplaySucceeds(w) \/ ReplayFails(w)
        <5>1. PICK taken : \E label \in {"rb_read", "rb_failed"} : ReplaysTo(w, taken, label)
          BY <4>1 DEF ReplaySucceeds, ReplayFails
        <5>2. QED
          BY <5>1 DEF ReplaysTo, Goto, Labels, Deploying, RollingBack, Concluding
      <4>2. QED
        BY <2>7, <4>1 DEF PreBackup, PostBackup, AfterBackup, Retrieve, ArchivePre, ArchivePost, ArchiveAfter,
           ArchiveAs, RecordPre, PostBackupFails, AfterBackupFails, Goto, Labels, Deploying, RollingBack, Concluding
    <3>2. \E j : job' = [job EXCEPT ![w] = j] /\ j.cand = job[w].cand /\ j.dep = job[w].dep
      <4>1. CASE ArchivePre(w) \/ ArchivePost(w) \/ ArchiveAfter(w)
        BY <4>1, ArchivesJob
      <4>2. CASE PreBackup(w) \/ PostBackup(w) \/ AfterBackup(w)
        <5> DEFINE j == [job[w] EXCEPT !.buf = device]
        <5>1. job' = [job EXCEPT ![w] = j]
          BY <4>2 DEF PreBackup, PostBackup, AfterBackup, Retrieve
        <5>2. j.cand = job[w].cand /\ j.dep = job[w].dep
          BY JobsKeep
        <5> HIDE DEF j
        <5>3. QED
          BY <5>1, <5>2
      <4>3. CASE ReplaySucceeds(w) \/ ReplayFails(w)
        <5> DEFINE j == [job[w] EXCEPT !.buf = Unread]
        <5>1. job' = [job EXCEPT ![w] = j]
          BY <4>3 DEF ReplaySucceeds, ReplayFails, ReplaysTo
        <5>2. j.cand = job[w].cand /\ j.dep = job[w].dep
          BY JobsKeep
        <5> HIDE DEF j
        <5>3. QED
          BY <5>1, <5>2
      <4>4. CASE RecordPre(w) \/ PostBackupFails(w) \/ AfterBackupFails(w)
        <5>1. job' = [job EXCEPT ![w] = job[w]]
          BY <4>4 DEF RecordPre, PostBackupFails, AfterBackupFails, ChangeInv, TypeOK
        <5>2. QED
          BY <5>1
      <4>5. QED
        BY <2>7, <4>1, <4>2, <4>3, <4>4
    <3>3. UNCHANGED status
      <4>1. CASE ReplaySucceeds(w) \/ ReplayFails(w)
        BY <4>1 DEF ReplaySucceeds, ReplayFails, ReplaysTo, candidateRows
      <4>2. QED
        BY <2>7, <4>1 DEF PreBackup, PostBackup, AfterBackup, Retrieve, ArchivePre, ArchivePost, ArchiveAfter,
           ArchiveAs, RecordPre, PostBackupFails, AfterBackupFails, candidateRows
    <3>4. PICK label \in Labels : /\ pc' = [pc EXCEPT ![w] = label]
                                  /\ label \in Deploying \ {"insert"} => pc[w] \in Deploying \ {"insert"}
                                  /\ label \in Concluding => pc[w] \in Concluding
      BY <3>1
    <3>5. PICK j : job' = [job EXCEPT ![w] = j] /\ j.cand = job[w].cand /\ j.dep = job[w].dep
      BY <3>2
    <3>6. /\ pc'[w] = label /\ job'[w] = j
          /\ \A v \in Threads \ {w} : pc'[v] = pc[v] /\ job'[v] = job[v]
      BY <3>4, <3>5 DEF ChangeInv, TypeOK
    <3>7. OwnRow(w)'
      BY <3>4, <3>5, <3>6, OwnRowKeeps
    <3>8. QED
      BY <1>2, <3>3, <3>6, <3>7
  <2>8. QED
    BY <1>7, <2>1, <2>2, <2>3, <2>4, <2>5, <2>6, <2>7 DEF Proceed
<1>8. CASE Crash
  <2>1. UNCHANGED status /\ \A w \in Threads : pc'[w] = "idle"
    BY <1>8 DEF Crash, candidateRows
  <2>2. "idle" \notin Deploying /\ "idle" \notin Concluding
    BY DEF Deploying, Concluding
  <2>3. QED
    BY <2>1, <2>2, EarnedKeeps, OwnRowKeeps DEF OutcomeInv
<1>9. ASSUME NEW i \in Alive, delete_configuration(i) PROVE OutcomeInv'
  BY <1>1, <1>9 DEF delete_configuration, candidateRows
<1>10. QED
  BY <1>4, <1>5, <1>6, <1>7, <1>8, <1>9 DEF Next

\* A candidate said to be deployed was sent to its device, and one said to be failed has a
\* deployment that stored its rollback point and failed (deploy_candidate), whatever
\* overlaps, fails or dies: a deployment that stops before that leaves its candidate approved.
THEOREM OutcomesAreEarned == Spec => []OutcomeIsEarned
<1>1. Init => OutcomeInv
  BY DEF Init, OutcomeInv, Earned, OwnRow, Concluding, Deploying
<1>2. OutcomeInv => OutcomeIsEarned
  BY DEF OutcomeInv, Earned, HasFailed, HasPoint, SomeGone, IsSent, Ended, OutcomeIsEarned
<1>3. QED
  BY <1>1, <1>2, ChangeInvariant, OutcomeInvStep, PTL DEF Spec

-----------------------------------------------------------------------------
(* Requests one after the other: a single worker thread, no restart in the *)
(* middle and no snapshot deleted.  Then what is sent is sent once, on the *)
(* configuration its rollback point holds, and the reports are true.       *)

Serial ==
  /\ \A v, w \in Threads : v = w
  /\ {"crash", "delete"} \cap Faults = {}

Holds(n) == n \in Alive /\ archive[n] = device

SerialThread(w) ==
  /\ pc[w] = "submit" => status[job[w].cand] = "draft"
  /\ pc[w] = "review" => status[job[w].cand] = "pending_approval"
  /\ pc[w] \in Deploying => status[job[w].cand] = "approved"
  /\ pc[w] \in Unsent => ~IsSent(job[w].cand) /\ \A i \in DOMAIN sent : sent[i].dep # job[w].dep
  /\ pc[w] = "insert" => job[w].dep = Len(deployments) + 1
  /\ pc[w] \in Unsent \ {"insert"} => deployments[job[w].dep].status = "running"
  /\ pc[w] \in {"pre_archive", "post_archive", "rb_archive"} => job[w].buf = device
  /\ pc[w] \in {"pre_record", "send"} => Holds(job[w].point)
  /\ pc[w] \in {"send"} \cup Concluding \cup RollingBack =>
       job[w].point \in Alive /\ deployments[job[w].dep].pre = job[w].point
  /\ pc[w] \in Concluding => \E i \in DOMAIN sent :
       sent[i].cand = job[w].cand /\ sent[i].dep = job[w].dep /\ sent[i].after = device
  /\ pc[w] \in Deploying \cup RollingBack =>
       \/ job[w].snap = 0
       \/ pc[w] \in {"finish", "rb_finish"} /\ Holds(job[w].snap)

Concluded(c) ==
  \/ status[c] \in {"deployed", "failed"}
  \/ \E w \in Threads : pc[w] \in Concluding /\ job[w].cand = c

OneDeploymentEach == \A i, j \in DOMAIN sent : sent[i].dep = sent[j].dep => i = j

\* What the rows say of what was sent
LogInv == ~SomeGone /\ SentOnce /\ OneDeploymentEach /\ PointIsFresh /\ VerifiedMeansChanged

SerialInv ==
  /\ ChangeInv /\ LogInv
  /\ \A w \in Threads : SerialThread(w)
  /\ \A i \in DOMAIN sent : Concluded(sent[i].cand)

LEMMA SerialInvInit == Init => SerialInv
<1> SUFFICES ASSUME Init PROVE SerialInv
  OBVIOUS
<1>1. ChangeInv
  BY ChangeInvInit
<1>2. LogInv
  BY DEF Init, LogInv, SomeGone, SentOnce, OneDeploymentEach, PointIsFresh, VerifiedMeansChanged
<1>3. \A w \in Threads : SerialThread(w)
  BY DEF Init, SerialThread, Deploying, Unsent, Concluding, RollingBack
<1>4. QED
  BY <1>1, <1>2, <1>3 DEF Init, SerialInv

-----------------------------------------------------------------------------
(* What is left to show of a step.                                         *)

\* The only thread there is ends.
LEMMA SerialIdle ==
  ASSUME NEW w \in Threads, pc'[w] = "idle"
  PROVE  SerialThread(w)'
BY DEF SerialThread, Deploying, Unsent, Concluding, RollingBack

LEMMA ConcludedKeeps ==
  ASSUME Serial, SerialInv, NEW w \in Threads, UNCHANGED sent,
         \A c \in Candidates : status[c] \in {"deployed", "failed"} /\ IsSent(c) => status'[c] = status[c],
         pc[w] \in Concluding => \/ pc'[w] \in Concluding /\ job'[w].cand = job[w].cand
                                 \/ status'[job[w].cand] \in {"deployed", "failed"}
  PROVE  (\A i \in DOMAIN sent : Concluded(sent[i].cand))'
<1> SUFFICES ASSUME NEW i \in DOMAIN sent PROVE Concluded(sent[i].cand)'
  OBVIOUS
<1>1. Concluded(sent[i].cand) /\ sent[i].cand \in Candidates /\ IsSent(sent[i].cand)
  BY SeqFacts DEF SerialInv, ChangeInv, IsSent
<1>2. QED
  BY <1>1 DEF Concluded, Serial

\* The deployments, the archive and what was sent stay.
LEMMA LogStays ==
  ASSUME LogInv, UNCHANGED <<deployments, archive, sent>>
  PROVE  LogInv'
BY DEF LogInv, SomeGone, SentOnce, OneDeploymentEach, PointIsFresh, VerifiedMeansChanged, Alive

\* Archiving adds the content unless the latest snapshot has it.
LEMMA LogArchives ==
  ASSUME ChangeInv, LogInv, NEW content \in Configs, Archives(content),
         UNCHANGED <<deployments, sent>>
  PROVE  /\ LogInv'
         /\ \A n \in Alive : n \in Alive' /\ archive'[n] = archive[n]
         /\ SnapshotFor(content) \in Alive' /\ archive'[SnapshotFor(content)] = content
<1>1. content # Gone
  BY ConfigAssumption
<1>2. archive \in Seq(Configs \cup {Gone}) /\ Len(archive) \in Nat /\ DOMAIN archive = 1 .. Len(archive)
  BY SeqFacts DEF ChangeInv, TypeOK
<1>3. 0 \notin Alive
  BY <1>2 DEF Alive
<1>4. /\ \A n \in Alive : n \in Alive' /\ archive'[n] = archive[n]
      /\ SnapshotFor(content) \in Alive' /\ archive'[SnapshotFor(content)] = content
      /\ ~SomeGone'
  <2>1. CASE Unchanged(content)
    <3>1. Latest \in Alive
      BY <2>1, LatestIsNumber DEF Unchanged, ChangeInv
    <3>2. QED
      BY <2>1, <3>1 DEF Archives, SnapshotFor, Unchanged, LogInv, SomeGone, Alive
  <2>2. CASE ~Unchanged(content)
    <3>1. archive' = Append(archive, content) /\ SnapshotFor(content) = Len(archive) + 1
      BY <2>2 DEF Archives, SnapshotFor
    <3>2. /\ DOMAIN archive' = 1 .. Len(archive) + 1
          /\ \A n \in DOMAIN archive : archive'[n] = archive[n]
          /\ archive'[Len(archive) + 1] = content
      BY <1>2, <3>1
    <3>3. QED
      BY <1>1, <1>2, <3>1, <3>2 DEF Alive, LogInv, SomeGone
  <2>3. QED
    BY <2>1, <2>2
<1>5. \A d \in DOMAIN deployments : deployments[d].pre \in Alive \cup {0}
  BY DEF ChangeInv, NamedSnapshotsExist
<1>6. 0 \notin Alive'
  <2>1. archive' \in Seq(Configs \cup {Gone})
    BY ArchivesKeeps DEF ChangeInv
  <2>2. QED
    BY <2>1 DEF Alive
<1>7. PointIsFresh'
  <2> SUFFICES ASSUME NEW i \in DOMAIN sent, deployments[sent[i].dep].pre \in Alive'
               PROVE  archive'[deployments[sent[i].dep].pre] = sent[i].before
    BY DEF PointIsFresh
  <2>1. deployments[sent[i].dep].pre \in Alive
    BY <1>5, <1>6 DEF ChangeInv, SentInv
  <2>2. QED
    BY <1>4, <2>1 DEF LogInv, PointIsFresh
<1>8. QED
  BY <1>4, <1>7 DEF LogInv, SentOnce, OneDeploymentEach, VerifiedMeansChanged

\* A row is rewritten: of a deployment that was not sent, or keeping its
\* rollback point and saying of the change what is so.
LEMMA LogRow ==
  ASSUME ChangeInv, LogInv, NEW d \in DOMAIN deployments, NEW row,
         deployments' = [deployments EXCEPT ![d] = row], UNCHANGED <<archive, sent>>,
         \A i \in DOMAIN sent : sent[i].dep = d =>
           /\ row.pre = deployments[d].pre
           /\ row.status = "succeeded" => (row.verified <=> row.post # 0 /\ sent[i].before # sent[i].after)
  PROVE  LogInv'
<1>1. \A i \in DOMAIN sent : sent[i].dep \in DOMAIN deployments
  BY DEF ChangeInv, SentInv
<1>2. \A e \in DOMAIN deployments : deployments'[e] = IF e = d THEN row ELSE deployments[e]
  OBVIOUS
<1>3. PointIsFresh'
  BY <1>1, <1>2 DEF LogInv, PointIsFresh, Alive
<1>4. VerifiedMeansChanged'
  BY <1>1, <1>2 DEF LogInv, VerifiedMeansChanged
<1>5. QED
  BY <1>3, <1>4 DEF LogInv, SomeGone, SentOnce, OneDeploymentEach

\* A step after which the invariant is put together again.
LEMMA SerialParts ==
  ASSUME Serial, SerialInv, Next, NEW w \in Threads, LogInv', SerialThread(w)', UNCHANGED sent,
         \A c \in Candidates : status[c] \in {"deployed", "failed"} /\ IsSent(c) => status'[c] = status[c],
         pc[w] \in Concluding => \/ pc'[w] \in Concluding /\ job'[w].cand = job[w].cand
                                 \/ status'[job[w].cand] \in {"deployed", "failed"}
  PROVE  SerialInv'
<1>1. ChangeInv'
  BY ChangeInvStep DEF SerialInv
<1>2. \A v \in Threads : SerialThread(v)'
  BY DEF Serial
<1>3. (\A i \in DOMAIN sent : Concluded(sent[i].cand))'
  BY ConcludedKeeps
<1>4. QED
  BY <1>1, <1>2, <1>3 DEF SerialInv
-----------------------------------------------------------------------------
(* The steps.                                                              *)

\* Where the thread is, its candidate is in the state it was found in.
LEMMA UnsentStatus ==
  ASSUME SerialInv, NEW i \in DOMAIN sent
  PROVE  status[sent[i].cand] \in {"approved", "deployed", "failed"}
BY DEF SerialInv, Concluded, SerialThread, Concluding, Deploying

\* The thread after a step that set it at a label with a memory.
LEMMA ThreadAt ==
  ASSUME ChangeInv, NEW w \in Threads, NEW label, NEW j,
         Starts(w, label, j) \/ (Goto(w, label) /\ job' = [job EXCEPT ![w] = j])
  PROVE  pc'[w] = label /\ job'[w] = j
BY DEF ChangeInv, TypeOK, Starts, Goto

LEMMA create_candidateSerial ==
  ASSUME Serial, SerialInv, NEW c \in Candidates, NEW a \in Admins, NEW change \in Changes,
         create_candidate(c, a, change)
  PROVE  SerialInv'
<1>1. /\ status' = [status EXCEPT ![c] = "draft"] /\ status[c] = "none"
      /\ UNCHANGED <<deployments, archive, device, pc, job, sent>>
  BY DEF create_candidate
<1>2. status \in [Candidates -> Statuses]
  BY DEF SerialInv, ChangeInv, TypeOK, Statuses
<1>3. \A d \in Candidates \ {c} : status'[d] = status[d]
  BY <1>1, <1>2
<1>4. ASSUME NEW w \in Threads PROVE SerialThread(w)'
  <2>1. pc[w] \in {"submit", "review"} \cup Deploying => job[w].cand # c /\ job[w].cand \in Candidates
    BY <1>1 DEF SerialInv, ChangeInv, ThreadInv
  <2>2. pc[w] \in Concluding \cup Unsent => pc[w] \in Deploying
    BY DEF Concluding, Unsent, Deploying
  <2>3. SerialThread(w)
    BY DEF SerialInv
  <2>4. QED
    BY <1>1, <1>3, <2>1, <2>2, <2>3 DEF SerialThread, IsSent, Holds, Alive
<1>5. ASSUME NEW i \in DOMAIN sent PROVE Concluded(sent[i].cand)'
  <2>1. sent[i].cand # c /\ sent[i].cand \in Candidates /\ Concluded(sent[i].cand)
    BY <1>1, UnsentStatus, SeqFacts DEF SerialInv, ChangeInv
  <2>2. QED
    BY <1>1, <1>3, <2>1 DEF Concluded
<1>6. LogInv'
  BY <1>1, LogStays DEF SerialInv
<1>7. ChangeInv'
  BY create_candidateKeeps DEF SerialInv
<1>8. QED
  BY <1>1, <1>4, <1>5, <1>6, <1>7 DEF SerialInv

\* A request arrives.
LEMMA ArrivesSerial ==
  ASSUME Serial, SerialInv, NEW w \in Threads, Arrives(w), Next
  PROVE  SerialInv'
<1>1. pc[w] = "idle" /\ pc[w] \notin Concluding
  BY DEF Arrives, submit_candidate, review_candidate, deploy_candidate, rollback_deployment, Starts,
         Concluding
<1>2. ASSUME NEW c \in Candidates, submit_candidate(w, c) PROVE SerialInv'
  <2>1. status[c] = "draft"
    <3>1. status[c] \in Statuses
      BY DEF SerialInv, ChangeInv, TypeOK, Statuses
    <3>2. QED
      BY <1>2, <3>1 DEF submit_candidate, can_transition, ALLOWED_TRANSITIONS, Statuses
  <2>2. pc'[w] = "submit" /\ job'[w].cand = c
    <3> DEFINE j == [NoJob EXCEPT !.cand = c]
    <3>1. j.cand = c
      BY DEF NoJob
    <3>2. Starts(w, "submit", j)
      BY <1>2 DEF submit_candidate
    <3> HIDE DEF j
    <3>3. QED
      BY <3>1, <3>2, ThreadAt DEF SerialInv
  <2>3. UNCHANGED <<candidateRows, deployments, archive, device, sent>>
    BY <1>2 DEF submit_candidate
  <2>4. SerialThread(w)'
    BY <2>1, <2>2, <2>3 DEF SerialThread, Deploying, Unsent, Concluding, RollingBack, candidateRows
  <2>5. QED
    BY <1>1, <2>3, <2>4, LogStays, SerialParts DEF SerialInv, candidateRows
<1>3. ASSUME NEW c \in Candidates, NEW a \in Admins, NEW target \in {"approved", "rejected"},
             review_candidate(w, c, a, target)
      PROVE  SerialInv'
  <2>1. status[c] = "pending_approval"
    <3>1. status[c] \in Statuses
      BY DEF SerialInv, ChangeInv, TypeOK, Statuses
    <3>2. QED
      BY <1>3, <3>1 DEF review_candidate, MayReview, can_transition, ALLOWED_TRANSITIONS, Statuses
  <2>2. pc'[w] = "review" /\ job'[w].cand = c
    <3> DEFINE j == [NoJob EXCEPT !.cand = c, !.to = target, !.who = a]
    <3>1. j.cand = c
      BY DEF NoJob
    <3>2. Starts(w, "review", j)
      BY <1>3 DEF review_candidate
    <3> HIDE DEF j
    <3>3. QED
      BY <3>1, <3>2, ThreadAt DEF SerialInv
  <2>3. UNCHANGED <<candidateRows, deployments, archive, device, sent>>
    BY <1>3 DEF review_candidate
  <2>4. SerialThread(w)'
    BY <2>1, <2>2, <2>3 DEF SerialThread, Deploying, Unsent, Concluding, RollingBack, candidateRows
  <2>5. QED
    BY <1>1, <2>3, <2>4, LogStays, SerialParts DEF SerialInv, candidateRows
<1>4. ASSUME NEW c \in Candidates, deploy_candidate(w, c) PROVE SerialInv'
  <2>1. status[c] = "approved"
    BY <1>4 DEF deploy_candidate
  <2>2. pc'[w] = "insert" /\ job'[w].cand = c /\ job'[w].dep = Len(deployments) + 1 /\ job'[w].snap = 0
    <3> DEFINE j == [NoJob EXCEPT !.cand = c, !.dep = Len(deployments) + 1]
    <3>1. j.cand = c /\ j.dep = Len(deployments) + 1 /\ j.snap = 0
      BY DEF NoJob
    <3>2. Starts(w, "insert", j)
      BY <1>4 DEF deploy_candidate
    <3> HIDE DEF j
    <3>3. QED
      BY <3>1, <3>2, ThreadAt DEF SerialInv
  <2>3. UNCHANGED <<candidateRows, deployments, archive, device, sent>>
    BY <1>4 DEF deploy_candidate
  <2>4. ~IsSent(c)
    <3> SUFFICES ASSUME NEW i \in DOMAIN sent, sent[i].cand = c PROVE FALSE
      BY DEF IsSent
    <3>1. Concluded(c)
      BY DEF SerialInv
    <3>2. QED
      BY <1>1, <2>1, <3>1 DEF Concluded, Serial
  <2>5. \A i \in DOMAIN sent : sent[i].dep # Len(deployments) + 1
    BY SeqFacts DEF SerialInv, ChangeInv, SentInv
  <2>6. "insert" \in Unsent /\ "insert" \in Deploying /\ "insert" \notin Concluding \cup RollingBack
    BY DEF Deploying, Unsent, Concluding, RollingBack
  <2>7. ~IsSent(c)' /\ status'[c] = "approved" /\ \A i \in DOMAIN sent : sent'[i].dep # Len(deployments) + 1
    BY <2>1, <2>3, <2>4, <2>5 DEF IsSent, candidateRows
  <2>8. SerialThread(w)'
    BY <2>2, <2>3, <2>6, <2>7 DEF SerialThread, IsSent, Holds
  <2>9. QED
    BY <1>1, <2>3, <2>8, LogStays, SerialParts DEF SerialInv, candidateRows
<1>5. ASSUME NEW d \in DOMAIN deployments, rollback_deployment(w, d) PROVE SerialInv'
  <2> DEFINE row == [deployments[d] EXCEPT !.rollbacks = @ + 1]
  <2>1. deployments[d] \in Deployment
    BY SeqFacts DEF SerialInv, ChangeInv
  <2>2. /\ row.pre = deployments[d].pre /\ row.post = deployments[d].post
        /\ row.status = deployments[d].status /\ row.verified = deployments[d].verified
    BY <2>1 DEF Deployment
  <2>3. deployments' = [deployments EXCEPT ![d] = row] /\ UNCHANGED <<candidateRows, archive, device, sent>>
    BY <1>5 DEF rollback_deployment
  <2> HIDE DEF row
  <2>4. LogInv'
    <3>1. ASSUME NEW i \in DOMAIN sent, sent[i].dep = d
          PROVE  row.status = "succeeded" =>
                   (row.verified <=> row.post # 0 /\ sent[i].before # sent[i].after)
      BY <2>2, <3>1 DEF SerialInv, LogInv, VerifiedMeansChanged
    <3>2. UNCHANGED <<archive, sent>> /\ ChangeInv /\ LogInv
      BY <2>3 DEF SerialInv
    <3>3. \A i \in DOMAIN sent : sent[i].dep = d =>
            /\ row.pre = deployments[d].pre
            /\ row.status = "succeeded" =>
                 (row.verified <=> row.post # 0 /\ sent[i].before # sent[i].after)
      BY <2>2, <3>1
    <3>4. QED
      BY <2>3, <3>2, <3>3, LogRow
  <2>5. deployments[d].pre \in Alive
    BY <1>5 DEF rollback_deployment, SerialInv, ChangeInv, NamedSnapshotsExist
  <2>6. pc'[w] = "rb_send" /\ job'[w].dep = d /\ job'[w].point = deployments[d].pre /\ job'[w].snap = 0
    <3> DEFINE p == deployments[d].pre
               j == [NoJob EXCEPT !.dep = d, !.point = p, !.buf = archive[p]]
    <3>1. j.dep = d /\ j.point = p /\ j.snap = 0
      BY DEF NoJob
    <3>2. Starts(w, "rb_send", j)
      BY <1>5 DEF rollback_deployment
    <3> HIDE DEF j
    <3>3. QED
      BY <3>1, <3>2, ThreadAt DEF SerialInv
  <2>9. "rb_send" \in RollingBack /\ "rb_send" \notin Deploying \cup Unsent \cup Concluding
    BY DEF Deploying, Unsent, Concluding, RollingBack
  <2>10. deployments'[d].pre = deployments[d].pre /\ Alive' = Alive
    BY <2>2, <2>3 DEF Alive
  <2>7. SerialThread(w)'
    BY <2>5, <2>6, <2>9, <2>10 DEF SerialThread, IsSent, Holds
  <2>8. QED
    BY <1>1, <2>3, <2>4, <2>7, SerialParts DEF candidateRows
<1>6. QED
  BY <1>2, <1>3, <1>4, <1>5 DEF Arrives

-----------------------------------------------------------------------------

\* The candidate of a thread that has not sent it yet, or reviews it.
LEMMA submitSerial ==
  ASSUME Serial, SerialInv, NEW w \in Threads, submit_commit(w) \/ review_commit(w), Next
  PROVE  SerialInv'
<1>1. pc[w] \in {"submit", "review"} /\ Ends(w) /\ pc[w] \notin Concluding
      /\ UNCHANGED <<author, lines, deployments, archive, device, sent>>
  BY DEF submit_commit, review_commit, Concluding
<1>2. status[job[w].cand] \in {"draft", "pending_approval"}
  BY <1>1 DEF SerialInv, SerialThread
<1>3. \A c \in Candidates : c # job[w].cand => status'[c] = status[c]
  BY DEF submit_commit, review_commit, SerialInv, ChangeInv, TypeOK
<1>4. \A c \in Candidates : status[c] \in {"deployed", "failed"} => status'[c] = status[c]
  BY <1>2, <1>3
<1>5. SerialThread(w)'
  BY <1>1, EndsAsIdle, ThreadAt, SerialIdle DEF SerialInv, Ends
<1>6. QED
  BY <1>1, <1>4, <1>5, LogStays, SerialParts DEF SerialInv

LEMMA InsertDeploymentSerial ==
  ASSUME Serial, SerialInv, NEW w \in Threads, InsertDeployment(w), Next
  PROVE  SerialInv'
<1> DEFINE n == Len(deployments)
           row == [cand |-> job[w].cand, status |-> "running", pre |-> 0, post |-> 0,
                   verified |-> FALSE, rollbacks |-> 0, told |-> ""]
<1>1. pc[w] = "insert" /\ job[w].dep = n + 1 /\ deployments' = Append(deployments, row)
      /\ pc' = [pc EXCEPT ![w] = "pre_read"] /\ UNCHANGED <<candidateRows, archive, device, job, sent>>
  BY DEF InsertDeployment, Goto
<1>11. row.status = "running"
  OBVIOUS
<1> HIDE DEF row
<1>2. (\A e \in DOMAIN deployments : deployments'[e] = deployments[e]) /\ deployments'[n + 1] = row
  BY <1>1 DEF SerialInv, ChangeInv, TypeOK
<1>3. \A i \in DOMAIN sent : deployments'[sent[i].dep] = deployments[sent[i].dep]
  BY <1>2 DEF SerialInv, ChangeInv, SentInv
<1>4. LogInv'
  BY <1>1, <1>3 DEF SerialInv, LogInv, SomeGone, SentOnce, OneDeploymentEach, PointIsFresh,
                    VerifiedMeansChanged, Alive
<1>5. pc'[w] = "pre_read"
  BY <1>1 DEF SerialInv, ChangeInv, TypeOK
<1>9. /\ pc[w] \in Unsent /\ pc[w] \in Deploying
      /\ "pre_read" \in Unsent /\ "pre_read" \in Deploying /\ "pre_read" \notin Concluding \cup RollingBack
  BY <1>1 DEF Deploying, Unsent, Concluding, RollingBack
<1>10. SerialThread(w) /\ (IsSent(job[w].cand)' <=> IsSent(job[w].cand))
  BY <1>1 DEF SerialInv, IsSent
<1>6. SerialThread(w)'
  BY <1>1, <1>2, <1>5, <1>9, <1>10, <1>11 DEF SerialThread, IsSent, Holds, candidateRows
<1>7. pc[w] \notin Concluding
  BY <1>1 DEF Concluding
<1>8. QED
  BY <1>1, <1>4, <1>6, <1>7, SerialParts DEF candidateRows

\* Only one thread: nobody takes its number, and nothing it needs is deleted.
LEMMA NotRefused ==
  ASSUME SerialInv, NEW w \in Threads
  PROVE  ~NumberTaken(w) /\ ~SnapshotGone(w)
<1>1. SerialThread(w)
  BY DEF SerialInv
<1>2. /\ "finish" \in Concluding /\ "rb_finish" \in RollingBack
      /\ "finish" \in Deploying
  BY DEF Concluding, RollingBack, Deploying
<1>3. CASE pc[w] = "pre_record"
  BY <1>1, <1>3 DEF SerialThread, NumberTaken, SnapshotGone, Holds
<1>4. CASE pc[w] = "finish"
  BY <1>1, <1>2, <1>4 DEF SerialThread, NumberTaken, SnapshotGone, Holds
<1>5. CASE pc[w] = "rb_finish"
  BY <1>1, <1>2, <1>5 DEF SerialThread, NumberTaken, SnapshotGone, Holds
<1>6. CASE pc[w] \notin {"pre_record", "finish", "rb_finish"}
  BY <1>1, <1>6 DEF SerialThread, NumberTaken, SnapshotGone
<1>7. QED
  BY <1>3, <1>4, <1>5, <1>6

LEMMA RetrieveSerial ==
  ASSUME Serial, SerialInv, NEW w \in Threads, Next,
         PreBackup(w) \/ PostBackup(w) \/ AfterBackup(w) \/ PostBackupFails(w) \/ AfterBackupFails(w)
  PROVE  SerialInv'
<1>1. UNCHANGED <<candidateRows, deployments, archive, device, sent>>
  BY DEF PreBackup, PostBackup, AfterBackup, Retrieve, PostBackupFails, AfterBackupFails
<1>2. \/ pc[w] = "pre_read" /\ pc'[w] = "pre_archive"
      \/ pc[w] = "post_read" /\ pc'[w] = "post_archive"
      \/ pc[w] = "rb_read" /\ pc'[w] = "rb_archive"
      \/ pc[w] = "post_read" /\ pc'[w] = "finish"
      \/ pc[w] = "rb_read" /\ pc'[w] = "rb_finish"
  BY DEF PreBackup, PostBackup, AfterBackup, Retrieve, PostBackupFails, AfterBackupFails, Goto,
         SerialInv, ChangeInv, TypeOK
<1>3. /\ job'[w].cand = job[w].cand /\ job'[w].dep = job[w].dep /\ job'[w].point = job[w].point
      /\ job'[w].snap = job[w].snap
      /\ pc'[w] \in {"pre_archive", "post_archive", "rb_archive"} => job'[w].buf = device
  <2>1. CASE PreBackup(w) \/ PostBackup(w) \/ AfterBackup(w)
    <3> DEFINE j == [job[w] EXCEPT !.buf = device]
    <3>1. job' = [job EXCEPT ![w] = j]
      BY <2>1 DEF PreBackup, PostBackup, AfterBackup, Retrieve
    <3>2. j.cand = job[w].cand /\ j.dep = job[w].dep /\ j.point = job[w].point
          /\ j.snap = job[w].snap /\ j.buf = device
      BY JobsKeep DEF SerialInv
    <3> HIDE DEF j
    <3>3. QED
      BY <3>1, <3>2 DEF SerialInv, ChangeInv, TypeOK
  <2>2. CASE PostBackupFails(w) \/ AfterBackupFails(w)
    BY <1>2, <2>2 DEF PostBackupFails, AfterBackupFails, Goto, SerialInv, ChangeInv, TypeOK
  <2>3. QED
    BY <2>1, <2>2
<1>4. SerialThread(w)
  BY DEF SerialInv
<1>5. SerialThread(w)'
  BY <1>1, <1>2, <1>3, <1>4
     DEF SerialThread, Deploying, Unsent, Concluding, RollingBack, IsSent, Holds, Alive, candidateRows
<1>6. pc[w] \in Concluding => pc'[w] \in Concluding /\ job'[w].cand = job[w].cand
  BY <1>2, <1>3 DEF Concluding
<1>7. LogInv'
  BY <1>1, LogStays DEF SerialInv
<1>8. QED
  BY <1>1, <1>5, <1>6, <1>7, SerialParts DEF candidateRows

LEMMA ArchiveSerial ==
  ASSUME Serial, SerialInv, NEW w \in Threads, Next,
         ArchivePre(w) \/ ArchivePost(w) \/ ArchiveAfter(w)
  PROVE  SerialInv'
<1>1. /\ UNCHANGED <<candidateRows, deployments, device, sent>> /\ Archives(job[w].buf)
      /\ pc[w] \in {"pre_archive", "post_archive", "rb_archive"}
  BY DEF ArchivePre, ArchivePost, ArchiveAfter, ArchiveAs
<1>2. \/ pc[w] = "pre_archive" /\ pc'[w] = "pre_record"
      \/ pc[w] = "post_archive" /\ pc'[w] = "finish"
      \/ pc[w] = "rb_archive" /\ pc'[w] = "rb_finish"
  BY DEF ArchivePre, ArchivePost, ArchiveAfter, ArchiveAs, Goto, SerialInv, ChangeInv, TypeOK
<1>3. job[w].buf = device /\ device \in Configs /\ SerialThread(w)
  BY <1>1 DEF SerialInv, SerialThread, ChangeInv, TypeOK
<1>4. /\ LogInv'
      /\ \A n \in Alive : n \in Alive' /\ archive'[n] = archive[n]
      /\ SnapshotFor(job[w].buf) \in Alive' /\ archive'[SnapshotFor(job[w].buf)] = device
  BY <1>1, <1>3, LogArchives DEF SerialInv
<1>5. /\ job'[w].cand = job[w].cand /\ job'[w].dep = job[w].dep
      /\ IF pc[w] = "pre_archive"
         THEN job'[w].point = SnapshotFor(job[w].buf) /\ job'[w].snap = job[w].snap
         ELSE job'[w].snap = SnapshotFor(job[w].buf) /\ job'[w].point = job[w].point
  BY ArchivesJob DEF SerialInv, ChangeInv, TypeOK
<1>6. SerialThread(w)'
  BY <1>1, <1>2, <1>3, <1>4, <1>5
     DEF SerialThread, Deploying, Unsent, Concluding, RollingBack, IsSent, Holds, candidateRows
<1>7. pc[w] \in Concluding => pc'[w] \in Concluding /\ job'[w].cand = job[w].cand
  BY <1>2, <1>5 DEF Concluding
<1>8. QED
  BY <1>1, <1>4, <1>6, <1>7, SerialParts DEF candidateRows

LEMMA run_backupSerial ==
  ASSUME Serial, SerialInv, run_backup
  PROVE  SerialInv'
<1>1. UNCHANGED <<candidateRows, deployments, device, pc, job, sent>> /\ Archives(device)
  BY DEF run_backup
<1>2. /\ LogInv'
      /\ \A n \in Alive : n \in Alive' /\ archive'[n] = archive[n]
  BY <1>1, LogArchives DEF SerialInv, ChangeInv, TypeOK
<1>3. ASSUME NEW w \in Threads PROVE SerialThread(w)'
  <2>1. SerialThread(w)
    BY DEF SerialInv
  <2>2. QED
    BY <1>1, <1>2, <2>1 DEF SerialThread, IsSent, Holds, candidateRows
<1>4. (\A i \in DOMAIN sent : Concluded(sent[i].cand))'
  BY <1>1 DEF SerialInv, Concluded, candidateRows
<1>5. QED
  BY <1>2, <1>3, <1>4, run_backupKeeps DEF SerialInv

-----------------------------------------------------------------------------
(* The rows of deployments, and the device.                                *)

LEMMA RecordPreSerial ==
  ASSUME Serial, SerialInv, NEW w \in Threads, RecordPre(w), Next
  PROVE  SerialInv'
<1> DEFINE d == job[w].dep
           row == [Dep(w) EXCEPT !.pre = job[w].point]
<1>1. /\ job[w].point \in Alive
      /\ UNCHANGED <<candidateRows, archive, device, job, sent>>
  BY DEF RecordPre
<1>2. pc[w] = "pre_record" /\ pc[w] \in Unsent /\ pc[w] \in Deploying /\ pc[w] \notin Concluding
      /\ pc[w] \in (Deploying \cup RollingBack) \ {"insert"}
  BY DEF RecordPre, Unsent, Deploying, Concluding
<1>3. SerialThread(w) /\ d \in DOMAIN deployments /\ Dep(w) \in Deployment
  BY <1>2, HasRow DEF SerialInv
<1>4. deployments' = [deployments EXCEPT ![d] = row] /\ row.pre = job[w].point /\ row.status = Dep(w).status
  BY <1>3 DEF RecordPre, Dep, Deployment
<1> HIDE DEF row
<1>5. \A i \in DOMAIN sent : sent[i].dep # d
  BY <1>2, <1>3 DEF SerialThread
<1>6. LogInv'
  <2>1. ChangeInv /\ LogInv /\ UNCHANGED <<archive, sent>>
    BY <1>1 DEF SerialInv
  <2>2. QED
    BY <1>3, <1>4, <1>5, <2>1, LogRow
<1>7. pc'[w] = "send" /\ "send" \in Unsent /\ "send" \in Deploying /\ "send" \notin Concluding \cup RollingBack
  BY DEF RecordPre, Goto, SerialInv, ChangeInv, TypeOK, Unsent, Deploying, Concluding, RollingBack
<1>8. /\ deployments'[d].pre = job[w].point /\ deployments'[d].status = "running" /\ Alive' = Alive
      /\ IsSent(job[w].cand)' <=> IsSent(job[w].cand)
  BY <1>1, <1>2, <1>3, <1>4 DEF Alive, IsSent, SerialThread, Dep
<1>9. SerialThread(w)'
  BY <1>1, <1>2, <1>3, <1>7, <1>8 DEF SerialThread, Holds, candidateRows
<1>10. QED
  BY <1>1, <1>2, <1>6, <1>9, SerialParts DEF candidateRows

\* A thread that ends and rewrites the row of its deployment.
LEMMA EndsSerial ==
  ASSUME Serial, SerialInv, NEW w \in Threads, Next, Ends(w),
         pc[w] \in (Deploying \cup RollingBack) \ {"insert"}, NEW row,
         deployments' = [deployments EXCEPT ![job[w].dep] = row], UNCHANGED <<archive, sent>>,
         row.pre = Dep(w).pre,
         row.status = "succeeded" =>
           \A i \in DOMAIN sent : sent[i].dep = job[w].dep =>
             (row.verified <=> row.post # 0 /\ sent[i].before # sent[i].after),
         \/ status' = status /\ pc[w] \notin Concluding
         \/ /\ pc[w] \in {"send"} \cup Concluding
            /\ \E s \in {"deployed", "failed"} : status' = [status EXCEPT ![job[w].cand] = s]
  PROVE  SerialInv'
<1>1. ChangeInv /\ LogInv /\ job[w].dep \in DOMAIN deployments
  BY HasRow DEF SerialInv
<1>2. LogInv'
  <2>1. \A i \in DOMAIN sent : sent[i].dep = job[w].dep =>
          /\ row.pre = deployments[job[w].dep].pre
          /\ row.status = "succeeded" =>
               (row.verified <=> row.post # 0 /\ sent[i].before # sent[i].after)
    BY DEF Dep
  <2>2. deployments' = [deployments EXCEPT ![job[w].dep] = row] /\ UNCHANGED <<archive, sent>>
    OBVIOUS
  <2>3. QED
    BY ONLY <1>1, <2>1, <2>2, LogRow
<1>3. pc'[w] = "idle"
  BY DEF SerialInv, ChangeInv, TypeOK, Ends, Goto
<1>4. SerialThread(w)'
  BY <1>3, SerialIdle
<1>5. CASE status' = status /\ pc[w] \notin Concluding
  BY <1>2, <1>4, <1>5, SerialParts
<1>6. CASE /\ pc[w] \in {"send"} \cup Concluding
           /\ \E s \in {"deployed", "failed"} : status' = [status EXCEPT ![job[w].cand] = s]
  <2>1. pc[w] \in Deploying
    BY <1>6 DEF Concluding, Deploying
  <2>2. job[w].cand \in Candidates /\ status[job[w].cand] = "approved"
    BY <2>1 DEF SerialInv, SerialThread, ChangeInv, ThreadInv
  <2>3. status \in [Candidates -> Statuses]
    BY DEF SerialInv, ChangeInv, TypeOK, Statuses
  <2>4. status'[job[w].cand] \in {"deployed", "failed"}
    BY <1>6, <2>2, <2>3
  <2>5. \A c \in Candidates : status[c] \in {"deployed", "failed"} => status'[c] = status[c]
    BY <1>6, <2>2, <2>3
  <2>6. QED
    BY <1>2, <1>4, <2>4, <2>5, SerialParts
<1>7. QED
  BY <1>5, <1>6

LEMMA FailuresSerial ==
  ASSUME Serial, SerialInv, NEW w \in Threads, Next,
         PreBackupFails(w) \/ ConnectFails(w) \/ DeploymentFailed(w) \/ RollbackFailed(w) \/ RolledBack(w)
  PROVE  SerialInv'
<1> USE DEF MarkFailed
<1>1. /\ pc[w] \in (Deploying \cup RollingBack) \ {"insert"} /\ Ends(w)
      /\ UNCHANGED <<archive, sent>>
  BY DEF PreBackupFails, ConnectFails, DeploymentFailed, RollbackFailed, RolledBack, Deploying, RollingBack
<1>2. Dep(w) \in Deployment /\ job[w].dep \in DOMAIN deployments
  BY <1>1, HasRow DEF SerialInv
<1>3. \E row : /\ deployments' = [deployments EXCEPT ![job[w].dep] = row]
               /\ row.pre = Dep(w).pre /\ row.status # "succeeded"
  <2>1. CASE PreBackupFails(w) \/ ConnectFails(w) \/ DeploymentFailed(w)
    <3> DEFINE row == [Dep(w) EXCEPT !.status = "failed"]
    <3>1. deployments' = [deployments EXCEPT ![job[w].dep] = row]
      BY <1>2, <2>1 DEF PreBackupFails, ConnectFails, DeploymentFailed, Dep
    <3>2. row.pre = Dep(w).pre /\ row.status = "failed"
      BY <1>2 DEF Deployment
    <3> HIDE DEF row
    <3>3. QED
      BY <3>1, <3>2
  <2>2. CASE RollbackFailed(w)
    <3> DEFINE row == [Dep(w) EXCEPT !.status = "rollback_failed"]
    <3>1. deployments' = [deployments EXCEPT ![job[w].dep] = row]
      BY <1>2, <2>2 DEF RollbackFailed, Dep
    <3>2. row.pre = Dep(w).pre /\ row.status = "rollback_failed"
      BY <1>2 DEF Deployment
    <3> HIDE DEF row
    <3>3. QED
      BY <3>1, <3>2
  <2>3. CASE RolledBack(w)
    <3> DEFINE row == [Dep(w) EXCEPT !.status = "rolled_back",
                                     !.told = IF Matched(w) THEN "restored" ELSE "differs"]
    <3>1. deployments' = [deployments EXCEPT ![job[w].dep] = row]
      BY <1>2, <2>3 DEF RolledBack, Dep
    <3>2. row.pre = Dep(w).pre /\ row.status = "rolled_back"
      BY <1>2 DEF Deployment
    <3> HIDE DEF row
    <3>3. QED
      BY <3>1, <3>2
  <2>4. QED
    BY <2>1, <2>2, <2>3
<1>4. \/ status' = status /\ pc[w] \notin Concluding
      \/ pc[w] \in {"send"} \cup Concluding /\ status' = [status EXCEPT ![job[w].cand] = "failed"]
  BY DEF PreBackupFails, ConnectFails, DeploymentFailed, RollbackFailed, RolledBack, Concluding, candidateRows
<1>5. PICK row : /\ deployments' = [deployments EXCEPT ![job[w].dep] = row]
                 /\ row.pre = Dep(w).pre /\ row.status # "succeeded"
  BY <1>3
<1>6. QED
  BY <1>1, <1>4, <1>5, EndsSerial

\* The verdict compares the snapshot taken afterwards with the rollback point.
LEMMA DeploymentSucceededSerial ==
  ASSUME Serial, SerialInv, NEW w \in Threads, DeploymentSucceeded(w), Next
  PROVE  SerialInv'
<1> DEFINE d == job[w].dep
           row == [Dep(w) EXCEPT !.status = "succeeded", !.post = job[w].snap,
                                 !.verified = VerifiedChanged(w)]
<1>1. /\ pc[w] = "finish" /\ pc[w] \in (Deploying \cup RollingBack) \ {"insert"} /\ Ends(w)
      /\ pc[w] \in Concluding /\ pc[w] \in Deploying /\ UNCHANGED <<archive, sent>>
      /\ status' = [status EXCEPT ![job[w].cand] = "deployed"]
  BY DEF DeploymentSucceeded, Deploying, Concluding
<1>2. Dep(w) \in Deployment /\ d \in DOMAIN deployments /\ SerialThread(w)
  BY <1>1, HasRow DEF SerialInv
<1>3. deployments' = [deployments EXCEPT ![d] = row]
  BY <1>2 DEF DeploymentSucceeded, Dep
<1>4. row.pre = Dep(w).pre /\ row.post = job[w].snap /\ row.verified = VerifiedChanged(w)
  BY <1>2 DEF Deployment
<1> HIDE DEF row
<1>5. ASSUME NEW i \in DOMAIN sent, sent[i].dep = d
      PROVE  row.verified <=> row.post # 0 /\ sent[i].before # sent[i].after
  <2>1. CASE job[w].snap = 0
    BY <1>4, <2>1 DEF VerifiedChanged
  <2>2. CASE job[w].snap # 0
    <3>1. sent[i].after = device
      <4>1. PICK k \in DOMAIN sent : sent[k].dep = d /\ sent[k].after = device
        BY <1>1, <1>2 DEF SerialThread
      <4>2. QED
        BY <1>5, <4>1 DEF SerialInv, LogInv, OneDeploymentEach
    <3>2. archive[job[w].snap] = device
      BY <1>1, <1>2, <2>2 DEF SerialThread, Holds
    <3>3. job[w].point \in Alive /\ deployments[d].pre = job[w].point
      BY <1>1, <1>2 DEF SerialThread
    <3>4. archive[job[w].point] = sent[i].before
      BY <1>5, <3>3 DEF SerialInv, LogInv, PointIsFresh
    <3>5. QED
      BY <1>4, <2>2, <3>1, <3>2, <3>4 DEF VerifiedChanged
  <2>3. QED
    BY <2>1, <2>2
<1>6. QED
  BY <1>1, <1>3, <1>4, <1>5, EndsSerial

LEMMA SendSerial ==
  ASSUME Serial, SerialInv, NEW w \in Threads, Next, SendSucceeds(w) \/ SendFails(w)
  PROVE  SerialInv'
<1> DEFINE n == Len(sent) + 1
           c == job[w].cand
           d == job[w].dep
<1>1. PICK taken : \E label \in {"post_read", "send_failed"} : Delivers(w, taken, label)
  BY SendsDeliver DEF SerialInv
<1>2. PICK label \in {"post_read", "send_failed"} : Delivers(w, taken, label)
  BY <1>1
<1>3. /\ DOMAIN sent' = DOMAIN sent \cup {n} /\ n \notin DOMAIN sent
      /\ \A i \in DOMAIN sent : sent'[i] = sent[i]
      /\ sent'[n].cand = c /\ sent'[n].dep = d /\ sent'[n].before = device /\ sent'[n].after = device'
      /\ pc'[w] = label /\ UNCHANGED <<candidateRows, deployments, archive, job>>
  BY <1>2 DEF Delivers
<1> HIDE DEF n
<1>4. /\ pc[w] = "send" /\ pc[w] \in Unsent \ {"insert"} /\ pc[w] \in Deploying /\ pc[w] \notin Concluding
      /\ label \in Concluding /\ label \in Deploying /\ label \notin Unsent /\ label \notin RollingBack
  BY DEF SendSucceeds, SendFails, Unsent, Deploying, Concluding, RollingBack
<1>5. /\ status[c] = "approved" /\ ~IsSent(c) /\ \A i \in DOMAIN sent : sent[i].dep # d
      /\ deployments[d].status = "running" /\ deployments[d].pre = job[w].point /\ job[w].point \in Alive
      /\ archive[job[w].point] = device /\ job[w].snap = 0
  BY <1>4 DEF SerialInv, SerialThread, Holds
<1>6. SentOnce'
  BY <1>3, <1>5 DEF SerialInv, LogInv, SentOnce, IsSent
<1>7. OneDeploymentEach'
  BY <1>3, <1>5 DEF SerialInv, LogInv, OneDeploymentEach
<1>8. PointIsFresh'
  BY <1>3, <1>5 DEF SerialInv, LogInv, PointIsFresh, Alive
<1>9. VerifiedMeansChanged'
  BY <1>3, <1>5 DEF SerialInv, LogInv, VerifiedMeansChanged
<1>10. LogInv'
  BY <1>3, <1>6, <1>7, <1>8, <1>9 DEF SerialInv, LogInv, SomeGone
<1>11. \A v \in Threads : SerialThread(v)'
  <2>1. SerialThread(w)'
    BY <1>3, <1>4, <1>5 DEF SerialThread, Alive, candidateRows
  <2>2. QED
    BY <2>1 DEF Serial
<1>12. ASSUME NEW i \in DOMAIN sent' PROVE Concluded(sent[i].cand)'
  <2>1. CASE i = n
    BY <1>3, <1>4, <2>1 DEF Concluded
  <2>2. CASE i \in DOMAIN sent
    <3>1. status[sent[i].cand] \in {"deployed", "failed"}
      BY <1>4, <2>2 DEF SerialInv, Concluded, Serial
    <3>2. QED
      BY <1>3, <2>2, <3>1 DEF Concluded, candidateRows
  <2>3. QED
    BY <1>3, <2>1, <2>2
<1>13. ChangeInv'
  BY ChangeInvStep DEF SerialInv
<1>14. QED
  BY <1>10, <1>11, <1>12, <1>13 DEF SerialInv

LEMMA ReplaySerial ==
  ASSUME Serial, SerialInv, NEW w \in Threads, Next, ReplaySucceeds(w) \/ ReplayFails(w)
  PROVE  SerialInv'
<1>1. PICK taken : \E label \in {"rb_read", "rb_failed"} : ReplaysTo(w, taken, label)
  BY DEF ReplaySucceeds, ReplayFails
<1>2. PICK label \in {"rb_read", "rb_failed"} : ReplaysTo(w, taken, label)
  BY <1>1
<1>3. /\ pc[w] = "rb_send" /\ pc[w] \in RollingBack /\ pc[w] \notin Concluding
      /\ label \in RollingBack /\ label \notin Deploying \cup Unsent \cup Concluding
      /\ UNCHANGED <<candidateRows, deployments, archive, sent>>
  BY <1>2 DEF ReplaySucceeds, ReplayFails, ReplaysTo, RollingBack, Deploying, Unsent, Concluding
<1>4. pc'[w] = label /\ job'[w].dep = job[w].dep /\ job'[w].point = job[w].point /\ job'[w].snap = job[w].snap
  <2> DEFINE j == [job[w] EXCEPT !.buf = Unread]
  <2>1. job' = [job EXCEPT ![w] = j] /\ Goto(w, label)
    BY <1>2 DEF ReplaysTo
  <2>2. j.dep = job[w].dep /\ j.point = job[w].point /\ j.snap = job[w].snap
    BY JobsKeep DEF SerialInv
  <2> HIDE DEF j
  <2>3. QED
    BY <2>1, <2>2, ThreadAt DEF SerialInv
<1>5. job[w].snap = 0 /\ job[w].point \in Alive /\ deployments[job[w].dep].pre = job[w].point
  BY <1>3 DEF SerialInv, SerialThread
<1>6. SerialThread(w)'
  BY <1>3, <1>4, <1>5 DEF SerialThread, Alive
<1>7. QED
  BY <1>3, <1>6, LogStays, SerialParts DEF SerialInv, candidateRows

LEMMA SerialInvStep == ASSUME Serial PROVE SerialInv /\ [Next]_vars => SerialInv'
<1> SUFFICES ASSUME SerialInv, [Next]_vars PROVE SerialInv'
  OBVIOUS
<1>1. CASE UNCHANGED vars
  <2>1. \A w \in Threads : SerialThread(w)'
    BY <1>1 DEF SerialInv, SerialThread, Holds, IsSent, Alive, vars, candidateRows
  <2>2. (\A i \in DOMAIN sent : Concluded(sent[i].cand))'
    BY <1>1 DEF SerialInv, Concluded, vars, candidateRows
  <2>3. QED
    BY <1>1, <2>1, <2>2, LogStays, ChangeInvStep DEF SerialInv, vars
<1>2. CASE Next
  <2>1. ASSUME NEW c \in Candidates, NEW a \in Admins, NEW change \in Changes,
               create_candidate(c, a, change)
        PROVE  SerialInv'
    BY <2>1, create_candidateSerial
  <2>2. ASSUME NEW w \in Threads, Arrives(w) PROVE SerialInv'
    BY <1>2, <2>2, ArrivesSerial
  <2>3. ASSUME NEW w \in Threads, Proceed(w) PROVE SerialInv'
    BY <1>2, <2>3, submitSerial, InsertDeploymentSerial, NotRefused, RetrieveSerial, ArchiveSerial,
       RecordPreSerial, SendSerial, FailuresSerial, DeploymentSucceededSerial, ReplaySerial
       DEF Proceed
  <2>4. CASE run_backup
    BY <2>4, run_backupSerial
  <2>5. ~Crash /\ \A i \in Alive : ~delete_configuration(i)
    BY DEF Serial, Crash, delete_configuration
  <2>6. QED
    BY <1>2, <2>1, <2>2, <2>3, <2>4, <2>5 DEF Next
<1>3. QED
  BY <1>1, <1>2

THEOREM SerialInvariant == ASSUME Serial PROVE Spec => []SerialInv
BY SerialInvInit, SerialInvStep, PTL DEF Spec

\* Taken one after the other, no candidate is sent twice, whatever becomes of
\* it (NcmCandidate).
THEOREM SerialSentOnce == ASSUME Serial PROVE Spec => []SentOnce
<1>1. SerialInv => SentOnce
  BY DEF SerialInv, LogInv
<1>2. QED
  BY <1>1, SerialInvariant, PTL

\* Taken one after the other, a candidate is sent on the very configuration
\* its rollback point holds (ncm_deploy, safety rule 2).
THEOREM SerialPointIsFresh == ASSUME Serial PROVE Spec => []PointIsFresh
<1>1. SerialInv => PointIsFresh
  BY DEF SerialInv, LogInv
<1>2. QED
  BY <1>1, SerialInvariant, PTL

LEMMA SerialRestored == ASSUME Serial, SerialInv, NEW w \in Threads, RolledBack(w), NEW i \in DOMAIN sent,
    job[w].dep = sent[i].dep, deployments'[sent[i].dep].told = "restored"
  PROVE device' = sent[i].before
<1> DEFINE d == job[w].dep
           t == IF Matched(w) THEN "restored" ELSE "differs"
           row == [Dep(w) EXCEPT !.status = "rolled_back", !.told = t]
<1>1. /\ pc[w] = "rb_finish" /\ pc[w] \in RollingBack /\ pc[w] \in (Deploying \cup RollingBack) \ {"insert"}
      /\ device' = device
  BY DEF RolledBack, RollingBack, Deploying
<1>2. Dep(w) \in Deployment /\ d \in DOMAIN deployments /\ SerialThread(w)
  BY <1>1, HasRow DEF SerialInv
<1>3. deployments' = [deployments EXCEPT ![d] = row]
  BY <1>2 DEF RolledBack, Dep
<1>4. row.told = t
  BY <1>2 DEF Deployment
<1> HIDE DEF row
<1>5. Matched(w)
  BY <1>2, <1>3, <1>4
<1>6. archive[job[w].point] = device
  BY <1>1, <1>2, <1>5 DEF Matched, SerialThread, Holds
<1>7. deployments[d].pre = job[w].point /\ job[w].point \in Alive
  BY <1>1, <1>2 DEF SerialThread
<1>8. QED
  BY <1>1, <1>6, <1>7 DEF SerialInv, LogInv, PointIsFresh

\* Taken one after the other, a deployment is reported as having changed the device exactly when
\* the backup after it was taken and the device runs something else than before, and nobody is told
\* of a restoration that did not restore it (deploy_candidate, rollback_deployment).  A deployment
\* whose backup failed is reported as unchanged, whatever the device took.
THEOREM SerialReportsAreTrue == ASSUME Serial PROVE Spec => ReportsAreTrue
<1> DEFINE Told == \A w \in Threads, i \in DOMAIN sent :
             LET d == sent[i].dep IN
             RolledBack(w) /\ job[w].dep = d /\ deployments'[d].told = "restored" => device' = sent[i].before
<1>1. SerialInv => VerifiedMeansChanged
  BY DEF SerialInv, LogInv
<1>2. SerialInv => Told
  BY SerialRestored
<1> HIDE DEF Told
<1>3. SerialInv /\ [Next]_vars => [Told]_vars
  BY <1>2
<1>4. Spec => [][Told]_vars
  BY <1>3, SerialInvariant, PTL DEF Spec
<1>5. Spec => []VerifiedMeansChanged
  BY <1>1, SerialInvariant, PTL
<1>6. QED
  BY <1>4, <1>5, PTL DEF ReportsAreTrue, RestoredIsRestored, Told

-----------------------------------------------------------------------------
(* The refinement of ChangeControl: each step is one of its steps, or      *)
(* leaves candidates and what was sent as they are.                        *)

ControlKeeps == UNCHANGED <<status, author, approver, sent>>

LEMMA ControlStutters ==
  ASSUME ControlKeeps
  PROVE  UNCHANGED Control!vars
BY DEF ControlKeeps, Control!vars

LEMMA create_candidateControl ==
  ASSUME ChangeInv, NEW c \in Candidates, NEW a \in Admins, NEW change \in Changes,
         create_candidate(c, a, change)
  PROVE  Control!Propose(c)
BY DEF create_candidate, Control!Propose

LEMMA submit_commitControl ==
  ASSUME SerialInv, NEW w \in Threads, submit_commit(w)
  PROVE  \E c \in Candidates : Control!Submit(c)
<1>1. job[w].cand \in Candidates /\ status[job[w].cand] = "draft"
  BY DEF submit_commit, SerialInv, SerialThread, ChangeInv, ThreadInv
<1>2. Control!Submit(job[w].cand)
  BY <1>1 DEF submit_commit, Control!Submit
<1>3. QED
  BY <1>1, <1>2

LEMMA review_commitControl ==
  ASSUME SerialInv, NEW w \in Threads, review_commit(w)
  PROVE  \E c \in Candidates : Control!Approve(c) \/ Control!Reject(c)
<1>1. /\ job[w].cand \in Candidates /\ status[job[w].cand] = "pending_approval"
      /\ job[w].to \in {"approved", "rejected"}
      /\ job[w].to = "approved" => job[w].who \in Admins \ {author[job[w].cand]}
  BY DEF review_commit, SerialInv, SerialThread, ChangeInv, ThreadInv
<1>2. CASE job[w].to = "approved"
  BY <1>1, <1>2 DEF review_commit, Control!Approve
<1>3. CASE job[w].to = "rejected"
  BY <1>1, <1>3 DEF review_commit, Control!Reject
<1>4. QED
  BY <1>1, <1>2, <1>3

LEMMA SendControl ==
  ASSUME SerialInv, NEW w \in Threads, SendSucceeds(w) \/ SendFails(w)
  PROVE  \E c \in Candidates : Control!Send(c)
<1> DEFINE c == job[w].cand
           n == Len(sent) + 1
<1>1. PICK taken : \E label \in {"post_read", "send_failed"} : Delivers(w, taken, label)
  BY SendsDeliver DEF SerialInv
<1>2. PICK label \in {"post_read", "send_failed"} : Delivers(w, taken, label)
  BY <1>1
<1>3. /\ DOMAIN sent' = DOMAIN sent \cup {n} /\ sent'[n].cand = c
      /\ \A i \in DOMAIN sent : sent'[i] = sent[i]
      /\ n \notin DOMAIN sent /\ UNCHANGED candidateRows
  BY <1>2 DEF Delivers
<1> HIDE DEF n
<1>4. pc[w] \in Unsent /\ pc[w] \in Deploying
  BY DEF SendSucceeds, SendFails, Unsent, Deploying
<1>5. c \in Candidates /\ status[c] = "approved" /\ ~IsSent(c)
  BY <1>4 DEF SerialInv, SerialThread, ChangeInv, ThreadInv
<1>6. {sent'[i].cand : i \in DOMAIN sent'} = {sent[i].cand : i \in DOMAIN sent} \cup {c}
  BY <1>3
<1>7. c \notin {sent[i].cand : i \in DOMAIN sent}
  BY <1>5 DEF IsSent
<1>8. Control!Send(c)
  BY <1>3, <1>5, <1>6, <1>7 DEF Control!Send, candidateRows
<1>9. QED
  BY <1>5, <1>8 DEF Control!Send

LEMMA ConcludeControl ==
  ASSUME SerialInv, NEW w \in Threads, DeploymentFailed(w) \/ DeploymentSucceeded(w)
  PROVE  \E c \in Candidates : Control!Conclude(c)
<1> DEFINE c == job[w].cand
<1>1. pc[w] \in Concluding /\ pc[w] \in Deploying
  BY DEF DeploymentFailed, DeploymentSucceeded, Concluding, Deploying
<1>2. c \in Candidates /\ status[c] = "approved" /\ IsSent(c)
  BY <1>1 DEF SerialInv, SerialThread, ChangeInv, ThreadInv, IsSent
<1>3. c \in {sent[i].cand : i \in DOMAIN sent}
  BY <1>2 DEF IsSent
<1>4. Control!Conclude(c)
  BY <1>2, <1>3 DEF DeploymentFailed, MarkFailed, DeploymentSucceeded, Control!Conclude
<1>5. QED
  BY <1>2, <1>4

LEMMA ConnectFailsControl ==
  ASSUME SerialInv, NEW w \in Threads, ConnectFails(w)
  PROVE  \E c \in Candidates : Control!GiveUp(c)
<1> DEFINE c == job[w].cand
<1>1. pc[w] \in Unsent /\ pc[w] \in Deploying
  BY DEF ConnectFails, Unsent, Deploying
<1>2. c \in Candidates /\ status[c] = "approved" /\ ~IsSent(c)
  BY <1>1 DEF SerialInv, SerialThread, ChangeInv, ThreadInv
<1>3. c \notin {sent[i].cand : i \in DOMAIN sent}
  BY <1>2 DEF IsSent
<1>4. Control!GiveUp(c)
  BY <1>2, <1>3 DEF ConnectFails, MarkFailed, Control!GiveUp
<1>5. QED
  BY <1>2, <1>4

LEMMA ControlStep == ASSUME Serial PROVE SerialInv /\ [Next]_vars => [Control!Next]_(Control!vars)
<1> SUFFICES ASSUME SerialInv, [Next]_vars
             PROVE  Control!Next \/ UNCHANGED Control!vars
  OBVIOUS
<1> USE DEF Control!Next
<1>1. CASE UNCHANGED vars
  BY <1>1, ControlStutters DEF vars, candidateRows, ControlKeeps
<1>2. ASSUME NEW c \in Candidates, NEW a \in Admins, NEW change \in Changes,
             create_candidate(c, a, change)
      PROVE  Control!Next
  BY <1>2, create_candidateControl DEF SerialInv
<1>3. ASSUME NEW w \in Threads, Arrives(w) PROVE ControlKeeps
  BY <1>3 DEF Arrives, submit_candidate, review_candidate, deploy_candidate, rollback_deployment,
              candidateRows, ControlKeeps
<1>4. ASSUME NEW w \in Threads, Proceed(w) PROVE Control!Next \/ ControlKeeps
  <2>1. CASE submit_commit(w) \/ review_commit(w)
    BY <2>1, submit_commitControl, review_commitControl
  <2>2. CASE SendSucceeds(w) \/ SendFails(w)
    BY <2>2, SendControl
  <2>3. CASE DeploymentFailed(w) \/ DeploymentSucceeded(w)
    BY <2>3, ConcludeControl
  <2>8. CASE ConnectFails(w)
    BY <2>8, ConnectFailsControl
  <2>4. CASE \/ InsertDeployment(w) \/ NumberTaken(w) \/ PreBackupFails(w) \/ RecordPre(w)
             \/ SnapshotGone(w) \/ RollbackFailed(w) \/ RolledBack(w)
             \/ PostBackupFails(w) \/ AfterBackupFails(w)
    BY <2>4 DEF InsertDeployment, NumberTaken, PreBackupFails, RecordPre, SnapshotGone, RollbackFailed,
                RolledBack, PostBackupFails, AfterBackupFails, candidateRows, ControlKeeps
  <2>5. CASE PreBackup(w) \/ PostBackup(w) \/ AfterBackup(w) \/ ArchivePre(w) \/ ArchivePost(w) \/ ArchiveAfter(w)
    BY <2>5 DEF PreBackup, PostBackup, AfterBackup, Retrieve, ArchivePre, ArchivePost, ArchiveAfter,
                ArchiveAs, candidateRows, ControlKeeps
  <2>6. CASE ReplaySucceeds(w) \/ ReplayFails(w)
    BY <2>6 DEF ReplaySucceeds, ReplayFails, ReplaysTo, candidateRows, ControlKeeps
  <2>7. QED
    BY <1>4, <2>1, <2>2, <2>3, <2>4, <2>5, <2>6, <2>8 DEF Proceed
<1>5. ASSUME run_backup PROVE ControlKeeps
  BY <1>5 DEF run_backup, candidateRows, ControlKeeps
<1>6. ~Crash /\ \A i \in Alive : ~delete_configuration(i)
  BY DEF Serial, Crash, delete_configuration
<1>7. QED
  BY <1>1, <1>2, <1>3, <1>4, <1>5, <1>6, ControlStutters DEF Next

\* Taken one after the other, the requests implement change control: somebody
\* else approves, only then and once the device is sent the commands, and
\* what came of it is final.
THEOREM SerialImplementsControl == ASSUME Serial PROVE Spec => ImplementsControl
<1>1. Init => Control!Init
  BY DEF Init, Control!Init
<1>2. QED
  BY <1>1, ControlStep, SerialInvariant, PTL DEF Spec, ImplementsControl, Control!Spec
=============================================================================
