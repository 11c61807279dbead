----------------------------- MODULE Snapshots -----------------------------
(* Statistics on their way from the DVP interrupt to the network core, through *)
(* two sequence locks, one inside the other.                                   *)
(*                                                                             *)
(*   interrupt  --stats_sequence-->  capture core  --snapshot_sequence-->  V3F *)
(*                                                                             *)
(* The interrupt changes source_stats while the main program of its own core   *)
(* may be copying them (t384_frame_source_get_stats, retried for ever);        *)
(* publish_snapshot makes that copy straight into the shared block, with the   *)
(* status of the module files behind it, under a second counter; the other     *)
(* core copies the block out (read_snapshot, given up after sixteen attempts,  *)
(* when the last good copy stays) in every loop and after each answered        *)
(* request.  The capture core publishes at least every 10 ms, and before it    *)
(* acknowledges a request.                                                     *)
(*                                                                             *)
(* A field holds the number of the interrupt that wrote it, the file status    *)
(* the number of times it changed.  The counters do not wrap here: in the code *)
(* they would need 2^31 publications, at most 100 a second and one a request,  *)
(* between two attempts of one reader.  Assumed of time: a core that spins on  *)
(* the acknowledgement has seen it and made its copy within 10 ms.             *)
EXTENDS Integers, Sequences, FiniteSets

CONSTANTS Fields,        \* the fields of t384_frame_source_stats_t
          MaxAttempts,   \* attempts of read_snapshot: 16 in the code
          MaxInterrupts, MaxFileChanges, MaxPublications, MaxRequests   \* bounds

ASSUME FieldsAssumption == IsFiniteSet(Fields) /\ Fields # {}
ASSUME BoundsAssumption ==
    /\ MaxAttempts \in Nat \ {0}
    /\ MaxInterrupts \in Nat /\ MaxFileChanges \in Nat
    /\ MaxPublications \in Nat /\ MaxRequests \in Nat

VARIABLES
    source, statsSequence, file,        \* capture core's own: source_stats, file status
    shared, sharedFile, sharedSequence, \* the block both cores see
    request, acknowledged,              \* rpc_request, rpc_ack
    due,                                \* 10 ms have passed since snapshot_ms
    capture,                            \* where the capture core's main program is
    network,                            \* where the network core is
    snapshot, snapshotFile, cachedSequence, \* source_snapshot, file_snapshot, ...
    \* auxiliary: every snapshot published so far, oldest first, and the version
    \* of the status the latest request produced
    published, effect

captureState == <<source, statsSequence, file>>
block == <<shared, sharedFile, sharedSequence>>
mailbox == <<request, acknowledged>>
cache == <<snapshot, snapshotFile, cachedSequence>>
history == <<published, effect>>
snapshotVars == <<captureState, block, mailbox, due, capture, network, cache, history>>

Blank == [f \in Fields |-> 0]
NeverRead == -1                          \* cached_snapshot_sequence starts as UINT32_MAX
IsOdd(n) == n % 2 = 1

DataTypeOK ==
    /\ source \in [Fields -> Nat] /\ statsSequence \in Nat /\ file \in Nat
    /\ shared \in [Fields -> Nat] /\ sharedFile \in Nat /\ sharedSequence \in Nat
    /\ request \in Nat /\ acknowledged \in Nat /\ due \in BOOLEAN
    /\ snapshot \in [Fields -> Nat] /\ snapshotFile \in Nat
    /\ cachedSequence \in Nat \cup {NeverRead} /\ effect \in Nat

CaptureTypeOK ==
    capture \in [at : {"loop", "try", "copy", "file", "end", "ack"},
                 left : SUBSET Fields, before : Nat, answering : BOOLEAN]

NetworkTypeOK ==
    network \in [at : {"loop", "spin", "try", "copy", "check"}, answered : BOOLEAN,
                 left : SUBSET Fields, before : Nat, attempt : 0..MaxAttempts,
                 copy : [Fields -> Nat], copyFile : Nat]

HistoryTypeOK == published \in Seq([source : [Fields -> Nat], file : Nat])

SnapshotTypeOK == DataTypeOK /\ CaptureTypeOK /\ NetworkTypeOK /\ HistoryTypeOK

SnapshotInit ==
    /\ source = Blank /\ statsSequence = 0 /\ file = 0
    /\ shared = Blank /\ sharedFile = 0 /\ sharedSequence = 0
    /\ request = 0 /\ acknowledged = 0 /\ due = TRUE
    /\ capture = [at |-> "loop", left |-> {}, before |-> 0, answering |-> FALSE]
    /\ network = [at |-> "loop", answered |-> FALSE, left |-> {}, before |-> 0,
                  attempt |-> 0, copy |-> Blank, copyFile |-> 0]
    /\ snapshot = Blank /\ snapshotFile = 0 /\ cachedSequence = NeverRead
    /\ published = <<>> /\ effect = 0

-----------------------------------------------------------------------------
(* The capture core.                                                           *)

\* One interrupt, whole as its core's main program sees it, between its own
\* stats_begin and stats_end.
Interrupt ==
    /\ statsSequence < 2 * MaxInterrupts
    /\ source' = [f \in Fields |-> source[f] + 1]
    /\ statsSequence' = statsSequence + 2
    /\ UNCHANGED <<file, block, mailbox, due, capture, network, cache, history>>

\* The file service moves on by itself (t384_module_files_task).
FileTask ==
    /\ capture.at = "loop" /\ file < MaxFileChanges
    /\ file' = file + 1
    /\ UNCHANGED <<source, statsSequence, block, mailbox, due, capture, network,
                   cache, history>>

\* publish_snapshot opens the counter.
PublishBegin(answering) ==
    /\ Len(published) < MaxPublications
    /\ sharedSequence' = sharedSequence + 1
    /\ capture' = [capture EXCEPT !.at = "try", !.answering = answering]
    /\ UNCHANGED <<source, statsSequence, shared, sharedFile, mailbox, network,
                   cache, published>>

\* A request not acknowledged yet is carried out, which changes the status,
\* and published before the acknowledgement.
Answer ==
    /\ capture.at = "loop" /\ request # acknowledged
    /\ file' = file + 1 /\ effect' = file' /\ UNCHANGED due
    /\ PublishBegin(TRUE)

PublishPeriodic ==
    /\ capture.at = "loop" /\ due
    /\ due' = FALSE /\ UNCHANGED <<file, effect>>
    /\ PublishBegin(FALSE)

\* get_stats: take the counter; an odd one is not copied under.
StatsTry ==
    /\ capture.at = "try" /\ ~IsOdd(statsSequence)
    /\ capture' = [capture EXCEPT !.at = "copy", !.before = statsSequence, !.left = Fields]
    /\ UNCHANGED <<captureState, block, mailbox, due, network, cache, history>>

StatsCopy(f) ==
    /\ capture.at = "copy" /\ f \in capture.left
    /\ shared' = [shared EXCEPT ![f] = source[f]]
    /\ capture' = [capture EXCEPT !.left = @ \ {f}]
    /\ UNCHANGED <<captureState, sharedFile, sharedSequence, mailbox, due, network,
                   cache, history>>

\* Mutant: one copy, whatever the interrupt did meanwhile.
StatsCheck_Once ==
    /\ capture.at = "copy" /\ capture.left = {}
    /\ capture' = [capture EXCEPT !.at = "file"]
    /\ UNCHANGED <<captureState, block, mailbox, due, network, cache, history>>

\* get_stats again until the counter has not moved.
StatsCheck ==
    /\ capture.at = "copy" /\ capture.left = {}
    /\ capture' = [capture EXCEPT
                      !.at = IF statsSequence = capture.before THEN "file" ELSE "try"]
    /\ UNCHANGED <<captureState, block, mailbox, due, network, cache, history>>

PublishFile ==
    /\ capture.at = "file"
    /\ sharedFile' = file
    /\ capture' = [capture EXCEPT !.at = "end"]
    /\ UNCHANGED <<captureState, shared, sharedSequence, mailbox, due, network,
                   cache, history>>

PublishEnd ==
    /\ capture.at = "end"
    /\ sharedSequence' = sharedSequence + 1
    /\ published' = Append(published, [source |-> shared, file |-> sharedFile])
    /\ capture' = [capture EXCEPT !.at = IF capture.answering THEN "ack" ELSE "loop"]
    /\ UNCHANGED <<captureState, shared, sharedFile, mailbox, due, network, cache, effect>>

\* snapshot_ms is the time after the publication, just before the acknowledgement.
Acknowledge ==
    /\ capture.at = "ack"
    /\ acknowledged' = request /\ due' = FALSE
    /\ capture' = [capture EXCEPT !.at = "loop", !.answering = FALSE]
    /\ UNCHANGED <<captureState, block, request, network, cache, history>>

-----------------------------------------------------------------------------
(* The network core.                                                           *)

\* request: refused while an earlier one is unanswered.
Ask ==
    /\ network.at = "loop" /\ request = acknowledged /\ request < MaxRequests
    /\ request' = request + 1
    /\ network' = [network EXCEPT !.at = "spin", !.answered = FALSE]
    /\ UNCHANGED <<captureState, block, acknowledged, due, capture, cache, history>>

\* Mutant: the answer is taken without a fresh snapshot.
SeeAck_Trusting ==
    /\ network.at = "spin" /\ acknowledged = request
    /\ network' = [network EXCEPT !.at = "loop", !.answered = TRUE]
    /\ UNCHANGED <<captureState, block, mailbox, due, capture, cache, history>>

SeeAck ==
    /\ network.at = "spin" /\ acknowledged = request
    /\ network' = [network EXCEPT !.at = "try", !.attempt = 0, !.answered = TRUE]
    /\ UNCHANGED <<captureState, block, mailbox, due, capture, cache, history>>

\* A hundred milliseconds without an answer: request returns -3, and reads
\* nothing.
TimeOut ==
    /\ network.at = "spin" /\ acknowledged # request
    /\ network' = [network EXCEPT !.at = "loop"]
    /\ UNCHANGED <<captureState, block, mailbox, due, capture, cache, history>>

\* read_snapshot from the loop, or from any of the getters.
StartRead ==
    /\ network.at = "loop"
    /\ network' = [network EXCEPT !.at = "try", !.attempt = 0, !.answered = FALSE]
    /\ UNCHANGED <<captureState, block, mailbox, due, capture, cache, history>>

\* Mutant: an odd counter is copied under.
ReadTry_Odd ==
    /\ network.at = "try" /\ network.attempt < MaxAttempts
    /\ network' =
         IF sharedSequence = cachedSequence THEN [network EXCEPT !.at = "loop"]
         ELSE [network EXCEPT !.at = "copy", !.before = sharedSequence,
                              !.left = Fields]
    /\ UNCHANGED <<captureState, block, mailbox, due, capture, cache, history>>

\* Mutant: the attempts are not counted against their limit.
ReadTry_Endless ==
    /\ network.at = "try"
    /\ network' =
         IF IsOdd(sharedSequence) THEN [network EXCEPT !.attempt = @ + 1]
         ELSE IF sharedSequence = cachedSequence THEN [network EXCEPT !.at = "loop"]
         ELSE [network EXCEPT !.at = "copy", !.before = sharedSequence,
                              !.left = Fields]
    /\ UNCHANGED <<captureState, block, mailbox, due, capture, cache, history>>

\* One attempt begins with the counter: odd is an attempt lost, the one already
\* cached is an early return, any other is copied.
ReadTry ==
    /\ network.at = "try" /\ network.attempt < MaxAttempts
    /\ network' =
         IF IsOdd(sharedSequence) THEN [network EXCEPT !.attempt = @ + 1]
         ELSE IF sharedSequence = cachedSequence THEN [network EXCEPT !.at = "loop"]
         ELSE [network EXCEPT !.at = "copy", !.before = sharedSequence,
                              !.left = Fields]
    /\ UNCHANGED <<captureState, block, mailbox, due, capture, cache, history>>

ReadCopy(f) ==
    /\ network.at = "copy" /\ f \in network.left
    /\ network' = [network EXCEPT !.copy[f] = shared[f], !.left = @ \ {f}]
    /\ UNCHANGED <<captureState, block, mailbox, due, capture, cache, history>>

\* The file status after the statistics.
ReadFile ==
    /\ network.at = "copy" /\ network.left = {}
    /\ network' = [network EXCEPT !.copyFile = sharedFile, !.at = "check"]
    /\ UNCHANGED <<captureState, block, mailbox, due, capture, cache, history>>

\* The counter has not moved: the copy becomes the snapshot.
ReadKeep ==
    /\ network.at = "check" /\ network.before = sharedSequence
    /\ snapshot' = network.copy /\ snapshotFile' = network.copyFile
    /\ cachedSequence' = network.before
    /\ network' = [network EXCEPT !.at = "loop"]
    /\ UNCHANGED <<captureState, block, mailbox, due, capture, history>>

ReadAgain ==
    /\ network.at = "check" /\ network.before # sharedSequence
    /\ network' = [network EXCEPT !.at = "try", !.attempt = @ + 1]
    /\ UNCHANGED <<captureState, block, mailbox, due, capture, cache, history>>

\* All the attempts are used up: the old snapshot stays.
GiveUp ==
    /\ network.at = "try" /\ network.attempt = MaxAttempts
    /\ network' = [network EXCEPT !.at = "loop"]
    /\ UNCHANGED <<captureState, block, mailbox, due, capture, cache, history>>

-----------------------------------------------------------------------------
\* The copy made for an answer is under way, or about to be.
AnswerInHand ==
    \/ network.at = "spin" /\ acknowledged = request
    \/ network.at \in {"try", "copy", "check"} /\ network.answered

\* Ten milliseconds pass.
Tick ==
    /\ ~due /\ ~AnswerInHand
    /\ due' = TRUE
    /\ UNCHANGED <<captureState, block, mailbox, capture, network, cache, history>>

CaptureNext ==
    \/ FileTask \/ Answer \/ PublishPeriodic \/ StatsTry \/ StatsCheck
    \/ (\E f \in Fields : StatsCopy(f))
    \/ PublishFile \/ PublishEnd \/ Acknowledge

NetworkNext ==
    \/ Ask \/ SeeAck \/ TimeOut \/ StartRead \/ ReadTry
    \/ (\E f \in Fields : ReadCopy(f))
    \/ ReadFile \/ ReadKeep \/ ReadAgain \/ GiveUp

SnapshotNext == Interrupt \/ Tick \/ CaptureNext \/ NetworkNext

SnapshotSpec == SnapshotInit /\ [][SnapshotNext]_snapshotVars

-----------------------------------------------------------------------------
(* Properties.                                                                 *)

Whole(stats) == \A f, g \in Fields : stats[f] = stats[g]

\* What the capture core publishes is a state the interrupt left behind, never
\* one it was in the middle of changing while the main program was copying.
PublishedIsWhole == \A n \in 1..Len(published) : Whole(published[n].source)

\* What the network core acts on is one publication: its statistics and its
\* file status were published together, however its copy and the capture
\* core's writes fell between each other.
SnapshotIsPublished ==
    cachedSequence # NeverRead =>
        \/ cachedSequence = 0 /\ snapshot = Blank /\ snapshotFile = 0
        \/ /\ cachedSequence \div 2 \in 1..Len(published)
           /\ published[cachedSequence \div 2]
                = [source |-> snapshot, file |-> snapshotFile]

\* A caller whose request was answered decides, when its copy has been made, on
\* a status that has the effect of its own request in it.
AnsweredSeesEffect ==
    (network.at = "loop" /\ network.answered) => snapshotFile >= effect
=============================================================================
