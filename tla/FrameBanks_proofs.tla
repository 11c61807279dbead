-------------------------- MODULE FrameBanks_proofs --------------------------
(***************************************************************************)
(* Proofs about the frame banks, for every number of banks, frame length   *)
(* and width of the sequence numbers.                                      *)
(*                                                                         *)
(* Why a lent chunk stays intact: the read lease has one holder, only the  *)
(* holder moves a bank to READING and from it, at most one bank is READING *)
(* and it is the consumer's, and the producer and the scratch take FREE    *)
(* banks only.  Why a published bank is whole: what precedes the write     *)
(* offset of the bank being filled has been copied.  Why the banks are a   *)
(* queue: the published banks, in the order of their publication, are      *)
(* sorted by the age of their frames, and a scan that meets at most one    *)
(* new frame selects the first of them.                                    *)
(***************************************************************************)
EXTENDS FrameBanks, FiniteSetTheorems, SequenceTheorems, TLAPS

InLease(c) ==
  pc[c] \in {"select", "scan", "take", "lease", "release_bank", "release_lease"}

LeaseInv ==
  \A c \in Actors : InLease(c) =>
    read_leased /\ \A d \in Actors \ {c} : ~InLease(d)

\* What the holder of the lease relies on at each of its steps.
ReaderInv ==
  \A c \in Actors :
    /\ view[c] # None => pc[c] = "lease"
    /\ pc[c] = "lease" =>
         /\ view[c] = ViewOf(consumer_bank)
         /\ state[consumer_bank] = "READING" /\ read_offset[consumer_bank] < F
    /\ pc[c] = "release_bank" => state[consumer_bank] = "READING"
    /\ pc[c] \in {"scan", "take"} => \A b \in Banks : state[b] # "READING"
    /\ selected[c] # None =>
         pc[c] \in {"scan", "take"} /\ state[selected[c]] = "READY"

ReadBanksInv ==
  \A b \in Banks :
    /\ state[b] = "READING" =>
         /\ b = consumer_bank
         /\ read_offset[b] < F \/ \E c \in Actors : pc[c] = "release_bank"
    /\ state[b] \in {"FILLING", "READY"} => read_offset[b] = 0

\* What has been copied of the bank being filled, and of a published one.
WrittenInv ==
  \A b \in Banks :
    /\ state[b] = "FILLING" =>
         /\ b = producer_bank /\ pc["source"] # "begin"
         /\ \A o \in Offsets : o < write_offset[b] => o \in copied[b]
    /\ write_leased[b] => write_offset[b] < F
    /\ state[b] \in {"READY", "READING"} => copied[b] = Offsets

\* Which banks the scratch has at each step of the pause.
ScratchInv ==
  \A b \in Banks :
    state[b] = "SCRATCH" <=>
      \/ pc["source"] \in {"scratch", "rollback"} /\ b < index["source"]
      \/ pc["source"] = "held"
      \/ pc["source"] = "resume" /\ b >= index["source"]

\* A loop over the banks starts at the first, and the drain has not run out
\* while it peeks.
LoopInv ==
  /\ \A c \in Actors :
       pc[c] \notin {"begin", "scan", "scratch", "rollback", "resume"} => index[c] = 0
  /\ pc["source"] = "peek" \/ InLease("source") => drained < B * F

IInv ==
  /\ BankTypeOK /\ ActorTypeOK
  /\ LeaseInv /\ ReaderInv /\ ReadBanksInv /\ WrittenInv /\ ScratchInv /\ LoopInv
-----------------------------------------------------------------------------
(* The steps: one lemma for each part of the invariant, one step for each      *)
(* action.                                                                     *)


LEMMA ActorFacts == "source" \in Actors /\ "http" \in Actors /\ "source" # "http"
BY DEF Actors

LEMMA BankFacts ==
  /\ B \in Nat \ {0} /\ F \in Nat \ {0} /\ 0 \in Banks /\ B * F \in Nat \ {0}
  /\ \A i \in Banks : i \in Nat /\ i < B /\ (i + 1 # B => i + 1 \in Banks)
                   /\ (i # 0 => i - 1 \in Banks)
<1>1. B \in Nat \ {0} /\ F \in Nat \ {0} BY BankAssumption
<1>2. B * F \in Nat \ {0} BY <1>1
<1> QED BY <1>1, <1>2 DEF Banks

LEMMA OffsetFacts ==
  /\ 0 \in 0 .. F
  /\ \A o \in 0 .. F : o \in Nat /\ (o < F => o \in Offsets /\ o + 1 \in 0 .. F)
BY BankAssumption DEF Offsets

LEMMA IncrFact == \A x \in Words : Incr(x) \in Words
BY BankAssumption DEF Words, Incr

LEMMA ViewFact ==
  ASSUME BankTypeOK, NEW b \in Banks, read_offset[b] < F
  PROVE  ViewOf(b) \in Views
<1>1. frame_sequence[b] \in Words /\ read_offset[b] \in Offsets
  BY OffsetFacts DEF BankTypeOK
<1> QED BY <1>1 DEF ViewOf, Views

\* The pause enters its loop over the banks at the first of them.
LEMMA NoneBeforeFirst == \A b \in Banks : ~(b < 0)
BY BankFacts

LEMMA BankTypeOKStep ==
  ASSUME BankTypeOK, ActorTypeOK, ReaderInv, WrittenInv, [Next]_vars
  PROVE  BankTypeOK'
<1> USE ActorFacts
    DEF bankVars, readVars, callVars, BankTypeOK
<1>1. CASE abort_frame
  <2>1. CASE state[producer_bank] = "FILLING" BY <1>1, OffsetFacts, <2>1 DEF abort_frame, AbortEffect, SetState
  <2>2. CASE ~(state[producer_bank] = "FILLING") BY <1>1, OffsetFacts, <2>2 DEF abort_frame, AbortEffect, SetState
  <2> QED BY <2>1, <2>2
<1>2. CASE begin_try
  <2> DEFINE b == index["source"]
  <2>0. b \in Banks BY DEF ActorTypeOK
  <2>1. CASE CanFill(b)
    <3>1. 0 \in 0 .. F /\ {} \in SUBSET Offsets BY OffsetFacts
    <3>2. /\ state' = [state EXCEPT ![b] = "FILLING"] /\ producer_bank' = b
          /\ frame_sequence' = [frame_sequence EXCEPT ![b] = sequence]
          /\ write_offset' = [write_offset EXCEPT ![b] = 0]
          /\ read_offset' = [read_offset EXCEPT ![b] = 0]
          /\ write_leased' = [write_leased EXCEPT ![b] = FALSE]
          /\ copied' = [copied EXCEPT ![b] = {}]
          /\ UNCHANGED <<sequence, consumer_bank, read_leased>>
      BY <1>2, <2>1 DEF begin_try, SetState
    <3> HIDE DEF b
    <3> QED BY <2>0, <3>1, <3>2
  <2>2. CASE ~CanFill(b) BY <1>2, <2>2 DEF begin_try
  <2> QED BY <2>1, <2>2
<1>3. CASE acquire_write
  <2> DEFINE b == producer_bank
             Can == state[b] = "FILLING" /\ ~write_leased[b] /\ write_offset[b] < F
  <2>1. CASE Can BY <1>3, OffsetFacts, <2>1 DEF acquire_write
  <2>2. CASE ~Can /\ state[b] = "FILLING"
    BY <1>3, OffsetFacts, <2>2 DEF acquire_write, AbortEffect, SetState
  <2>3. CASE ~Can /\ state[b] # "FILLING"
    BY <1>3, OffsetFacts, <2>3 DEF acquire_write, AbortEffect, SetState
  <2> QED BY <2>1, <2>2, <2>3
<1>4. CASE copy_dma_block
  <2>1. write_offset[producer_bank] \in Offsets
    BY <1>4, OffsetFacts DEF copy_dma_block, WrittenInv
  <2>2. copied[producer_bank] \cup {write_offset[producer_bank]} \in SUBSET Offsets
    BY <2>1
  <2> QED BY <1>4, <2>2 DEF copy_dma_block
<1>5. ASSUME NEW bad \in BOOLEAN, begin_frame(bad) PROVE BankTypeOK'
  <2>1. sequence' \in Words BY <1>5, IncrFact DEF begin_frame
  <2>2. CASE state[producer_bank] = "FILLING"
    BY ZenonT(60), <1>5, <2>1, <2>2, OffsetFacts DEF begin_frame, AbortEffect, SetState
  <2>3. CASE state[producer_bank] # "FILLING"
    BY <1>5, <2>1, <2>3 DEF begin_frame, AbortEffect
  <2> QED BY <2>2, <2>3
<1>6. ASSUME NEW bad \in BOOLEAN, NEW end \in BOOLEAN, commit_write(bad, end) PROVE BankTypeOK'
  <2> DEFINE b == producer_bank
             Can == /\ ~bad /\ state[b] = "FILLING" /\ write_leased[b]
                    /\ end = (write_offset[b] + 1 = F)
  <2>1. CASE Can
    <3>1. write_offset[b] + 1 \in 0 .. F BY <2>1, OffsetFacts DEF WrittenInv
    <3>2. CASE end BY <1>6, <2>1, <3>1, <3>2 DEF commit_write, SetState
    <3>3. CASE ~end BY <1>6, <2>1, <3>1, <3>3 DEF commit_write
    <3> QED BY <3>2, <3>3
  <2>2. CASE ~Can /\ state[b] = "FILLING"
    BY <1>6, <2>2, OffsetFacts DEF commit_write, AbortEffect, SetState
  <2>3. CASE ~Can /\ state[b] # "FILLING"
    BY <1>6, <2>3 DEF commit_write, AbortEffect
  <2> QED BY <2>1, <2>2, <2>3
<1>7. CASE pause
  <2>1. CASE state[producer_bank] = "FILLING" BY <1>7, OffsetFacts, <2>1 DEF pause, AbortEffect, SetState, Goto
  <2>2. CASE ~(state[producer_bank] = "FILLING") BY <1>7, OffsetFacts, <2>2 DEF pause, AbortEffect, SetState, Goto
  <2> QED BY <2>1, <2>2
<1>8. CASE scratch_acquire
  <2> DEFINE b == index["source"]
  <2>0. b \in Banks BY DEF ActorTypeOK
  <2>1. CASE CanBorrow(b) /\ b + 1 = B
    BY <1>8, <2>0, BankFacts, <2>1 DEF scratch_acquire, SetState, Turn, Goto, CanBorrow
  <2>2. CASE CanBorrow(b) /\ b + 1 # B
    BY <1>8, <2>0, BankFacts, <2>2 DEF scratch_acquire, SetState, Turn, Goto, CanBorrow
  <2>3. CASE ~CanBorrow(b) BY <1>8, <2>0, BankFacts, <2>3 DEF scratch_acquire, Goto, CanBorrow
  <2> QED BY <2>1, <2>2, <2>3
<1>9. CASE rollback
  <2> DEFINE i == index["source"]
  <2>0. i \in Banks BY DEF ActorTypeOK
  <2>1. CASE i = 0 BY <1>9, <2>0, BankFacts, <2>1 DEF rollback, Goto
  <2>2. CASE i # 0 BY <1>9, <2>0, BankFacts, <2>2 DEF rollback, SetState, Taken
  <2> QED BY <2>1, <2>2
<1>10. CASE resume BY <1>10 DEF resume, Goto
<1>11. CASE scratch_release
  <2> DEFINE b == index["source"]
  <2>0. b \in Banks BY DEF ActorTypeOK
  <2>1. CASE state[b] = "SCRATCH" /\ b + 1 = B
    BY <1>11, <2>0, BankFacts, <2>1 DEF scratch_release, SetState, Turn, Goto
  <2>2. CASE state[b] = "SCRATCH" /\ b + 1 # B
    BY <1>11, <2>0, BankFacts, <2>2 DEF scratch_release, SetState, Turn, Goto
  <2>3. CASE state[b] # "SCRATCH" /\ b + 1 = B
    BY <1>11, <2>0, BankFacts, <2>3 DEF scratch_release, Turn, Goto
  <2>4. CASE state[b] # "SCRATCH" /\ b + 1 # B
    BY <1>11, <2>0, BankFacts, <2>4 DEF scratch_release, Turn, Goto
  <2> QED BY <2>1, <2>2, <2>3, <2>4
<1>12. ASSUME NEW b \in Banks, scratch_write(b) PROVE BankTypeOK'
  BY <1>12 DEF scratch_write
<1>13. ASSUME NEW c \in Actors, peek_cas(c) PROVE BankTypeOK'
  <2>1. CASE read_leased BY <1>13, <2>1 DEF peek_cas, Goto, LeaseTaken, AfterMiss
  <2>2. CASE ~read_leased BY <1>13, <2>2 DEF peek_cas, Goto, LeaseTaken
  <2> QED BY <2>1, <2>2
<1>14. ASSUME NEW c \in Actors, peek_select(c) PROVE BankTypeOK'
  <2>1. CASE state[consumer_bank] = "READING" BY <1>14, <2>1 DEF peek_select, Goto
  <2>2. CASE state[consumer_bank] # "READING" BY <1>14, <2>2 DEF peek_select, Goto
  <2> QED BY <2>1, <2>2
<1>15. ASSUME NEW c \in Actors, peek_scan(c) PROVE BankTypeOK'
  <2>0. index[c] \in Banks BY DEF ActorTypeOK
  <2>1. CASE index[c] + 1 = B BY <1>15, <2>0, BankFacts, <2>1 DEF peek_scan, Turn, Goto
  <2>2. CASE index[c] + 1 # B BY <1>15, <2>0, BankFacts, <2>2 DEF peek_scan, Turn, Goto
  <2> QED BY <2>1, <2>2
<1>16. ASSUME NEW c \in Actors, peek_take(c) PROVE BankTypeOK'
  <2>1. CASE selected[c] = None
    BY <1>16, <2>1 DEF peek_take, DropLease
  <2>2. CASE selected[c] # None
    <3>1. selected[c] \in Banks BY <2>2 DEF ActorTypeOK
    <3> QED BY <1>16, <2>2, <3>1 DEF peek_take, SetState
  <2> QED BY <2>1, <2>2
<1>17. ASSUME NEW c \in Actors, release(c) PROVE BankTypeOK'
  <2>1. read_offset[consumer_bank] + 1 \in 0 .. F
    BY <1>17, OffsetFacts DEF release, ReaderInv
  <2> QED BY <1>17, <2>1 DEF release
<1>18. ASSUME NEW c \in Actors, release_bank(c) PROVE BankTypeOK'
  BY <1>18 DEF release_bank, SetState, Goto
<1>19. ASSUME NEW c \in Actors, release_lease(c) PROVE BankTypeOK'
  BY <1>19 DEF release_lease, Goto, DropLease, AfterRelease
<1>20. CASE UNCHANGED vars BY <1>20 DEF vars
<1> QED BY <1>1, <1>2, <1>3, <1>4, <1>5, <1>6, <1>7, <1>8, <1>9, <1>10, <1>11,
          <1>12, <1>13, <1>14, <1>15, <1>16, <1>17, <1>18, <1>19, <1>20
       DEF Next, Producer, Pause, Consumer

LEMMA ActorTypeOKStep ==
  ASSUME BankTypeOK, ActorTypeOK, LoopInv, LeaseInv, ReaderInv, ReadBanksInv,
         [Next]_vars
  PROVE  ActorTypeOK'
<1> USE ActorFacts
    DEF bankVars, readVars, callVars, ActorTypeOK, ConsumerLabels,
        SourceLabels
<1>1. CASE abort_frame
  <2>1. CASE state[producer_bank] = "FILLING" BY <1>1, <2>1 DEF abort_frame, AbortEffect, SetState
  <2>2. CASE ~(state[producer_bank] = "FILLING") BY <1>1, <2>2 DEF abort_frame, AbortEffect, SetState
  <2> QED BY <2>1, <2>2
<1>2. CASE begin_try
  <2> DEFINE b == index["source"]
  <2>0. b \in Banks BY DEF ActorTypeOK
  <2>1. CASE CanFill(b) BY <1>2, <2>0, BankFacts, <2>1 DEF begin_try, SetState, Leave, Goto, CanFill
  <2>2. CASE ~CanFill(b) /\ b + 1 = B BY <1>2, <2>0, BankFacts, <2>2 DEF begin_try, Turn, Goto
  <2>3. CASE ~CanFill(b) /\ b + 1 # B BY <1>2, <2>0, BankFacts, <2>3 DEF begin_try, Turn
  <2> QED BY <2>1, <2>2, <2>3
<1>3. CASE acquire_write
  <2> DEFINE b == producer_bank
             Can == state[b] = "FILLING" /\ ~write_leased[b] /\ write_offset[b] < F
  <2>1. CASE Can BY <1>3, <2>1 DEF acquire_write
  <2>2. CASE ~Can /\ state[b] = "FILLING"
    BY <1>3, <2>2 DEF acquire_write, AbortEffect, SetState
  <2>3. CASE ~Can /\ state[b] # "FILLING"
    BY <1>3, <2>3 DEF acquire_write, AbortEffect, SetState
  <2> QED BY <2>1, <2>2, <2>3
<1>4. CASE copy_dma_block BY <1>4 DEF copy_dma_block
<1>5. ASSUME NEW bad \in BOOLEAN, begin_frame(bad) PROVE ActorTypeOK'
  <2>1. CASE state[producer_bank] = "FILLING"
    BY <1>5, <2>1 DEF begin_frame, AbortEffect, SetState, Incr, Words
  <2>2. CASE state[producer_bank] # "FILLING" /\ bad
    BY <1>5, <2>2 DEF begin_frame, AbortEffect, SetState, Incr, Words
  <2>3. CASE state[producer_bank] # "FILLING" /\ ~bad
    BY <1>5, <2>3 DEF begin_frame, Goto, Incr, Words
  <2> QED BY <2>1, <2>2, <2>3
<1>6. ASSUME NEW bad \in BOOLEAN, NEW end \in BOOLEAN, commit_write(bad, end) PROVE ActorTypeOK'
  <2> DEFINE b == producer_bank
             Can == /\ ~bad /\ state[b] = "FILLING" /\ write_leased[b]
                    /\ end = (write_offset[b] + 1 = F)
  <2>1. CASE Can /\ end BY <1>6, <2>1 DEF commit_write, SetState
  <2>2. CASE Can /\ ~end BY <1>6, <2>2 DEF commit_write, SetState
  <2>3. CASE ~Can /\ state[b] = "FILLING"
    BY <1>6, <2>3 DEF commit_write, AbortEffect, SetState
  <2>4. CASE ~Can /\ state[b] # "FILLING"
    BY <1>6, <2>4 DEF commit_write, AbortEffect, SetState
  <2> QED BY <2>1, <2>2, <2>3, <2>4
<1>7. CASE pause
  <2>1. 0 \in 0 .. B * F BY BankFacts
  <2> QED BY <1>7, <2>1 DEF pause, Goto
<1>8. CASE scratch_acquire
  <2> DEFINE b == index["source"]
  <2>0. b \in Banks BY DEF ActorTypeOK
  <2>1. CASE CanBorrow(b) /\ b + 1 = B
    BY <1>8, <2>0, BankFacts, <2>1 DEF scratch_acquire, SetState, Turn, Goto, CanBorrow
  <2>2. CASE CanBorrow(b) /\ b + 1 # B
    BY <1>8, <2>0, BankFacts, <2>2 DEF scratch_acquire, SetState, Turn, Goto, CanBorrow
  <2>3. CASE ~CanBorrow(b) BY <1>8, <2>0, BankFacts, <2>3 DEF scratch_acquire, Goto, CanBorrow
  <2> QED BY <2>1, <2>2, <2>3
<1>9. CASE rollback
  <2> DEFINE i == index["source"]
  <2>0. i \in Banks BY DEF ActorTypeOK
  <2>1. CASE i = 0 BY <1>9, <2>0, BankFacts, <2>1 DEF rollback, Goto
  <2>2. CASE i # 0 BY <1>9, <2>0, BankFacts, <2>2 DEF rollback, SetState, Taken
  <2> QED BY <2>1, <2>2
<1>10. CASE resume BY <1>10 DEF resume, Goto
<1>11. CASE scratch_release
  <2> DEFINE b == index["source"]
  <2>0. b \in Banks BY DEF ActorTypeOK
  <2>1. CASE state[b] = "SCRATCH" /\ b + 1 = B
    BY <1>11, <2>0, BankFacts, <2>1 DEF scratch_release, SetState, Turn, Goto
  <2>2. CASE state[b] = "SCRATCH" /\ b + 1 # B
    BY <1>11, <2>0, BankFacts, <2>2 DEF scratch_release, SetState, Turn, Goto
  <2>3. CASE state[b] # "SCRATCH" /\ b + 1 = B
    BY <1>11, <2>0, BankFacts, <2>3 DEF scratch_release, Turn, Goto
  <2>4. CASE state[b] # "SCRATCH" /\ b + 1 # B
    BY <1>11, <2>0, BankFacts, <2>4 DEF scratch_release, Turn, Goto
  <2> QED BY <2>1, <2>2, <2>3, <2>4
<1>12. ASSUME NEW b \in Banks, scratch_write(b) PROVE ActorTypeOK'
  BY <1>12 DEF scratch_write
<1>13. ASSUME NEW c \in Actors, peek_cas(c) PROVE ActorTypeOK'
  <2>1. CASE read_leased BY <1>13, <2>1 DEF peek_cas, Goto, LeaseTaken, AfterMiss
  <2>2. CASE ~read_leased BY <1>13, <2>2 DEF peek_cas, Goto, LeaseTaken
  <2> QED BY <2>1, <2>2
<1>14. ASSUME NEW c \in Actors, peek_select(c) PROVE ActorTypeOK'
  <2>1. CASE state[consumer_bank] = "READING"
    <3>1. consumer_bank \in Banks BY DEF BankTypeOK
    <3>2. read_offset[consumer_bank] < F
      BY <1>14, <2>1, <3>1 DEF peek_select, ReadBanksInv, LeaseInv, InLease
    <3>3. ViewOf(consumer_bank) \in Views BY <3>1, <3>2, ViewFact
    <3>4. view' = [view EXCEPT ![c] = ViewOf(consumer_bank)]
      BY <1>14, <2>1 DEF peek_select
    <3>5. view' \in [Actors -> Views \cup {None}] BY <3>3, <3>4
    <3>6. pc' = [pc EXCEPT ![c] = "lease"] BY <1>14, <2>1 DEF peek_select, Goto
    <3> QED BY <1>14, <3>5, <3>6 DEF peek_select
  <2>2. CASE state[consumer_bank] # "READING" BY <1>14, <2>2 DEF peek_select, Goto
  <2> QED BY <2>1, <2>2
<1>15. ASSUME NEW c \in Actors, peek_scan(c) PROVE ActorTypeOK'
  <2>0. index[c] \in Banks BY DEF ActorTypeOK
  <2>1. CASE index[c] + 1 = B BY <1>15, <2>0, BankFacts, <2>1 DEF peek_scan, Turn, Goto
  <2>2. CASE index[c] + 1 # B BY <1>15, <2>0, BankFacts, <2>2 DEF peek_scan, Turn, Goto
  <2> QED BY <2>1, <2>2
<1>16. ASSUME NEW c \in Actors, peek_take(c) PROVE ActorTypeOK'
  <2>1. CASE selected[c] = None
    BY <1>16, <2>1 DEF peek_take, Goto, AfterMiss, DropLease
  <2>2. CASE selected[c] # None
    <3>1. selected[c] \in Banks BY <2>2
    <3>2. read_offset[selected[c]] < F
      BY <2>2, <3>1, BankFacts DEF ReaderInv, ReadBanksInv
    <3>3. ViewOf(selected[c]) \in Views BY <3>1, <3>2, ViewFact
    <3>4. view' = [view EXCEPT ![c] = ViewOf(selected[c])]
      BY <1>16, <2>2 DEF peek_take
    <3>5. view' \in [Actors -> Views \cup {None}] BY <3>3, <3>4
    <3>6. pc' = [pc EXCEPT ![c] = "lease"] BY <1>16, <2>2 DEF peek_take, Goto
    <3> QED BY <1>16, <3>5, <3>6 DEF peek_take
  <2> QED BY <2>1, <2>2
<1>17. ASSUME NEW c \in Actors, release(c) PROVE ActorTypeOK'
  BY <1>17 DEF release, Goto
<1>18. ASSUME NEW c \in Actors, release_bank(c) PROVE ActorTypeOK'
  BY <1>18 DEF release_bank, SetState, Goto
<1>19. ASSUME NEW c \in Actors, release_lease(c) PROVE ActorTypeOK'
  <2>1. drained' \in 0 .. B * F
    <3>1. CASE c = "source"
      <4>1. drained < B * F BY <1>19, <3>1 DEF release_lease, LoopInv, InLease
      <4> QED BY <1>19, <3>1, <4>1, BankFacts DEF release_lease
    <3>2. CASE c # "source" BY <1>19, <3>2 DEF release_lease
    <3> QED BY <3>1, <3>2
  <2>2. AfterRelease(c) \in ConsumerLabels \cup SourceLabels
        /\ (c = "http" => AfterRelease(c) = "idle")
    BY DEF AfterRelease
  <2>3. pc' = [pc EXCEPT ![c] = AfterRelease(c)] BY <1>19 DEF release_lease, Goto
  <2> QED BY <1>19, <2>1, <2>2, <2>3 DEF release_lease
<1>20. CASE UNCHANGED vars BY <1>20 DEF vars
<1> QED BY <1>1, <1>2, <1>3, <1>4, <1>5, <1>6, <1>7, <1>8, <1>9, <1>10, <1>11,
          <1>12, <1>13, <1>14, <1>15, <1>16, <1>17, <1>18, <1>19, <1>20
       DEF Next, Producer, Pause, Consumer

LEMMA LeaseInvStep ==
  ASSUME BankTypeOK, ActorTypeOK, LeaseInv, [Next]_vars
  PROVE  LeaseInv'
<1> USE ActorFacts
    DEF bankVars, readVars, callVars, BankTypeOK, ActorTypeOK, LeaseInv,
        InLease
<1>1. CASE abort_frame
  <2>1. CASE state[producer_bank] = "FILLING" BY <1>1, <2>1 DEF abort_frame, AbortEffect, SetState
  <2>2. CASE ~(state[producer_bank] = "FILLING") BY <1>1, <2>2 DEF abort_frame, AbortEffect, SetState
  <2> QED BY <2>1, <2>2
<1>2. CASE begin_try
  <2> DEFINE b == index["source"]
  <2>0. b \in Banks BY DEF ActorTypeOK
  <2>1. CASE CanFill(b) BY <1>2, <2>0, BankFacts, <2>1 DEF begin_try, SetState, Leave, Goto, CanFill
  <2>2. CASE ~CanFill(b) /\ b + 1 = B BY <1>2, <2>0, BankFacts, <2>2 DEF begin_try, Turn, Goto
  <2>3. CASE ~CanFill(b) /\ b + 1 # B BY <1>2, <2>0, BankFacts, <2>3 DEF begin_try, Turn
  <2> QED BY <2>1, <2>2, <2>3
<1>3. CASE acquire_write
  <2> DEFINE b == producer_bank
             Can == state[b] = "FILLING" /\ ~write_leased[b] /\ write_offset[b] < F
  <2>1. CASE Can BY <1>3, <2>1 DEF acquire_write
  <2>2. CASE ~Can /\ state[b] = "FILLING"
    BY <1>3, <2>2 DEF acquire_write, AbortEffect, SetState
  <2>3. CASE ~Can /\ state[b] # "FILLING"
    BY <1>3, <2>3 DEF acquire_write, AbortEffect, SetState
  <2> QED BY <2>1, <2>2, <2>3
<1>4. CASE copy_dma_block BY <1>4 DEF copy_dma_block
<1>5. ASSUME NEW bad \in BOOLEAN, begin_frame(bad) PROVE LeaseInv'
  <2>1. CASE state[producer_bank] = "FILLING"
    BY <1>5, <2>1 DEF begin_frame, AbortEffect, SetState, Incr, Words
  <2>2. CASE state[producer_bank] # "FILLING" /\ bad
    BY <1>5, <2>2 DEF begin_frame, AbortEffect, SetState, Incr, Words
  <2>3. CASE state[producer_bank] # "FILLING" /\ ~bad
    BY <1>5, <2>3 DEF begin_frame, Goto, Incr, Words
  <2> QED BY <2>1, <2>2, <2>3
<1>6. ASSUME NEW bad \in BOOLEAN, NEW end \in BOOLEAN, commit_write(bad, end) PROVE LeaseInv'
  <2> DEFINE b == producer_bank
             Can == /\ ~bad /\ state[b] = "FILLING" /\ write_leased[b]
                    /\ end = (write_offset[b] + 1 = F)
  <2>1. CASE Can /\ end BY <1>6, <2>1 DEF commit_write, SetState
  <2>2. CASE Can /\ ~end BY <1>6, <2>2 DEF commit_write, SetState
  <2>3. CASE ~Can /\ state[b] = "FILLING"
    BY <1>6, <2>3 DEF commit_write, AbortEffect, SetState
  <2>4. CASE ~Can /\ state[b] # "FILLING"
    BY <1>6, <2>4 DEF commit_write, AbortEffect, SetState
  <2> QED BY <2>1, <2>2, <2>3, <2>4
<1>7. CASE pause
  <2>1. CASE state[producer_bank] = "FILLING" BY <1>7, <2>1 DEF pause, AbortEffect, SetState, Goto
  <2>2. CASE ~(state[producer_bank] = "FILLING") BY <1>7, <2>2 DEF pause, AbortEffect, SetState, Goto
  <2> QED BY <2>1, <2>2
<1>8. CASE scratch_acquire
  <2> DEFINE b == index["source"]
  <2>0. b \in Banks BY DEF ActorTypeOK
  <2>1. CASE CanBorrow(b) /\ b + 1 = B
    BY <1>8, <2>0, BankFacts, <2>1 DEF scratch_acquire, SetState, Turn, Goto, CanBorrow
  <2>2. CASE CanBorrow(b) /\ b + 1 # B
    BY <1>8, <2>0, BankFacts, <2>2 DEF scratch_acquire, SetState, Turn, Goto, CanBorrow
  <2>3. CASE ~CanBorrow(b) BY <1>8, <2>0, BankFacts, <2>3 DEF scratch_acquire, Goto, CanBorrow
  <2> QED BY <2>1, <2>2, <2>3
<1>9. CASE rollback
  <2> DEFINE i == index["source"]
  <2>0. i \in Banks BY DEF ActorTypeOK
  <2>1. CASE i = 0 BY <1>9, <2>0, BankFacts, <2>1 DEF rollback, Goto
  <2>2. CASE i # 0 BY <1>9, <2>0, BankFacts, <2>2 DEF rollback, SetState, Taken
  <2> QED BY <2>1, <2>2
<1>10. CASE resume BY <1>10 DEF resume, Goto
<1>11. CASE scratch_release
  <2> DEFINE b == index["source"]
  <2>0. b \in Banks BY DEF ActorTypeOK
  <2>1. CASE state[b] = "SCRATCH" /\ b + 1 = B
    BY <1>11, <2>0, BankFacts, <2>1 DEF scratch_release, SetState, Turn, Goto
  <2>2. CASE state[b] = "SCRATCH" /\ b + 1 # B
    BY <1>11, <2>0, BankFacts, <2>2 DEF scratch_release, SetState, Turn, Goto
  <2>3. CASE state[b] # "SCRATCH" /\ b + 1 = B
    BY <1>11, <2>0, BankFacts, <2>3 DEF scratch_release, Turn, Goto
  <2>4. CASE state[b] # "SCRATCH" /\ b + 1 # B
    BY <1>11, <2>0, BankFacts, <2>4 DEF scratch_release, Turn, Goto
  <2> QED BY <2>1, <2>2, <2>3, <2>4
<1>12. ASSUME NEW b \in Banks, scratch_write(b) PROVE LeaseInv'
  BY <1>12 DEF scratch_write
<1>13. ASSUME NEW c \in Actors, peek_cas(c) PROVE LeaseInv'
  <2>1. CASE read_leased BY <1>13, <2>1 DEF peek_cas, Goto, LeaseTaken, AfterMiss
  <2>2. CASE ~read_leased BY <1>13, <2>2 DEF peek_cas, Goto, LeaseTaken
  <2> QED BY <2>1, <2>2
<1>14. ASSUME NEW c \in Actors, peek_select(c) PROVE LeaseInv'
  <2>1. CASE state[consumer_bank] = "READING" BY <1>14, <2>1 DEF peek_select, Goto
  <2>2. CASE state[consumer_bank] # "READING" BY <1>14, <2>2 DEF peek_select, Goto
  <2> QED BY <2>1, <2>2
<1>15. ASSUME NEW c \in Actors, peek_scan(c) PROVE LeaseInv'
  <2>0. index[c] \in Banks BY DEF ActorTypeOK
  <2>1. CASE index[c] + 1 = B BY <1>15, <2>0, BankFacts, <2>1 DEF peek_scan, Turn, Goto
  <2>2. CASE index[c] + 1 # B BY <1>15, <2>0, BankFacts, <2>2 DEF peek_scan, Turn, Goto
  <2> QED BY <2>1, <2>2
<1>16. ASSUME NEW c \in Actors, peek_take(c) PROVE LeaseInv'
  <2>1. CASE selected[c] = None
    BY <1>16, <2>1 DEF peek_take, Goto, AfterMiss, DropLease
  <2>2. CASE selected[c] # None
    BY <1>16, <2>2 DEF peek_take, SetState, Goto
  <2> QED BY <2>1, <2>2
<1>17. ASSUME NEW c \in Actors, release(c) PROVE LeaseInv'
  BY <1>17 DEF release, Goto
<1>18. ASSUME NEW c \in Actors, release_bank(c) PROVE LeaseInv'
  BY <1>18 DEF release_bank, SetState, Goto
<1>19. ASSUME NEW c \in Actors, release_lease(c) PROVE LeaseInv'
  BY <1>19 DEF release_lease, Goto, DropLease, AfterRelease
<1>20. CASE UNCHANGED vars BY <1>20 DEF vars
<1> QED BY <1>1, <1>2, <1>3, <1>4, <1>5, <1>6, <1>7, <1>8, <1>9, <1>10, <1>11,
          <1>12, <1>13, <1>14, <1>15, <1>16, <1>17, <1>18, <1>19, <1>20
       DEF Next, Producer, Pause, Consumer

LEMMA ReaderInvStep ==
  ASSUME BankTypeOK, ActorTypeOK, LeaseInv, ReaderInv, ReadBanksInv,
         ScratchInv, [Next]_vars
  PROVE  ReaderInv'
<1> USE ActorFacts
    DEF bankVars, readVars, callVars, BankTypeOK, ActorTypeOK, LeaseInv,
        InLease, ReaderInv, ReadBanksInv, ViewOf
<1>1. CASE abort_frame
  <2>1. CASE state[producer_bank] = "FILLING" BY <1>1, <2>1 DEF abort_frame, AbortEffect, SetState
  <2>2. CASE ~(state[producer_bank] = "FILLING") BY <1>1, <2>2 DEF abort_frame, AbortEffect, SetState
  <2> QED BY <2>1, <2>2
<1>2. CASE begin_try
  <2> DEFINE b == index["source"]
  <2>0. b \in Banks BY DEF ActorTypeOK
  <2>1. CASE CanFill(b) BY <1>2, <2>0, BankFacts, <2>1 DEF begin_try, SetState, Leave, Goto, CanFill
  <2>2. CASE ~CanFill(b) /\ b + 1 = B BY <1>2, <2>0, BankFacts, <2>2 DEF begin_try, Turn, Goto
  <2>3. CASE ~CanFill(b) /\ b + 1 # B BY <1>2, <2>0, BankFacts, <2>3 DEF begin_try, Turn
  <2> QED BY <2>1, <2>2, <2>3
<1>3. CASE acquire_write
  <2> DEFINE b == producer_bank
             Can == state[b] = "FILLING" /\ ~write_leased[b] /\ write_offset[b] < F
  <2>1. CASE Can BY <1>3, <2>1 DEF acquire_write
  <2>2. CASE ~Can /\ state[b] = "FILLING"
    BY <1>3, <2>2 DEF acquire_write, AbortEffect, SetState
  <2>3. CASE ~Can /\ state[b] # "FILLING"
    BY <1>3, <2>3 DEF acquire_write, AbortEffect, SetState
  <2> QED BY <2>1, <2>2, <2>3
<1>4. CASE copy_dma_block BY <1>4 DEF copy_dma_block
<1>5. ASSUME NEW bad \in BOOLEAN, begin_frame(bad) PROVE ReaderInv'
  <2>1. CASE state[producer_bank] = "FILLING"
    BY <1>5, <2>1 DEF begin_frame, AbortEffect, SetState, Incr, Words
  <2>2. CASE state[producer_bank] # "FILLING" /\ bad
    BY <1>5, <2>2 DEF begin_frame, AbortEffect, SetState, Incr, Words
  <2>3. CASE state[producer_bank] # "FILLING" /\ ~bad
    BY <1>5, <2>3 DEF begin_frame, Goto, Incr, Words
  <2> QED BY <2>1, <2>2, <2>3
<1>6. ASSUME NEW bad \in BOOLEAN, NEW end \in BOOLEAN, commit_write(bad, end) PROVE ReaderInv'
  <2> DEFINE b == producer_bank
             Can == /\ ~bad /\ state[b] = "FILLING" /\ write_leased[b]
                    /\ end = (write_offset[b] + 1 = F)
  <2>1. CASE Can /\ end
    <3>1. state' = [state EXCEPT ![b] = "READY"] BY <1>6, <2>1 DEF commit_write, SetState
    <3>2. UNCHANGED <<frame_sequence, readVars, pc, callVars>>
      BY <1>6, <2>1 DEF commit_write
    <3> QED BY <2>1, <3>1, <3>2
  <2>2. CASE Can /\ ~end BY <1>6, <2>2 DEF commit_write, SetState
  <2>3. CASE ~Can /\ state[b] = "FILLING"
    <3>1. state' = [state EXCEPT ![b] = "FREE"]
      BY <1>6, <2>3 DEF commit_write, AbortEffect, SetState
    <3>2. UNCHANGED <<frame_sequence, readVars, pc, callVars>>
      BY <1>6, <2>3 DEF commit_write
    <3> QED BY <2>3, <3>1, <3>2
  <2>4. CASE ~Can /\ state[b] # "FILLING"
    BY <1>6, <2>4 DEF commit_write, AbortEffect, SetState
  <2> QED BY <2>1, <2>2, <2>3, <2>4
<1>7. CASE pause
  <2>1. CASE state[producer_bank] = "FILLING" BY <1>7, <2>1 DEF pause, AbortEffect, SetState, Goto
  <2>2. CASE ~(state[producer_bank] = "FILLING") BY <1>7, <2>2 DEF pause, AbortEffect, SetState, Goto
  <2> QED BY <2>1, <2>2
<1>8. CASE scratch_acquire
  <2> DEFINE b == index["source"]
  <2>0. b \in Banks BY DEF ActorTypeOK
  <2>1. CASE CanBorrow(b) /\ b + 1 = B
    BY <1>8, <2>0, BankFacts, <2>1 DEF scratch_acquire, SetState, Turn, Goto, CanBorrow
  <2>2. CASE CanBorrow(b) /\ b + 1 # B
    BY <1>8, <2>0, BankFacts, <2>2 DEF scratch_acquire, SetState, Turn, Goto, CanBorrow
  <2>3. CASE ~CanBorrow(b) BY <1>8, <2>0, BankFacts, <2>3 DEF scratch_acquire, Goto, CanBorrow
  <2> QED BY <2>1, <2>2, <2>3
<1>9. CASE rollback
  <2> DEFINE i == index["source"]
  <2>1. CASE i = 0 BY <1>9, <2>1 DEF rollback, Goto
  <2>2. CASE i # 0
    <3>1. i - 1 \in Banks /\ state[i - 1] = "SCRATCH"
      BY <1>9, <2>2, BankFacts DEF rollback, ScratchInv
    <3>2. state' = [state EXCEPT ![i - 1] = "FREE"]
      BY <1>9, <2>2 DEF rollback, SetState, Taken
    <3>3. UNCHANGED <<frame_sequence, readVars, pc, selected, view>>
      BY <1>9, <2>2 DEF rollback
    <3> QED BY <3>1, <3>2, <3>3
  <2> QED BY <2>1, <2>2
<1>10. CASE resume BY <1>10 DEF resume, Goto
<1>11. CASE scratch_release
  <2> DEFINE b == index["source"]
  <2>0. b \in Banks BY DEF ActorTypeOK
  <2>1. CASE state[b] = "SCRATCH" /\ b + 1 = B
    BY <1>11, <2>0, BankFacts, <2>1 DEF scratch_release, SetState, Turn, Goto
  <2>2. CASE state[b] = "SCRATCH" /\ b + 1 # B
    BY <1>11, <2>0, BankFacts, <2>2 DEF scratch_release, SetState, Turn, Goto
  <2>3. CASE state[b] # "SCRATCH" /\ b + 1 = B
    BY <1>11, <2>0, BankFacts, <2>3 DEF scratch_release, Turn, Goto
  <2>4. CASE state[b] # "SCRATCH" /\ b + 1 # B
    BY <1>11, <2>0, BankFacts, <2>4 DEF scratch_release, Turn, Goto
  <2> QED BY <2>1, <2>2, <2>3, <2>4
<1>12. ASSUME NEW b \in Banks, scratch_write(b) PROVE ReaderInv'
  BY <1>12 DEF scratch_write
<1>13. ASSUME NEW c \in Actors, peek_cas(c) PROVE ReaderInv'
  <2>1. CASE read_leased BY <1>13, <2>1 DEF peek_cas, Goto, LeaseTaken, AfterMiss
  <2>2. CASE ~read_leased BY <1>13, <2>2 DEF peek_cas, Goto, LeaseTaken
  <2> QED BY <2>1, <2>2
<1>14. ASSUME NEW c \in Actors, peek_select(c) PROVE ReaderInv'
  <2>1. CASE state[consumer_bank] = "READING" BY <1>14, <2>1 DEF peek_select, Goto
  <2>2. CASE state[consumer_bank] # "READING" BY <1>14, <2>2 DEF peek_select, Goto
  <2> QED BY <2>1, <2>2
<1>15. ASSUME NEW c \in Actors, peek_scan(c) PROVE ReaderInv'
  <2>0. index[c] \in Banks BY DEF ActorTypeOK
  <2>1. CASE index[c] + 1 = B BY <1>15, <2>0, BankFacts, <2>1 DEF peek_scan, Turn, Goto
  <2>2. CASE index[c] + 1 # B BY <1>15, <2>0, BankFacts, <2>2 DEF peek_scan, Turn, Goto
  <2> QED BY <2>1, <2>2
<1>16. ASSUME NEW c \in Actors, peek_take(c) PROVE ReaderInv'
  <2>1. CASE selected[c] = None
    BY <1>16, <2>1 DEF peek_take, Goto, AfterMiss, DropLease
  <2>2. CASE selected[c] # None
    <3> DEFINE b == selected[c]
    <3>1. b \in Banks /\ state[b] = "READY" /\ read_offset[b] = 0
      BY <2>2
    <3>2. \A d \in Actors \ {c} : ~InLease(d) /\ selected[d] = None /\ view[d] = None
      BY <1>16 DEF peek_take
    <3>3. \A x \in Banks : state[x] # "READING" BY <1>16 DEF peek_take
    <3>4. /\ state' = [state EXCEPT ![b] = "READING"] /\ consumer_bank' = b
          /\ pc' = [pc EXCEPT ![c] = "lease"]
          /\ view' = [view EXCEPT ![c] = ViewOf(b)]
          /\ selected' = [selected EXCEPT ![c] = None]
          /\ UNCHANGED <<frame_sequence, read_offset, read_leased>>
      BY <1>16, <2>2 DEF peek_take, SetState, Goto
    <3> HIDE DEF b
    <3> QED BY <3>1, <3>2, <3>3, <3>4, BankFacts
  <2> QED BY <2>1, <2>2
<1>17. ASSUME NEW c \in Actors, release(c) PROVE ReaderInv'
  BY <1>17 DEF release, Goto
<1>18. ASSUME NEW c \in Actors, release_bank(c) PROVE ReaderInv'
  BY <1>18 DEF release_bank, SetState, Goto
<1>19. ASSUME NEW c \in Actors, release_lease(c) PROVE ReaderInv'
  BY <1>19 DEF release_lease, Goto, DropLease, AfterRelease
<1>20. CASE UNCHANGED vars BY <1>20 DEF vars
<1> QED BY <1>1, <1>2, <1>3, <1>4, <1>5, <1>6, <1>7, <1>8, <1>9, <1>10, <1>11,
          <1>12, <1>13, <1>14, <1>15, <1>16, <1>17, <1>18, <1>19, <1>20
       DEF Next, Producer, Pause, Consumer

LEMMA ReadBanksInvStep ==
  ASSUME BankTypeOK, ActorTypeOK, LeaseInv, ReaderInv, ReadBanksInv,
         [Next]_vars
  PROVE  ReadBanksInv'
<1> USE ActorFacts
    DEF bankVars, readVars, callVars, BankTypeOK, ActorTypeOK, LeaseInv,
        InLease, ReaderInv, ReadBanksInv, ViewOf
<1>1. CASE abort_frame
  <2>1. CASE state[producer_bank] = "FILLING" BY <1>1, <2>1 DEF abort_frame, AbortEffect, SetState
  <2>2. CASE ~(state[producer_bank] = "FILLING") BY <1>1, <2>2 DEF abort_frame, AbortEffect, SetState
  <2> QED BY <2>1, <2>2
<1>2. CASE begin_try
  <2> DEFINE b == index["source"]
  <2>0. b \in Banks BY DEF ActorTypeOK
  <2>1. CASE CanFill(b) BY <1>2, <2>0, BankFacts, <2>1 DEF begin_try, SetState, Leave, Goto, CanFill
  <2>2. CASE ~CanFill(b) /\ b + 1 = B BY <1>2, <2>0, BankFacts, <2>2 DEF begin_try, Turn, Goto
  <2>3. CASE ~CanFill(b) /\ b + 1 # B BY <1>2, <2>0, BankFacts, <2>3 DEF begin_try, Turn
  <2> QED BY <2>1, <2>2, <2>3
<1>3. CASE acquire_write
  <2> DEFINE b == producer_bank
             Can == state[b] = "FILLING" /\ ~write_leased[b] /\ write_offset[b] < F
  <2>1. CASE Can BY <1>3, <2>1 DEF acquire_write
  <2>2. CASE ~Can /\ state[b] = "FILLING"
    BY <1>3, <2>2 DEF acquire_write, AbortEffect, SetState
  <2>3. CASE ~Can /\ state[b] # "FILLING"
    BY <1>3, <2>3 DEF acquire_write, AbortEffect, SetState
  <2> QED BY <2>1, <2>2, <2>3
<1>4. CASE copy_dma_block BY <1>4 DEF copy_dma_block
<1>5. ASSUME NEW bad \in BOOLEAN, begin_frame(bad) PROVE ReadBanksInv'
  <2>1. CASE state[producer_bank] = "FILLING"
    BY <1>5, <2>1 DEF begin_frame, AbortEffect, SetState, Incr, Words
  <2>2. CASE state[producer_bank] # "FILLING" /\ bad
    BY <1>5, <2>2 DEF begin_frame, AbortEffect, SetState, Incr, Words
  <2>3. CASE state[producer_bank] # "FILLING" /\ ~bad
    BY <1>5, <2>3 DEF begin_frame, Goto, Incr, Words
  <2> QED BY <2>1, <2>2, <2>3
<1>6. ASSUME NEW bad \in BOOLEAN, NEW end \in BOOLEAN, commit_write(bad, end) PROVE ReadBanksInv'
  <2> DEFINE b == producer_bank
             Can == /\ ~bad /\ state[b] = "FILLING" /\ write_leased[b]
                    /\ end = (write_offset[b] + 1 = F)
  <2>1. CASE Can /\ end
    <3>1. state' = [state EXCEPT ![b] = "READY"] BY <1>6, <2>1 DEF commit_write, SetState
    <3>2. UNCHANGED <<frame_sequence, readVars, pc, callVars>>
      BY <1>6, <2>1 DEF commit_write
    <3> QED BY <2>1, <3>1, <3>2
  <2>2. CASE Can /\ ~end BY <1>6, <2>2 DEF commit_write, SetState
  <2>3. CASE ~Can /\ state[b] = "FILLING"
    <3>1. state' = [state EXCEPT ![b] = "FREE"]
      BY <1>6, <2>3 DEF commit_write, AbortEffect, SetState
    <3>2. UNCHANGED <<frame_sequence, readVars, pc, callVars>>
      BY <1>6, <2>3 DEF commit_write
    <3> QED BY <2>3, <3>1, <3>2
  <2>4. CASE ~Can /\ state[b] # "FILLING"
    BY <1>6, <2>4 DEF commit_write, AbortEffect, SetState
  <2> QED BY <2>1, <2>2, <2>3, <2>4
<1>7. CASE pause
  <2>1. CASE state[producer_bank] = "FILLING" BY <1>7, <2>1 DEF pause, AbortEffect, SetState, Goto
  <2>2. CASE ~(state[producer_bank] = "FILLING") BY <1>7, <2>2 DEF pause, AbortEffect, SetState, Goto
  <2> QED BY <2>1, <2>2
<1>8. CASE scratch_acquire
  <2> DEFINE b == index["source"]
  <2>0. b \in Banks BY DEF ActorTypeOK
  <2>1. CASE CanBorrow(b) /\ b + 1 = B
    BY <1>8, <2>0, BankFacts, <2>1 DEF scratch_acquire, SetState, Turn, Goto, CanBorrow
  <2>2. CASE CanBorrow(b) /\ b + 1 # B
    BY <1>8, <2>0, BankFacts, <2>2 DEF scratch_acquire, SetState, Turn, Goto, CanBorrow
  <2>3. CASE ~CanBorrow(b) BY <1>8, <2>0, BankFacts, <2>3 DEF scratch_acquire, Goto, CanBorrow
  <2> QED BY <2>1, <2>2, <2>3
<1>9. CASE rollback
  <2> DEFINE i == index["source"]
  <2>0. i \in Banks BY DEF ActorTypeOK
  <2>1. CASE i = 0 BY <1>9, <2>0, BankFacts, <2>1 DEF rollback, Goto
  <2>2. CASE i # 0 BY <1>9, <2>0, BankFacts, <2>2 DEF rollback, SetState, Taken
  <2> QED BY <2>1, <2>2
<1>10. CASE resume BY <1>10 DEF resume, Goto
<1>11. CASE scratch_release
  <2> DEFINE b == index["source"]
  <2>0. b \in Banks BY DEF ActorTypeOK
  <2>1. CASE state[b] = "SCRATCH" /\ b + 1 = B
    BY <1>11, <2>0, BankFacts, <2>1 DEF scratch_release, SetState, Turn, Goto
  <2>2. CASE state[b] = "SCRATCH" /\ b + 1 # B
    BY <1>11, <2>0, BankFacts, <2>2 DEF scratch_release, SetState, Turn, Goto
  <2>3. CASE state[b] # "SCRATCH" /\ b + 1 = B
    BY <1>11, <2>0, BankFacts, <2>3 DEF scratch_release, Turn, Goto
  <2>4. CASE state[b] # "SCRATCH" /\ b + 1 # B
    BY <1>11, <2>0, BankFacts, <2>4 DEF scratch_release, Turn, Goto
  <2> QED BY <2>1, <2>2, <2>3, <2>4
<1>12. ASSUME NEW b \in Banks, scratch_write(b) PROVE ReadBanksInv'
  BY <1>12 DEF scratch_write
<1>13. ASSUME NEW c \in Actors, peek_cas(c) PROVE ReadBanksInv'
  <2>1. CASE read_leased BY <1>13, <2>1 DEF peek_cas, Goto, LeaseTaken, AfterMiss
  <2>2. CASE ~read_leased BY <1>13, <2>2 DEF peek_cas, Goto, LeaseTaken
  <2> QED BY <2>1, <2>2
<1>14. ASSUME NEW c \in Actors, peek_select(c) PROVE ReadBanksInv'
  <2>1. CASE state[consumer_bank] = "READING" BY <1>14, <2>1 DEF peek_select, Goto
  <2>2. CASE state[consumer_bank] # "READING" BY <1>14, <2>2 DEF peek_select, Goto
  <2> QED BY <2>1, <2>2
<1>15. ASSUME NEW c \in Actors, peek_scan(c) PROVE ReadBanksInv'
  <2>0. index[c] \in Banks BY DEF ActorTypeOK
  <2>1. CASE index[c] + 1 = B BY <1>15, <2>0, BankFacts, <2>1 DEF peek_scan, Turn, Goto
  <2>2. CASE index[c] + 1 # B BY <1>15, <2>0, BankFacts, <2>2 DEF peek_scan, Turn, Goto
  <2> QED BY <2>1, <2>2
<1>16. ASSUME NEW c \in Actors, peek_take(c) PROVE ReadBanksInv'
  <2>1. CASE selected[c] = None
    BY <1>16, <2>1 DEF peek_take, Goto, AfterMiss, DropLease
  <2>2. CASE selected[c] # None
    <3> DEFINE b == selected[c]
    <3>1. b \in Banks /\ state[b] = "READY" /\ read_offset[b] = 0
      BY <2>2
    <3>2. \A d \in Actors \ {c} : ~InLease(d) /\ selected[d] = None /\ view[d] = None
      BY <1>16 DEF peek_take
    <3>3. \A x \in Banks : state[x] # "READING" BY <1>16 DEF peek_take
    <3>4. /\ state' = [state EXCEPT ![b] = "READING"] /\ consumer_bank' = b
          /\ pc' = [pc EXCEPT ![c] = "lease"]
          /\ view' = [view EXCEPT ![c] = ViewOf(b)]
          /\ selected' = [selected EXCEPT ![c] = None]
          /\ UNCHANGED <<frame_sequence, read_offset, read_leased>>
      BY <1>16, <2>2 DEF peek_take, SetState, Goto
    <3> HIDE DEF b
    <3> QED BY <3>1, <3>2, <3>3, <3>4, BankFacts
  <2> QED BY <2>1, <2>2
<1>17. ASSUME NEW c \in Actors, release(c) PROVE ReadBanksInv'
  <2>1. /\ state[consumer_bank] = "READING" /\ read_offset[consumer_bank] < F
        /\ read_offset[consumer_bank] \in 0 .. F
    BY <1>17 DEF release
  <2>2. read_offset' = [read_offset EXCEPT ![consumer_bank] = @ + 1]
        /\ UNCHANGED <<state, consumer_bank>>
    BY <1>17 DEF release
  <2>3. CASE read_offset[consumer_bank] + 1 = F
    <3>1. pc'[c] = "release_bank" BY <1>17, <2>3 DEF release, Goto
    <3> QED BY <2>1, <2>2, <3>1
  <2>4. CASE read_offset[consumer_bank] + 1 # F
    <3>1. read_offset[consumer_bank] + 1 < F BY <2>1, <2>4, BankFacts
    <3>2. \A d \in Actors : pc[d] # "release_bank" BY <1>17 DEF release
    <3> QED BY <2>1, <2>2, <3>1, <3>2
  <2> QED BY <2>3, <2>4
<1>18. ASSUME NEW c \in Actors, release_bank(c) PROVE ReadBanksInv'
  BY <1>18 DEF release_bank, SetState, Goto
<1>19. ASSUME NEW c \in Actors, release_lease(c) PROVE ReadBanksInv'
  BY <1>19 DEF release_lease, Goto, DropLease, AfterRelease
<1>20. CASE UNCHANGED vars BY <1>20 DEF vars
<1> QED BY <1>1, <1>2, <1>3, <1>4, <1>5, <1>6, <1>7, <1>8, <1>9, <1>10, <1>11,
          <1>12, <1>13, <1>14, <1>15, <1>16, <1>17, <1>18, <1>19, <1>20
       DEF Next, Producer, Pause, Consumer

LEMMA WrittenInvStep ==
  ASSUME BankTypeOK, ActorTypeOK, ReaderInv, ScratchInv, WrittenInv,
         [Next]_vars
  PROVE  WrittenInv'
<1> USE ActorFacts
    DEF bankVars, readVars, callVars, BankTypeOK, ActorTypeOK, ReaderInv,
        WrittenInv, ScratchInv, Offsets
<1>1. CASE abort_frame
  <2>1. CASE state[producer_bank] = "FILLING" BY <1>1, <2>1 DEF abort_frame, AbortEffect, SetState
  <2>2. CASE ~(state[producer_bank] = "FILLING") BY <1>1, <2>2 DEF abort_frame, AbortEffect, SetState
  <2> QED BY <2>1, <2>2
<1>2. CASE begin_try
  <2> DEFINE b == index["source"]
  <2>0. b \in Banks BY DEF ActorTypeOK
  <2>1. CASE CanFill(b)
    <3>1. /\ state' = [state EXCEPT ![b] = "FILLING"] /\ producer_bank' = b
          /\ write_offset' = [write_offset EXCEPT ![b] = 0]
          /\ write_leased' = [write_leased EXCEPT ![b] = FALSE]
          /\ copied' = [copied EXCEPT ![b] = {}]
      BY <1>2, <2>1 DEF begin_try, SetState
    <3>2. \A x \in Banks : state[x] # "FILLING"
      BY <1>2 DEF begin_try
    <3>3. \A o \in Offsets : ~(o < 0) BY DEF Offsets
    <3>4. pc'["source"] # "begin" BY <1>2, <2>1 DEF begin_try, Leave, Goto
    <3> HIDE DEF b
    <3> QED BY <2>0, <3>1, <3>2, <3>3, <3>4
  <2>2. CASE ~CanFill(b) /\ b + 1 = B BY <1>2, <2>0, <2>2 DEF begin_try, Turn, Goto
  <2>3. CASE ~CanFill(b) /\ b + 1 # B BY <1>2, <2>0, <2>3 DEF begin_try, Turn
  <2> QED BY <2>1, <2>2, <2>3
<1>3. CASE acquire_write
  <2> DEFINE b == producer_bank
             Can == state[b] = "FILLING" /\ ~write_leased[b] /\ write_offset[b] < F
  <2>1. CASE Can BY <1>3, <2>1 DEF acquire_write
  <2>2. CASE ~Can /\ state[b] = "FILLING"
    BY <1>3, <2>2 DEF acquire_write, AbortEffect, SetState
  <2>3. CASE ~Can /\ state[b] # "FILLING"
    BY <1>3, <2>3 DEF acquire_write, AbortEffect, SetState
  <2> QED BY <2>1, <2>2, <2>3
<1>4. CASE copy_dma_block BY <1>4 DEF copy_dma_block
<1>5. ASSUME NEW bad \in BOOLEAN, begin_frame(bad) PROVE WrittenInv'
  <2>1. CASE state[producer_bank] = "FILLING"
    BY SMTT(40), <1>5, <2>1, BankFacts DEF begin_frame, AbortEffect, SetState
  <2>2. CASE state[producer_bank] # "FILLING"
    <3>1. UNCHANGED <<state, write_offset, write_leased, producer_bank, copied>>
      BY <1>5, <2>2 DEF begin_frame, AbortEffect
    <3>2. \A b \in Banks : state[b] # "FILLING" BY <2>2
    <3> QED BY <3>1, <3>2
  <2> QED BY <2>1, <2>2
<1>6. ASSUME NEW bad \in BOOLEAN, NEW end \in BOOLEAN, commit_write(bad, end) PROVE WrittenInv'
  <2> DEFINE b == producer_bank
             Can == /\ ~bad /\ state[b] = "FILLING" /\ write_leased[b]
                    /\ end = (write_offset[b] + 1 = F)
  <2>1. CASE Can
    <3> DEFINE o == write_offset[b]
    <3>1. /\ o \in Offsets /\ o \in copied[b] /\ o \in Nat
          /\ \A x \in Offsets : x < o + 1 => x < o \/ x = o
      BY <1>6, <2>1, OffsetFacts DEF commit_write, Offsets
    <3>2. \A x \in Offsets : x < o + 1 => x \in copied[b] BY <2>1, <3>1
    <3>3. /\ write_offset' = [write_offset EXCEPT ![b] = o + 1]
          /\ write_leased' = [write_leased EXCEPT ![b] = FALSE]
          /\ UNCHANGED <<producer_bank, copied, pc>>
      BY <1>6, <2>1 DEF commit_write
    <3>4. CASE end
      <4>1. state' = [state EXCEPT ![b] = "READY"]
        BY <1>6, <2>1, <3>4 DEF commit_write, SetState
      <4>2. copied[b] = Offsets
        <5>1. \A x \in Offsets : x < o + 1 BY <2>1, <3>4, BankFacts DEF Offsets
        <5> QED BY <3>2, <5>1
      <4> QED BY <2>1, <3>3, <4>1, <4>2
    <3>5. CASE ~end
      <4>1. state' = state BY <1>6, <2>1, <3>5 DEF commit_write
      <4> QED BY <2>1, <3>2, <3>3, <4>1
    <3> QED BY <3>4, <3>5
  <2>2. CASE ~Can /\ state[b] = "FILLING"
    BY SMTT(40), <1>6, <2>2, BankFacts, OffsetFacts DEF commit_write, AbortEffect, SetState
  <2>3. CASE ~Can /\ state[b] # "FILLING"
    BY <1>6, <2>3 DEF commit_write, AbortEffect
  <2> QED BY <2>1, <2>2, <2>3
<1>7. CASE pause
  <2>1. CASE state[producer_bank] = "FILLING" BY <1>7, <2>1 DEF pause, AbortEffect, SetState, Goto
  <2>2. CASE ~(state[producer_bank] = "FILLING") BY <1>7, <2>2 DEF pause, AbortEffect, SetState, Goto
  <2> QED BY <2>1, <2>2
<1>8. CASE scratch_acquire
  <2> DEFINE b == index["source"]
  <2>0. b \in Banks BY DEF ActorTypeOK
  <2>1. CASE CanBorrow(b)
    <3>1. state' = [state EXCEPT ![b] = "SCRATCH"]
      BY <1>8, <2>1 DEF scratch_acquire, SetState
    <3>2. UNCHANGED <<write_offset, write_leased, producer_bank, copied>>
      BY <1>8 DEF scratch_acquire
    <3>3. pc'["source"] # "begin"
      BY <1>8, <2>1 DEF scratch_acquire, Turn, Goto
    <3> HIDE DEF b
    <3> QED BY <2>0, <3>1, <3>2, <3>3
  <2>2. CASE ~CanBorrow(b) BY <1>8, <2>0, <2>2 DEF scratch_acquire, Goto
  <2> QED BY <2>1, <2>2
<1>9. CASE rollback
  <2> DEFINE i == index["source"]
  <2>0. i \in Banks BY DEF ActorTypeOK
  <2>1. CASE i = 0 BY <1>9, <2>0, BankFacts, <2>1 DEF rollback, Goto
  <2>2. CASE i # 0 BY ZenonT(60), <1>9, <2>0, BankFacts, <2>2 DEF rollback, SetState, Taken
  <2> QED BY <2>1, <2>2
<1>10. CASE resume BY <1>10 DEF resume, Goto
<1>11. CASE scratch_release
  <2> DEFINE b == index["source"]
  <2>0. b \in Banks BY DEF ActorTypeOK
  <2>1. UNCHANGED <<write_offset, write_leased, producer_bank, copied>>
    BY <1>11 DEF scratch_release
  <2>2. pc'["source"] # "begin"
    <3>1. pc["source"] = "resume" /\ Turn("source", "idle")
      BY <1>11 DEF scratch_release
    <3>2. pc' = pc \/ pc' = [pc EXCEPT !["source"] = "idle"]
      BY <3>1 DEF Turn, Goto
    <3> QED BY <3>1, <3>2
  <2>3. state' = state \/ state' = [state EXCEPT ![b] = "FREE"]
    BY <1>11 DEF scratch_release, SetState
  <2> HIDE DEF b
  <2>4. CASE state' = state BY <2>1, <2>2, <2>4
  <2>5. CASE state' = [state EXCEPT ![b] = "FREE"] BY <2>0, <2>1, <2>2, <2>5
  <2> QED BY <2>3, <2>4, <2>5
<1>12. ASSUME NEW b \in Banks, scratch_write(b) PROVE WrittenInv'
  BY <1>12 DEF scratch_write
<1>13. ASSUME NEW c \in Actors, peek_cas(c) PROVE WrittenInv'
  <2>1. CASE read_leased BY <1>13, <2>1 DEF peek_cas, Goto, LeaseTaken, AfterMiss
  <2>2. CASE ~read_leased BY <1>13, <2>2 DEF peek_cas, Goto, LeaseTaken
  <2> QED BY <2>1, <2>2
<1>14. ASSUME NEW c \in Actors, peek_select(c) PROVE WrittenInv'
  <2>1. CASE state[consumer_bank] = "READING" BY <1>14, <2>1 DEF peek_select, Goto
  <2>2. CASE state[consumer_bank] # "READING" BY <1>14, <2>2 DEF peek_select, Goto
  <2> QED BY <2>1, <2>2
<1>15. ASSUME NEW c \in Actors, peek_scan(c) PROVE WrittenInv'
  <2>1. UNCHANGED <<state, write_offset, write_leased, copied, producer_bank>>
        /\ pc[c] = "scan" /\ Turn(c, "take")
    BY <1>15 DEF peek_scan
  <2>2. pc' = pc \/ pc' = [pc EXCEPT ![c] = "take"] BY <2>1 DEF Turn, Goto
  <2>3. pc'["source"] = "begin" => pc["source"] = "begin" BY <2>2
  <2> QED BY <2>1, <2>3
<1>16. ASSUME NEW c \in Actors, peek_take(c) PROVE WrittenInv'
  <2>1. CASE selected[c] = None
    BY <1>16, <2>1 DEF peek_take, Goto, AfterMiss, DropLease
  <2>2. CASE selected[c] # None
    BY SMTT(40), <1>16, <2>2 DEF peek_take, SetState, Goto
  <2> QED BY <2>1, <2>2
<1>17. ASSUME NEW c \in Actors, release(c) PROVE WrittenInv'
  BY <1>17 DEF release, Goto
<1>18. ASSUME NEW c \in Actors, release_bank(c) PROVE WrittenInv'
  BY <1>18 DEF release_bank, SetState, Goto
<1>19. ASSUME NEW c \in Actors, release_lease(c) PROVE WrittenInv'
  BY <1>19 DEF release_lease, Goto, DropLease, AfterRelease
<1>20. CASE UNCHANGED vars BY <1>20 DEF vars
<1> QED BY <1>1, <1>2, <1>3, <1>4, <1>5, <1>6, <1>7, <1>8, <1>9, <1>10, <1>11,
          <1>12, <1>13, <1>14, <1>15, <1>16, <1>17, <1>18, <1>19, <1>20
       DEF Next, Producer, Pause, Consumer

LEMMA ScratchInvStep ==
  ASSUME BankTypeOK, ActorTypeOK, LeaseInv, ReaderInv, ScratchInv, LoopInv,
         [Next]_vars
  PROVE  ScratchInv'
<1> USE ActorFacts
    DEF bankVars, readVars, callVars, BankTypeOK, ActorTypeOK, LeaseInv,
        InLease, ReaderInv, ScratchInv, LoopInv
<1>1. CASE abort_frame
  <2>1. CASE state[producer_bank] = "FILLING" BY <1>1, <2>1 DEF abort_frame, AbortEffect, SetState
  <2>2. CASE ~(state[producer_bank] = "FILLING") BY <1>1, <2>2 DEF abort_frame, AbortEffect, SetState
  <2> QED BY <2>1, <2>2
<1>2. CASE begin_try
  <2> DEFINE b == index["source"]
  <2>0. b \in Banks BY DEF ActorTypeOK
  <2>1. CASE CanFill(b) BY <1>2, <2>0, BankFacts, <2>1 DEF begin_try, SetState, Leave, Goto, CanFill
  <2>2. CASE ~CanFill(b) /\ b + 1 = B BY <1>2, <2>0, BankFacts, <2>2 DEF begin_try, Turn, Goto
  <2>3. CASE ~CanFill(b) /\ b + 1 # B BY <1>2, <2>0, BankFacts, <2>3 DEF begin_try, Turn
  <2> QED BY <2>1, <2>2, <2>3
<1>3. CASE acquire_write
  <2> DEFINE b == producer_bank
             Can == state[b] = "FILLING" /\ ~write_leased[b] /\ write_offset[b] < F
  <2>1. CASE Can BY <1>3, <2>1 DEF acquire_write
  <2>2. CASE ~Can /\ state[b] = "FILLING"
    BY <1>3, <2>2 DEF acquire_write, AbortEffect, SetState
  <2>3. CASE ~Can /\ state[b] # "FILLING"
    BY <1>3, <2>3 DEF acquire_write, AbortEffect, SetState
  <2> QED BY <2>1, <2>2, <2>3
<1>4. CASE copy_dma_block BY <1>4 DEF copy_dma_block
<1>5. ASSUME NEW bad \in BOOLEAN, begin_frame(bad) PROVE ScratchInv'
  <2>1. CASE state[producer_bank] = "FILLING"
    BY <1>5, <2>1 DEF begin_frame, AbortEffect, SetState, Incr, Words
  <2>2. CASE state[producer_bank] # "FILLING" /\ bad
    BY <1>5, <2>2 DEF begin_frame, AbortEffect, SetState, Incr, Words
  <2>3. CASE state[producer_bank] # "FILLING" /\ ~bad
    BY <1>5, <2>3 DEF begin_frame, Goto, Incr, Words
  <2> QED BY <2>1, <2>2, <2>3
<1>6. ASSUME NEW bad \in BOOLEAN, NEW end \in BOOLEAN, commit_write(bad, end) PROVE ScratchInv'
  <2> DEFINE b == producer_bank
             Can == /\ ~bad /\ state[b] = "FILLING" /\ write_leased[b]
                    /\ end = (write_offset[b] + 1 = F)
  <2>1. CASE Can /\ end
    <3>1. state' = [state EXCEPT ![b] = "READY"] BY <1>6, <2>1 DEF commit_write, SetState
    <3>2. UNCHANGED <<frame_sequence, readVars, pc, callVars>>
      BY <1>6, <2>1 DEF commit_write
    <3> QED BY <2>1, <3>1, <3>2
  <2>2. CASE Can /\ ~end BY <1>6, <2>2 DEF commit_write, SetState
  <2>3. CASE ~Can /\ state[b] = "FILLING"
    <3>1. state' = [state EXCEPT ![b] = "FREE"]
      BY <1>6, <2>3 DEF commit_write, AbortEffect, SetState
    <3>2. UNCHANGED <<frame_sequence, readVars, pc, callVars>>
      BY <1>6, <2>3 DEF commit_write
    <3> QED BY <2>3, <3>1, <3>2
  <2>4. CASE ~Can /\ state[b] # "FILLING"
    BY <1>6, <2>4 DEF commit_write, AbortEffect, SetState
  <2> QED BY <2>1, <2>2, <2>3, <2>4
<1>7. CASE pause
  <2>1. CASE state[producer_bank] = "FILLING" BY <1>7, <2>1 DEF pause, AbortEffect, SetState, Goto
  <2>2. CASE ~(state[producer_bank] = "FILLING") BY <1>7, <2>2 DEF pause, AbortEffect, SetState, Goto
  <2> QED BY <2>1, <2>2
<1>8. CASE scratch_acquire
  <2> DEFINE i == index["source"]
  <2>0. i \in Banks /\ i \in Nat /\ \A b \in Banks : b \in Nat /\ b < B BY BankFacts
  <2>1. pc["source"] = "scratch" /\ \A b \in Banks : state[b] = "SCRATCH" <=> b < i
    BY <1>8 DEF scratch_acquire
  <2>2. CASE CanBorrow(i)
    <3>1. state' = [state EXCEPT ![i] = "SCRATCH"]
      BY <1>8, <2>2 DEF scratch_acquire, SetState
    <3>2. \A b \in Banks : state'[b] = "SCRATCH" <=> b < i + 1
      <4> HIDE DEF i
      <4>1. \A b \in Banks : b < i + 1 <=> b < i \/ b = i BY <2>0
      <4>2. \A b \in Banks : state'[b] = "SCRATCH" <=> state[b] = "SCRATCH" \/ b = i
        BY <2>0, <3>1
      <4> QED BY <2>1, <4>1, <4>2
    <3>3. CASE i + 1 = B
      <4>1. pc'["source"] = "held"
        BY <1>8, <2>2, <3>3 DEF scratch_acquire, Turn, Goto
      <4>2. \A b \in Banks : b < i + 1 BY <2>0, <3>3
      <4> QED BY <3>2, <4>1, <4>2
    <3>4. CASE i + 1 # B
      <4>1. pc'["source"] = "scratch" /\ index'["source"] = i + 1
        BY <1>8, <2>1, <2>2, <3>4 DEF scratch_acquire, Turn
      <4> QED BY <3>2, <4>1
    <3> QED BY <3>3, <3>4
  <2>3. CASE ~CanBorrow(i)
    <3>1. pc'["source"] = "rollback" /\ state' = state /\ index' = index
      BY <1>8, <2>3 DEF scratch_acquire, Goto
    <3> QED BY <2>1, <3>1
  <2> QED BY <2>2, <2>3
<1>9. CASE rollback
  <2> DEFINE i == index["source"]
  <2>0. i \in Banks /\ i \in Nat /\ \A b \in Banks : b \in Nat BY BankFacts
  <2>1. CASE i = 0
    <3>1. \A b \in Banks : ~(b < i) BY <2>0, <2>1
    <3>2. pc'["source"] = "idle" /\ state' = state BY <1>9, <2>1 DEF rollback, Goto
    <3> QED BY <1>9, <3>1, <3>2 DEF rollback
  <2>2. CASE i # 0
    <3>1. /\ state' = [state EXCEPT ![i - 1] = "FREE"] /\ pc' = pc
          /\ index'["source"] = i - 1
      BY <1>9, <2>2 DEF rollback, SetState, Taken
    <3>2. i - 1 \in Banks /\ \A b \in Banks : (b < i - 1) <=> (b < i /\ b # i - 1)
      BY <2>0, <2>2, BankFacts
    <3>3. pc["source"] = "rollback" BY <1>9 DEF rollback
    <3> HIDE DEF i
    <3>4. \A b \in Banks : state[b] = "SCRATCH" <=> b < i BY <3>3 DEF i
    <3>5. \A b \in Banks : state'[b] = "SCRATCH" <=> b < i /\ b # i - 1
      BY <3>1, <3>2, <3>4
    <3> QED BY <3>1, <3>2, <3>3, <3>5
  <2> QED BY <2>1, <2>2
<1>10. CASE resume
  <2>1. index["source"] = 0 /\ \A b \in Banks : b >= 0
    BY <1>10, BankFacts DEF resume
  <2> QED BY <1>10, <2>1 DEF resume, Goto
<1>11. CASE scratch_release
  <2> DEFINE i == index["source"]
  <2>0. i \in Banks /\ i \in Nat /\ \A b \in Banks : b \in Nat /\ b < B BY BankFacts
  <2>1. pc["source"] = "resume" /\ \A b \in Banks : state[b] = "SCRATCH" <=> b >= i
    BY <1>11 DEF scratch_release
  <2>2. state' = [state EXCEPT ![i] = "FREE"]
    BY <1>11, <2>0, <2>1 DEF scratch_release, SetState
  <2>3. \A b \in Banks : state'[b] = "SCRATCH" <=> b >= i + 1
    <3> HIDE DEF i
    <3>1. \A b \in Banks : b >= i + 1 <=> b >= i /\ b # i BY <2>0
    <3>2. \A b \in Banks : state'[b] = "SCRATCH" <=> state[b] = "SCRATCH" /\ b # i
      BY <2>0, <2>2
    <3> QED BY <2>1, <3>1, <3>2
  <2>4. CASE i + 1 = B
    <3>1. pc'["source"] = "idle" BY <1>11, <2>4 DEF scratch_release, Turn, Goto
    <3>2. \A b \in Banks : ~(b >= i + 1) BY <2>0, <2>4
    <3> QED BY <2>3, <3>1, <3>2
  <2>5. CASE i + 1 # B
    <3>1. pc'["source"] = "resume" /\ index'["source"] = i + 1
      BY <1>11, <2>1, <2>5 DEF scratch_release, Turn
    <3> QED BY <2>3, <3>1
  <2> QED BY <2>4, <2>5
<1>12. ASSUME NEW b \in Banks, scratch_write(b) PROVE ScratchInv'
  BY <1>12 DEF scratch_write
<1>13. ASSUME NEW c \in Actors, peek_cas(c) PROVE ScratchInv'
  <2>1. state' = state /\ index' = index BY <1>13 DEF peek_cas
  <2>2. CASE c = "http" BY <1>13, <2>1, <2>2 DEF peek_cas, Goto
  <2>3. CASE c # "http"
    <3>1. c = "source" /\ pc["source"] = "peek" /\ index["source"] = 0
      BY <1>13, <2>3 DEF peek_cas, Actors
    <3>2. pc'["source"] \in {"scratch", "select"}
      BY <1>13, <3>1 DEF peek_cas, Goto, LeaseTaken, AfterMiss
    <3> QED BY <2>1, <3>1, <3>2, NoneBeforeFirst
  <2> QED BY <2>2, <2>3
<1>14. ASSUME NEW c \in Actors, peek_select(c) PROVE ScratchInv'
  <2>1. CASE state[consumer_bank] = "READING" BY <1>14, <2>1 DEF peek_select, Goto
  <2>2. CASE state[consumer_bank] # "READING" BY <1>14, <2>2 DEF peek_select, Goto
  <2> QED BY <2>1, <2>2
<1>15. ASSUME NEW c \in Actors, peek_scan(c) PROVE ScratchInv'
  <2>0. index[c] \in Banks BY DEF ActorTypeOK
  <2>1. CASE index[c] + 1 = B BY <1>15, <2>0, BankFacts, <2>1 DEF peek_scan, Turn, Goto
  <2>2. CASE index[c] + 1 # B BY <1>15, <2>0, BankFacts, <2>2 DEF peek_scan, Turn, Goto
  <2> QED BY <2>1, <2>2
<1>16. ASSUME NEW c \in Actors, peek_take(c) PROVE ScratchInv'
  <2>1. CASE selected[c] = None
    <3>1. state' = state /\ index' = index BY <1>16, <2>1 DEF peek_take
    <3>2. CASE c = "http" BY <1>16, <2>1, <3>1, <3>2 DEF peek_take, Goto, AfterMiss
    <3>3. CASE c # "http"
      <4>1. c = "source" /\ pc["source"] = "take" /\ index["source"] = 0
        BY <1>16, <3>3 DEF peek_take, Actors
      <4>2. pc'["source"] = "scratch"
        BY <1>16, <2>1, <4>1 DEF peek_take, Goto, AfterMiss
      <4> QED BY <3>1, <4>1, <4>2, NoneBeforeFirst
    <3> QED BY <3>2, <3>3
  <2>2. CASE selected[c] # None
    BY <1>16, <2>2 DEF peek_take, SetState, Goto
  <2> QED BY <2>1, <2>2
<1>17. ASSUME NEW c \in Actors, release(c) PROVE ScratchInv'
  BY <1>17 DEF release, Goto
<1>18. ASSUME NEW c \in Actors, release_bank(c) PROVE ScratchInv'
  BY <1>18 DEF release_bank, SetState, Goto
<1>19. ASSUME NEW c \in Actors, release_lease(c) PROVE ScratchInv'
  <2>1. state' = state /\ index' = index BY <1>19 DEF release_lease
  <2>2. CASE c = "http" BY <1>19, <2>1, <2>2 DEF release_lease, Goto, AfterRelease
  <2>3. CASE c # "http"
    <3>1. c = "source" /\ pc["source"] = "release_lease" /\ index["source"] = 0
      BY <1>19, <2>3 DEF release_lease, Actors
    <3>2. pc'["source"] \in {"scratch", "peek"}
      BY <1>19, <3>1 DEF release_lease, Goto, AfterRelease
    <3> QED BY <2>1, <3>1, <3>2, NoneBeforeFirst
  <2> QED BY <2>2, <2>3
<1>20. CASE UNCHANGED vars BY <1>20 DEF vars
<1> QED BY <1>1, <1>2, <1>3, <1>4, <1>5, <1>6, <1>7, <1>8, <1>9, <1>10, <1>11,
          <1>12, <1>13, <1>14, <1>15, <1>16, <1>17, <1>18, <1>19, <1>20
       DEF Next, Producer, Pause, Consumer

LEMMA LoopInvStep ==
  ASSUME ActorTypeOK, LoopInv, [Next]_vars
  PROVE  LoopInv'
<1> USE ActorFacts
    DEF bankVars, readVars, callVars, ActorTypeOK, LoopInv, InLease
<1>1. CASE abort_frame
  <2>1. CASE state[producer_bank] = "FILLING" BY <1>1, <2>1 DEF abort_frame, AbortEffect, SetState
  <2>2. CASE ~(state[producer_bank] = "FILLING") BY <1>1, <2>2 DEF abort_frame, AbortEffect, SetState
  <2> QED BY <2>1, <2>2
<1>2. CASE begin_try
  <2> DEFINE b == index["source"]
  <2>0. b \in Banks BY DEF ActorTypeOK
  <2>1. CASE CanFill(b) BY <1>2, <2>0, BankFacts, <2>1 DEF begin_try, SetState, Leave, Goto, CanFill
  <2>2. CASE ~CanFill(b) /\ b + 1 = B BY <1>2, <2>0, BankFacts, <2>2 DEF begin_try, Turn, Goto
  <2>3. CASE ~CanFill(b) /\ b + 1 # B BY <1>2, <2>0, BankFacts, <2>3 DEF begin_try, Turn
  <2> QED BY <2>1, <2>2, <2>3
<1>3. CASE acquire_write
  <2> DEFINE b == producer_bank
             Can == state[b] = "FILLING" /\ ~write_leased[b] /\ write_offset[b] < F
  <2>1. CASE Can BY <1>3, <2>1 DEF acquire_write
  <2>2. CASE ~Can /\ state[b] = "FILLING"
    BY <1>3, <2>2 DEF acquire_write, AbortEffect, SetState
  <2>3. CASE ~Can /\ state[b] # "FILLING"
    BY <1>3, <2>3 DEF acquire_write, AbortEffect, SetState
  <2> QED BY <2>1, <2>2, <2>3
<1>4. CASE copy_dma_block BY <1>4 DEF copy_dma_block
<1>5. ASSUME NEW bad \in BOOLEAN, begin_frame(bad) PROVE LoopInv'
  <2>1. CASE state[producer_bank] = "FILLING"
    BY <1>5, <2>1 DEF begin_frame, AbortEffect, SetState, Incr, Words
  <2>2. CASE state[producer_bank] # "FILLING" /\ bad
    BY <1>5, <2>2 DEF begin_frame, AbortEffect, SetState, Incr, Words
  <2>3. CASE state[producer_bank] # "FILLING" /\ ~bad
    BY <1>5, <2>3 DEF begin_frame, Goto, Incr, Words
  <2> QED BY <2>1, <2>2, <2>3
<1>6. ASSUME NEW bad \in BOOLEAN, NEW end \in BOOLEAN, commit_write(bad, end) PROVE LoopInv'
  <2> DEFINE b == producer_bank
             Can == /\ ~bad /\ state[b] = "FILLING" /\ write_leased[b]
                    /\ end = (write_offset[b] + 1 = F)
  <2>1. CASE Can /\ end BY <1>6, <2>1 DEF commit_write, SetState
  <2>2. CASE Can /\ ~end BY <1>6, <2>2 DEF commit_write, SetState
  <2>3. CASE ~Can /\ state[b] = "FILLING"
    BY <1>6, <2>3 DEF commit_write, AbortEffect, SetState
  <2>4. CASE ~Can /\ state[b] # "FILLING"
    BY <1>6, <2>4 DEF commit_write, AbortEffect, SetState
  <2> QED BY <2>1, <2>2, <2>3, <2>4
<1>7. CASE pause
  <2>1. 0 < B * F BY BankFacts
  <2> QED BY <1>7, <2>1 DEF pause, Goto
<1>8. CASE scratch_acquire
  <2> DEFINE b == index["source"]
  <2>0. b \in Banks BY DEF ActorTypeOK
  <2>1. CASE CanBorrow(b) /\ b + 1 = B
    BY <1>8, <2>0, BankFacts, <2>1 DEF scratch_acquire, SetState, Turn, Goto, CanBorrow
  <2>2. CASE CanBorrow(b) /\ b + 1 # B
    BY <1>8, <2>0, BankFacts, <2>2 DEF scratch_acquire, SetState, Turn, Goto, CanBorrow
  <2>3. CASE ~CanBorrow(b) BY <1>8, <2>0, BankFacts, <2>3 DEF scratch_acquire, Goto, CanBorrow
  <2> QED BY <2>1, <2>2, <2>3
<1>9. CASE rollback
  <2> DEFINE i == index["source"]
  <2>0. i \in Banks BY DEF ActorTypeOK
  <2>1. CASE i = 0 BY <1>9, <2>0, BankFacts, <2>1 DEF rollback, Goto
  <2>2. CASE i # 0 BY <1>9, <2>0, BankFacts, <2>2 DEF rollback, SetState, Taken
  <2> QED BY <2>1, <2>2
<1>10. CASE resume BY <1>10 DEF resume, Goto
<1>11. CASE scratch_release
  <2> DEFINE b == index["source"]
  <2>0. b \in Banks BY DEF ActorTypeOK
  <2>1. CASE state[b] = "SCRATCH" /\ b + 1 = B
    BY <1>11, <2>0, BankFacts, <2>1 DEF scratch_release, SetState, Turn, Goto
  <2>2. CASE state[b] = "SCRATCH" /\ b + 1 # B
    BY <1>11, <2>0, BankFacts, <2>2 DEF scratch_release, SetState, Turn, Goto
  <2>3. CASE state[b] # "SCRATCH" /\ b + 1 = B
    BY <1>11, <2>0, BankFacts, <2>3 DEF scratch_release, Turn, Goto
  <2>4. CASE state[b] # "SCRATCH" /\ b + 1 # B
    BY <1>11, <2>0, BankFacts, <2>4 DEF scratch_release, Turn, Goto
  <2> QED BY <2>1, <2>2, <2>3, <2>4
<1>12. ASSUME NEW b \in Banks, scratch_write(b) PROVE LoopInv'
  BY <1>12 DEF scratch_write
<1>13. ASSUME NEW c \in Actors, peek_cas(c) PROVE LoopInv'
  <2>1. CASE read_leased BY <1>13, <2>1 DEF peek_cas, Goto, LeaseTaken, AfterMiss
  <2>2. CASE ~read_leased BY <1>13, <2>2 DEF peek_cas, Goto, LeaseTaken
  <2> QED BY <2>1, <2>2
<1>14. ASSUME NEW c \in Actors, peek_select(c) PROVE LoopInv'
  <2>1. CASE state[consumer_bank] = "READING" BY <1>14, <2>1 DEF peek_select, Goto
  <2>2. CASE state[consumer_bank] # "READING" BY <1>14, <2>2 DEF peek_select, Goto
  <2> QED BY <2>1, <2>2
<1>15. ASSUME NEW c \in Actors, peek_scan(c) PROVE LoopInv'
  <2>0. index[c] \in Banks BY DEF ActorTypeOK
  <2>1. CASE index[c] + 1 = B BY <1>15, <2>0, BankFacts, <2>1 DEF peek_scan, Turn, Goto
  <2>2. CASE index[c] + 1 # B BY <1>15, <2>0, BankFacts, <2>2 DEF peek_scan, Turn, Goto
  <2> QED BY <2>1, <2>2
<1>16. ASSUME NEW c \in Actors, peek_take(c) PROVE LoopInv'
  <2>1. CASE selected[c] = None
    BY <1>16, <2>1 DEF peek_take, Goto, AfterMiss, DropLease
  <2>2. CASE selected[c] # None
    BY <1>16, <2>2 DEF peek_take, SetState, Goto
  <2> QED BY <2>1, <2>2
<1>17. ASSUME NEW c \in Actors, release(c) PROVE LoopInv'
  BY <1>17 DEF release, Goto
<1>18. ASSUME NEW c \in Actors, release_bank(c) PROVE LoopInv'
  BY <1>18 DEF release_bank, SetState, Goto
<1>19. ASSUME NEW c \in Actors, release_lease(c) PROVE LoopInv'
  <2>1. CASE c = "http" BY <1>19, <2>1 DEF release_lease, Goto, AfterRelease
  <2>2. CASE c # "http"
    <3>1. c = "source" BY <2>2 DEF Actors
    <3>2. drained < B * F BY <1>19, <3>1 DEF release_lease
    <3>3. drained' = drained + 1 /\ index' = index BY <1>19, <3>1 DEF release_lease
    <3>4. CASE drained + 1 = B * F
      BY <1>19, <3>1, <3>3, <3>4 DEF release_lease, Goto, AfterRelease
    <3>5. CASE drained + 1 # B * F
      <4>1. drained' < B * F BY <3>2, <3>3, <3>5, BankFacts
      <4> QED BY <1>19, <3>1, <3>3, <3>5, <4>1 DEF release_lease, Goto, AfterRelease
    <3> QED BY <3>4, <3>5
  <2> QED BY <2>1, <2>2
<1>20. CASE UNCHANGED vars BY <1>20 DEF vars
<1> QED BY <1>1, <1>2, <1>3, <1>4, <1>5, <1>6, <1>7, <1>8, <1>9, <1>10, <1>11,
          <1>12, <1>13, <1>14, <1>15, <1>16, <1>17, <1>18, <1>19, <1>20
       DEF Next, Producer, Pause, Consumer


\* The invariant is inductive.
THEOREM IInvIsInductive ==
  /\ Init => IInv
  /\ IInv /\ [Next]_vars => IInv'
<1>1. Init => IInv
  <2> SUFFICES ASSUME Init PROVE IInv OBVIOUS
  <2>1. BankTypeOK
    <3>1. 0 \in Words /\ 0 \in 0 .. F /\ 0 \in Banks /\ {} \in SUBSET Offsets
      BY BankAssumption DEF Words, Banks
    <3> QED BY <3>1 DEF Init, BankTypeOK
  <2>2. ActorTypeOK
    <3>1. 0 \in 0 .. B * F BY BankFacts
    <3> QED BY <3>1, BankFacts DEF Init, ActorTypeOK, ConsumerLabels, Actors
  <2>3. LeaseInv /\ LoopInv BY DEF Init, LeaseInv, LoopInv, InLease, Actors
  <2>4. ReaderInv BY DEF Init, ReaderInv, Actors
  <2>5. ReadBanksInv /\ WrittenInv BY DEF Init, ReadBanksInv, WrittenInv
  <2>6. ScratchInv BY DEF Init, ScratchInv, Actors
  <2> QED BY <2>1, <2>2, <2>3, <2>4, <2>5, <2>6 DEF IInv
<1>2. IInv /\ [Next]_vars => IInv'
  BY BankTypeOKStep, ActorTypeOKStep, LeaseInvStep, ReaderInvStep, ReadBanksInvStep,
     WrittenInvStep, ScratchInvStep, LoopInvStep DEF IInv
<1> QED BY <1>1, <1>2

\* The chunk a consumer reads stays what it was announced as: neither the
\* interrupt, nor a release, nor a module transaction takes its bank away.
THEOREM LentChunkStaysIntact == Spec => []LentChunkIntact
<1>1. IInv => LentChunkIntact
  <2> SUFFICES ASSUME IInv, NEW c \in Actors, view[c] # None
               PROVE  /\ state[view[c].bank] = "READING"
                      /\ frame_sequence[view[c].bank] = view[c].seq
                      /\ view[c].off \in copied[view[c].bank]
    BY DEF LentChunkIntact
  <2>1. /\ view[c] = ViewOf(consumer_bank) /\ state[consumer_bank] = "READING"
        /\ read_offset[consumer_bank] < F /\ consumer_bank \in Banks
    BY DEF IInv, ReaderInv, BankTypeOK
  <2>2. read_offset[consumer_bank] \in Offsets
    BY <2>1, OffsetFacts DEF IInv, BankTypeOK
  <2>3. copied[consumer_bank] = Offsets BY <2>1 DEF IInv, WrittenInv
  <2> QED BY <2>1, <2>2, <2>3 DEF ViewOf
<1> QED BY <1>1, IInvIsInductive, PTL DEF Spec

\* A bank a consumer may read holds all the chunks of one frame.
THEOREM PublishedBankIsWhole == Spec => []PublishedIsWhole
<1>1. IInv => PublishedIsWhole BY DEF IInv, WrittenInv, PublishedIsWhole
<1> QED BY <1>1, IInvIsInductive, PTL DEF Spec

\* A module transaction has every bank or none, and no chunk is lent meanwhile.
THEOREM ScratchIsExclusive == Spec => []ScratchExclusive
<1>1. IInv => ScratchExclusive
  <2> SUFFICES ASSUME IInv PROVE ScratchExclusive OBVIOUS
  <2>1. ASSUME pc["source"] = "held"
        PROVE  /\ \A b \in Banks : state[b] = "SCRATCH"
               /\ \A c \in Actors : view[c] = None
    <3>1. \A b \in Banks : state[b] = "SCRATCH" BY <2>1 DEF IInv, ScratchInv
    <3>2. consumer_bank \in Banks BY DEF IInv, BankTypeOK
    <3> QED BY <3>1, <3>2 DEF IInv, ReaderInv
  <2>2. ASSUME pc["source"] \notin {"scratch", "rollback", "held", "resume"}
        PROVE  \A b \in Banks : state[b] # "SCRATCH"
    BY <2>2 DEF IInv, ScratchInv
  <2> QED BY <2>1, <2>2 DEF ScratchExclusive
<1> QED BY <1>1, IInvIsInductive, PTL DEF Spec
-----------------------------------------------------------------------------
(* The banks implement the abstract queue of whole frames.  The history order  *)
(* is that queue; what is to be shown is that the consumer, which looks at one *)
(* bank after the other while the producer goes on, takes the first of it.     *)

\* A bank that holds a frame consumers have not read to its end.
Published(b) ==
  state[b] = "READY" \/ (state[b] = "READING" /\ read_offset[b] < F)

\* How many frames the camera has begun since the frame of a bank.
Age(b) == Minus(sequence, frame_sequence[b])
Places == 1 .. Len(order)

\* The queue holds the published banks, and the one being read is its first.
QueuedInv ==
  /\ order \in Seq(Banks) /\ fresh \in BOOLEAN
  /\ \A b \in Banks : Published(b) <=> \E i \in Places : order[i] = b
  /\ \A b \in Banks : state[b] = "READING" /\ read_offset[b] < F => order[1] = b
  /\ \A c \in Actors : pc[c] = "release_bank" => read_offset[consumer_bank] = F

\* The queue is sorted by age, the wrap of the numbers notwithstanding, and the
\* frame being received is younger than all of it.
AgeInv ==
  /\ \A i \in Places : Age(order[i]) <= MaxLag
  /\ \A i, j \in Places : i < j => Age(order[i]) > Age(order[j])
  /\ \A b \in Banks : state[b] = "FILLING" => frame_sequence[b] = sequence
  /\ (pc["source"] = "begin" \/ state[producer_bank] = "FILLING") =>
       \A i \in Places : Age(order[i]) > 0

\* The scan has selected the oldest of the banks it has passed, but for a frame
\* published meanwhile, which is younger than every other.
ScanInv ==
  \A c \in Actors :
    /\ pc[c] = "scan" => \A k \in Places :
         (fresh => k # Len(order)) /\ order[k] < index[c] =>
           \E m \in 1 .. k : selected[c] = order[m]
    /\ pc[c] = "take" /\ selected[c] # None => selected[c] = order[1]

OrderInv == QueuedInv /\ AgeInv /\ ScanInv

LEMMA PlaceFacts ==
  ASSUME order \in Seq(Banks)
  PROVE  /\ Len(order) \in Nat
         /\ \A i \in Places : order[i] \in Banks /\ i \in Nat /\ 1 \in Places
         /\ order = <<>> <=> Len(order) = 0
         /\ order # <<>> => 1 \in Places
<1>1. Len(order) \in Nat /\ order \in [1 .. Len(order) -> Banks] BY LenProperties
<1>2. order = <<>> <=> Len(order) = 0 BY EmptySeq
<1> QED BY <1>1, <1>2 DEF Places

\* The age of a frame is a word; an older frame compares as older as long as no
\* frame in the queue is too old.
LEMMA AgeFacts ==
  ASSUME NEW s \in Words, NEW a \in Words
  PROVE  /\ Minus(s, a) \in Nat /\ Minus(s, s) = 0 /\ Minus(s, a) < W
         /\ Minus(s, a) < MaxLag => Minus(Incr(s), a) = Minus(s, a) + 1
BY BankAssumption DEF Words, Minus, Incr

LEMMA OlderFact ==
  ASSUME NEW s \in Words, NEW a \in Words, NEW b \in Words,
         Minus(s, a) <= MaxLag, Minus(s, b) <= MaxLag
  PROVE  Older(a, b) <=> Minus(s, a) > Minus(s, b)
BY BankAssumption DEF Words, Minus, Older

\* In the queue, first means older.
LEMMA FirstIsOlder ==
  ASSUME BankTypeOK, QueuedInv, AgeInv, NEW i \in Places, NEW j \in Places
  PROVE  Older(frame_sequence[order[i]], frame_sequence[order[j]]) <=> i < j
<1>1. /\ order[i] \in Banks /\ order[j] \in Banks /\ i \in Nat /\ j \in Nat
  BY PlaceFacts DEF QueuedInv
<1>2. /\ frame_sequence[order[i]] \in Words /\ frame_sequence[order[j]] \in Words
      /\ sequence \in Words
  BY <1>1 DEF BankTypeOK
<1>3. /\ Age(order[i]) <= MaxLag /\ Age(order[j]) <= MaxLag
      /\ i < j => Age(order[i]) > Age(order[j])
      /\ j < i => Age(order[j]) > Age(order[i])
  BY DEF AgeInv
<1>4. Age(order[i]) \in Nat /\ Age(order[j]) \in Nat
  BY <1>2, AgeFacts DEF Age
<1>5. Older(frame_sequence[order[i]], frame_sequence[order[j]])
        <=> Age(order[i]) > Age(order[j])
  BY <1>2, <1>3, OlderFact DEF Age
<1>6. i = j => Age(order[i]) = Age(order[j]) OBVIOUS
<1> QED BY <1>1, <1>3, <1>4, <1>5, <1>6

\* No bank is twice in the queue.
LEMMA PlacesDiffer ==
  ASSUME BankTypeOK, QueuedInv, AgeInv,
         NEW i \in Places, NEW j \in Places, order[i] = order[j]
  PROVE  i = j
<1>1. /\ order[i] \in Banks /\ order[j] \in Banks /\ i \in Nat /\ j \in Nat
  BY PlaceFacts DEF QueuedInv
<1>2. Age(order[i]) \in Nat BY <1>1, AgeFacts DEF Age, BankTypeOK
<1>3. /\ i < j => Age(order[i]) > Age(order[j])
      /\ j < i => Age(order[j]) > Age(order[i])
  BY DEF AgeInv
<1> QED BY <1>1, <1>2, <1>3

\* The queue has a place left for the frame being received.
LEMMA RoomForOneMore ==
  ASSUME BankTypeOK, QueuedInv, AgeInv, state[producer_bank] = "FILLING"
  PROVE  Len(order) < B
<1> DEFINE Others == Banks \ {producer_bank}
<1>1. order \in [Places -> Banks] /\ Len(order) \in Nat
  BY LenProperties DEF QueuedInv, Places
<1>2. producer_bank \in Banks /\ ~Published(producer_bank)
  BY DEF BankTypeOK, Published
<1>3. order \in [Places -> Others]
  <2>1. \A i \in Places : order[i] # producer_bank BY <1>2 DEF QueuedInv
  <2> QED BY <1>1, <2>1
<1>4. IsFiniteSet(Banks) /\ Cardinality(Banks) = B
  BY FS_Interval, BankFacts DEF Banks
<1>5. IsFiniteSet(Others) /\ Cardinality(Others) = B - 1
  BY <1>2, <1>4, FS_RemoveElement
<1>6. IsFiniteSet(Places) /\ Cardinality(Places) = Len(order)
  <2>1. Len(order) \in Int /\ 1 \in Int BY <1>1
  <2>2. /\ IsFiniteSet(1 .. Len(order))
        /\ Cardinality(1 .. Len(order)) = IF 1 > Len(order) THEN 0 ELSE Len(order) - 1 + 1
    BY <2>1, FS_Interval
  <2> QED BY <1>1, <2>2 DEF Places
<1> HIDE DEF Others
<1>7. ~(Cardinality(Others) < Cardinality(Places))
  <2> SUFFICES ASSUME Cardinality(Others) < Cardinality(Places) PROVE FALSE
    OBVIOUS
  <2>1. \E i, j \in Places : i # j /\ order[i] = order[j]
    BY <1>3, <1>5, <1>6, FS_PigeonHole, ZenonT(40)
  <2> QED BY <2>1, PlacesDiffer
<1> QED BY <1>1, <1>5, <1>6, <1>7, BankFacts

\* A step that leaves the queue and its banks alone ...
SameQueue ==
  /\ order' = order
  /\ \A b \in Banks : Published(b) =>
       frame_sequence'[b] = frame_sequence[b] /\ read_offset'[b] = read_offset[b]

\* ... and has no part in the sorting and the scanning either.
Quiet ==
  /\ SameQueue
  /\ UNCHANGED <<sequence, fresh, selected>>
  /\ \A b \in Banks :
       /\ Published(b)' <=> Published(b)
       /\ state'[b] = "READING" /\ read_offset'[b] < F => state[b] = "READING"
       /\ state'[b] = "FILLING" => frame_sequence'[b] = sequence
  /\ (pc'["source"] = "begin" \/ state'[producer_bank'] = "FILLING") =>
       (pc["source"] = "begin" \/ state[producer_bank] = "FILLING")
  /\ \A c \in Actors : pc'[c] \in {"scan", "take", "release_bank"} =>
       pc'[c] = pc[c] /\ index'[c] = index[c]
  /\ \A c \in Actors : pc'[c] = "release_bank" =>
       read_offset'[consumer_bank'] = read_offset[consumer_bank]

LEMMA QuietKeepsOrder ==
  ASSUME IInv, OrderInv, Quiet
  PROVE  OrderInv'
<1>1. QueuedInv'
  <2>1. /\ order' = order /\ fresh' = fresh /\ Places' = Places
        /\ \A b \in Banks : Published(b)' <=> Published(b)
    BY DEF Quiet, SameQueue, Places
  <2>2. ASSUME NEW b \in Banks, state'[b] = "READING", read_offset'[b] < F
        PROVE  order[1] = b
    <3>1. Published(b)' BY <2>2 DEF Published
    <3>2. state[b] = "READING" /\ Published(b) BY <2>1, <2>2, <3>1 DEF Quiet
    <3> QED BY <3>2 DEF Published, OrderInv, QueuedInv
  <2>3. \A c \in Actors : pc'[c] = "release_bank" => read_offset'[consumer_bank'] = F
    BY DEF Quiet, OrderInv, QueuedInv
  <2> QED BY <2>1, <2>2, <2>3 DEF OrderInv, QueuedInv
<1>2. AgeInv'
  <2>1. /\ order' = order /\ sequence' = sequence /\ Places' = Places
    BY DEF Quiet, SameQueue, Places
  <2>2. \A i \in Places : Age(order[i])' = Age(order[i])
    <3>1. \A i \in Places : order[i] \in Banks /\ Published(order[i])
      BY PlaceFacts DEF OrderInv, QueuedInv
    <3> QED BY <2>1, <3>1 DEF Quiet, SameQueue, Age
  <2>3. \A b \in Banks : state'[b] = "FILLING" => frame_sequence'[b] = sequence
    BY DEF Quiet
  <2>4. (pc'["source"] = "begin" \/ state'[producer_bank'] = "FILLING") =>
          \A i \in Places : Age(order[i]) > 0
    BY DEF Quiet, OrderInv, AgeInv
  <2>5. /\ \A i \in Places : Age(order[i]) <= MaxLag
        /\ \A i, j \in Places : i < j => Age(order[i]) > Age(order[j])
    BY DEF OrderInv, AgeInv
  <2> QED BY <2>1, <2>2, <2>3, <2>4, <2>5 DEF AgeInv
<1>3. ScanInv'
  BY DEF Quiet, SameQueue, OrderInv, ScanInv, Places
<1> QED BY <1>1, <1>2, <1>3 DEF OrderInv

sortVars == <<frame_sequence, read_offset, producer_bank, consumer_bank, sequence,
              selected, order, fresh>>

\* Most steps change, if anything, the state of one bank that holds no frame.
LEMMA BankStateIsQuiet ==
  ASSUME IInv, OrderInv,
         UNCHANGED sortVars,
         \A b \in Banks : \/ state'[b] = state[b]
                          \/ ~Published(b) /\ state'[b] \in {"FREE", "SCRATCH"},
         pc'["source"] = "begin" => pc["source"] = "begin",
         \A c \in Actors : pc'[c] \in {"scan", "take", "release_bank"} =>
           pc'[c] = pc[c] /\ index'[c] = index[c]
  PROVE  Quiet
<1> USE DEF sortVars
<1>1. SameQueue BY DEF SameQueue
<1>2. \A b \in Banks :
        /\ Published(b)' <=> Published(b)
        /\ state'[b] = "READING" /\ read_offset'[b] < F => state[b] = "READING"
        /\ state'[b] = "FILLING" => frame_sequence'[b] = sequence
  <2> SUFFICES ASSUME NEW b \in Banks
               PROVE  /\ Published(b)' <=> Published(b)
                      /\ state'[b] = "READING" /\ read_offset'[b] < F
                           => state[b] = "READING"
                      /\ state'[b] = "FILLING" => frame_sequence'[b] = sequence
    OBVIOUS
  <2> QED BY DEF Published, OrderInv, AgeInv
<1>3. producer_bank \in Banks BY DEF IInv, BankTypeOK
<1>4. state'[producer_bank'] = "FILLING" => state[producer_bank] = "FILLING"
  BY <1>3
<1> QED BY <1>1, <1>2, <1>4 DEF Quiet

\* abort_frame, on its own and as the end of a refused call.
LEMMA AbortIsQuiet ==
  ASSUME IInv, OrderInv, AbortEffect,
         UNCHANGED <<frame_sequence, producer_bank, sequence, readVars, callVars, order,
                     fresh>>,
         pc' = pc \/ pc' = [pc EXCEPT !["source"] = "peek"]
  PROVE  Quiet
<1>1. \A b \in Banks : \/ state'[b] = state[b]
                       \/ ~Published(b) /\ state'[b] \in {"FREE", "SCRATCH"}
  <2>1. CASE state[producer_bank] = "FILLING"
    BY <2>1 DEF AbortEffect, SetState, Published, IInv, BankTypeOK
  <2>2. CASE state[producer_bank] # "FILLING" BY <2>2 DEF AbortEffect
  <2> QED BY <2>1, <2>2
<1>2. pc'["source"] = "begin" => pc["source"] = "begin"
  BY ActorFacts DEF IInv, ActorTypeOK
<1>3. \A c \in Actors : pc'[c] \in {"scan", "take", "release_bank"} => pc'[c] = pc[c]
  BY ActorFacts DEF IInv, ActorTypeOK
<1> QED BY <1>1, <1>2, <1>3, BankStateIsQuiet DEF readVars, callVars, sortVars

QuietAction ==
  \/ abort_frame \/ begin_try \/ acquire_write \/ copy_dma_block
  \/ \E bad \in BOOLEAN : commit_write(bad, FALSE)
  \/ Pause
  \/ \E c \in Actors : peek_cas(c) \/ release_bank(c) \/ release_lease(c)
  \/ UNCHANGED vars

LEMMA QuietActions ==
  ASSUME IInv, OrderInv, QuietAction
  PROVE  Quiet
<1> USE ActorFacts DEF bankVars, readVars, callVars, sortVars
<1>0. /\ producer_bank \in Banks /\ consumer_bank \in Banks
      /\ state \in [Banks -> {"FREE", "FILLING", "READY", "READING", "SCRATCH"}]
      /\ pc \in [Actors -> ConsumerLabels \cup SourceLabels]
      /\ index \in [Actors -> Banks]
  BY DEF IInv, BankTypeOK, ActorTypeOK
<1>1. CASE abort_frame BY <1>1, AbortIsQuiet DEF abort_frame
<1>2. CASE begin_try
  <2> PICK b \in Banks : b = index["source"] BY <1>0
  <2>1. CASE CanFill(b)
    <3>1. b \in Banks /\ state[b] = "FREE" /\ pc["source"] = "begin"
      BY <1>0, <1>2, <2>1 DEF CanFill, begin_try
    <3>2. /\ state' = [state EXCEPT ![b] = "FILLING"]
          /\ frame_sequence' = [frame_sequence EXCEPT ![b] = sequence]
          /\ read_offset' = [read_offset EXCEPT ![b] = 0]
          /\ UNCHANGED <<sequence, selected, order, fresh, consumer_bank>>
          /\ pc' = [pc EXCEPT !["source"] = "idle"]
          /\ index' = [index EXCEPT !["source"] = 0]
      BY <1>2, <2>1 DEF begin_try, SetState, Leave, Goto
    <3>3. \A d \in Banks : d # b =>
            /\ state'[d] = state[d] /\ frame_sequence'[d] = frame_sequence[d]
            /\ read_offset'[d] = read_offset[d]
      BY <3>2 DEF IInv, BankTypeOK
    <3>4. /\ state'[b] = "FILLING" /\ frame_sequence'[b] = sequence
          /\ ~Published(b) /\ ~Published(b)'
      BY <3>1, <3>2 DEF IInv, BankTypeOK, Published
    <3>5. SameQueue BY <3>2, <3>3, <3>4 DEF SameQueue
    <3>6. \A d \in Banks :
            /\ Published(d)' <=> Published(d)
            /\ state'[d] = "READING" /\ read_offset'[d] < F => state[d] = "READING"
            /\ state'[d] = "FILLING" => frame_sequence'[d] = sequence
      BY <3>3, <3>4 DEF Published, OrderInv, AgeInv
    <3>7. \A c \in Actors : pc'[c] \in {"scan", "take", "release_bank"} =>
            pc'[c] = pc[c] /\ index'[c] = index[c]
      BY <1>0, <3>2
    <3>8. \A c \in Actors : pc'[c] = "release_bank" =>
            read_offset'[consumer_bank'] = read_offset[consumer_bank]
      <4> SUFFICES ASSUME NEW c \in Actors, pc'[c] = "release_bank"
                   PROVE  read_offset'[consumer_bank'] = read_offset[consumer_bank]
        OBVIOUS
      <4>1. state[consumer_bank] = "READING" BY <3>7 DEF IInv, ReaderInv
      <4>2. consumer_bank # b /\ consumer_bank' = consumer_bank
        BY <3>1, <3>2, <4>1
      <4> QED BY <1>0, <3>3, <4>2
    <3> QED BY <3>1, <3>2, <3>5, <3>6, <3>7, <3>8 DEF Quiet
  <2>2. CASE ~CanFill(b)
    <3>1. /\ UNCHANGED <<sortVars, state>>
          /\ pc["source"] = "begin" /\ Turn("source", "idle")
      BY <1>2, <2>2 DEF begin_try
    <3>2. \A c \in Actors : pc'[c] \in {"scan", "take", "release_bank"} =>
            pc'[c] = pc[c] /\ index'[c] = index[c]
      BY <1>0, <3>1 DEF Turn, Goto
    <3> QED BY <3>1, <3>2, BankStateIsQuiet
  <2> QED BY <2>1, <2>2
<1>3. CASE acquire_write
  <2>1. CASE AbortEffect BY <1>3, <2>1, AbortIsQuiet DEF acquire_write
  <2>2. CASE ~AbortEffect
    <3>1. UNCHANGED <<sortVars, state, pc, index>>
      BY <1>3, <2>2 DEF acquire_write
    <3> QED BY <3>1, BankStateIsQuiet
  <2> QED BY <2>1, <2>2
<1>4. CASE copy_dma_block
  <2>1. UNCHANGED <<sortVars, state, pc, index>>
    BY <1>4 DEF copy_dma_block
  <2> QED BY <2>1, BankStateIsQuiet
<1>5. ASSUME NEW bad \in BOOLEAN, commit_write(bad, FALSE) PROVE Quiet
  <2>1. CASE AbortEffect /\ UNCHANGED <<order, fresh>>
    BY <1>5, <2>1, AbortIsQuiet DEF commit_write
  <2>2. CASE ~(AbortEffect /\ UNCHANGED <<order, fresh>>)
    <3>1. UNCHANGED <<frame_sequence, read_offset, producer_bank, consumer_bank, sequence, selected,
                      order, state, pc, index>>
      BY <1>5, <2>2 DEF commit_write
    <3>2. fresh' = (fresh \/ FALSE) BY <1>5, <2>2 DEF commit_write
    <3>3. fresh' = fresh BY <3>2 DEF OrderInv, QueuedInv
    <3> QED BY <3>1, <3>3, BankStateIsQuiet
  <2> QED BY <2>1, <2>2
<1>6. CASE pause
  <2>1. /\ AbortEffect /\ pc' = [pc EXCEPT !["source"] = "peek"]
        /\ UNCHANGED <<frame_sequence, producer_bank, sequence, readVars, index,
                       selected, view, order, fresh>>
    BY <1>6 DEF pause, Goto
  <2>2. \A b \in Banks : \/ state'[b] = state[b]
                         \/ ~Published(b) /\ state'[b] \in {"FREE", "SCRATCH"}
    <3>1. CASE state[producer_bank] = "FILLING"
      BY <1>0, <2>1, <3>1 DEF AbortEffect, SetState, Published
    <3>2. CASE state[producer_bank] # "FILLING" BY <2>1, <3>2 DEF AbortEffect
    <3> QED BY <3>1, <3>2
  <2>3. /\ pc'["source"] = "peek"
        /\ \A c \in Actors :
               pc'[c] \in {"scan", "take", "release_bank"} => pc'[c] = pc[c]
    BY <1>0, <2>1
  <2> QED BY <2>1, <2>2, <2>3, BankStateIsQuiet
<1>7. CASE scratch_acquire
  <2> DEFINE b == index["source"]
  <2>1. UNCHANGED sortVars
    BY <1>7 DEF scratch_acquire
  <2>2. pc["source"] = "scratch" BY <1>7 DEF scratch_acquire
  <2>3. CASE CanBorrow(b)
    <3>1. state' = [state EXCEPT ![b] = "SCRATCH"] /\ Turn("source", "held")
      BY <1>7, <2>3 DEF scratch_acquire, SetState
    <3>2. \A d \in Banks : \/ state'[d] = state[d]
                           \/ ~Published(d) /\ state'[d] \in {"FREE", "SCRATCH"}
      BY <1>0, <2>3, <3>1 DEF CanBorrow, Published
    <3>3. /\ pc'["source"] # "begin"
          /\ \A c \in Actors : pc'[c] \in {"scan", "take", "release_bank"} =>
               pc'[c] = pc[c] /\ index'[c] = index[c]
      BY <1>0, <2>2, <3>1 DEF Turn, Goto
    <3> QED BY <2>1, <3>2, <3>3, BankStateIsQuiet
  <2>4. CASE ~CanBorrow(b)
    <3>1. pc' = [pc EXCEPT !["source"] = "rollback"] /\ UNCHANGED <<state, index>>
      BY <1>7, <2>4 DEF scratch_acquire, Goto
    <3>2. /\ pc'["source"] # "begin"
          /\ \A c \in Actors :
               pc'[c] \in {"scan", "take", "release_bank"} => pc'[c] = pc[c]
      BY <1>0, <3>1
    <3> QED BY <2>1, <3>1, <3>2, BankStateIsQuiet
  <2> QED BY <2>3, <2>4
<1>8. CASE rollback
  <2> DEFINE i == index["source"]
  <2>1. UNCHANGED sortVars
    BY <1>8 DEF rollback
  <2>2. pc["source"] = "rollback" BY <1>8 DEF rollback
  <2>3. CASE i = 0
    <3>1. pc' = [pc EXCEPT !["source"] = "idle"] /\ UNCHANGED <<state, index>>
      BY <1>8, <2>3 DEF rollback, Goto
    <3>2. /\ pc'["source"] # "begin"
          /\ \A c \in Actors :
               pc'[c] \in {"scan", "take", "release_bank"} => pc'[c] = pc[c]
      BY <1>0, <3>1
    <3> QED BY <2>1, <3>1, <3>2, BankStateIsQuiet
  <2>4. CASE i # 0
    <3>1. /\ state' = [state EXCEPT ![i - 1] = "FREE"] /\ pc' = pc
          /\ index' = [index EXCEPT !["source"] = i - 1]
      BY <1>8, <2>4 DEF rollback, SetState, Taken
    <3>2. i \in Banks BY <1>0
    <3>3. i - 1 \in Banks /\ i - 1 < i BY <2>4, <3>2, BankFacts
    <3>4. state[i - 1] = "SCRATCH" BY <2>2, <3>3 DEF IInv, ScratchInv
    <3>5. \A d \in Banks : \/ state'[d] = state[d]
                           \/ ~Published(d) /\ state'[d] \in {"FREE", "SCRATCH"}
      BY <1>0, <3>1, <3>4 DEF Published
    <3>6. /\ pc'["source"] # "begin"
          /\ \A c \in Actors : pc'[c] \in {"scan", "take", "release_bank"} =>
               pc'[c] = pc[c] /\ index'[c] = index[c]
      BY <1>0, <2>2, <3>1
    <3> QED BY <2>1, <3>5, <3>6, BankStateIsQuiet
  <2> QED BY <2>3, <2>4
<1>9. CASE resume
  <2>1. /\ UNCHANGED <<sortVars, state, index>>
        /\ pc' = [pc EXCEPT !["source"] = "resume"]
    BY <1>9 DEF resume, Goto
  <2>2. /\ pc'["source"] # "begin"
        /\ \A c \in Actors :
               pc'[c] \in {"scan", "take", "release_bank"} => pc'[c] = pc[c]
    BY <1>0, <2>1
  <2> QED BY <2>1, <2>2, BankStateIsQuiet
<1>10. CASE scratch_release
  <2> DEFINE b == index["source"]
  <2>1. /\ UNCHANGED sortVars
        /\ pc["source"] = "resume" /\ Turn("source", "idle")
    BY <1>10 DEF scratch_release
  <2>2. \A d \in Banks : \/ state'[d] = state[d]
                         \/ ~Published(d) /\ state'[d] \in {"FREE", "SCRATCH"}
    BY <1>0, <1>10 DEF scratch_release, SetState, Published
  <2>3. /\ pc'["source"] # "begin"
        /\ \A c \in Actors : pc'[c] \in {"scan", "take", "release_bank"} =>
             pc'[c] = pc[c] /\ index'[c] = index[c]
    BY <1>0, <2>1 DEF Turn, Goto
  <2> QED BY <2>1, <2>2, <2>3, BankStateIsQuiet
<1>11. ASSUME NEW b \in Banks, scratch_write(b) PROVE Quiet
  <2>1. UNCHANGED <<sortVars, state, pc, index>>
    BY <1>11 DEF scratch_write
  <2> QED BY <2>1, BankStateIsQuiet
<1>12. ASSUME NEW c \in Actors, peek_cas(c) PROVE Quiet
  <2>1. UNCHANGED <<sortVars, state, index>>
    BY <1>12 DEF peek_cas
  <2>2. \E l \in {"idle", "scratch", "select"} : pc' = [pc EXCEPT ![c] = l]
    BY <1>12 DEF peek_cas, Goto, AfterMiss
  <2>3. /\ pc'["source"] = "begin" => pc["source"] = "begin"
        /\ \A d \in Actors :
             pc'[d] \in {"scan", "take", "release_bank"} => pc'[d] = pc[d]
    BY <1>0, <2>2
  <2> QED BY <2>1, <2>3, BankStateIsQuiet
<1>13. ASSUME NEW c \in Actors, release_bank(c) PROVE Quiet
  <2>1. /\ UNCHANGED <<sortVars, index>>
        /\ state' = [state EXCEPT ![consumer_bank] = "FREE"]
        /\ pc' = [pc EXCEPT ![c] = "release_lease"]
    BY <1>13 DEF release_bank, SetState, Goto
  <2>2. ~Published(consumer_bank)
    BY <1>13, BankFacts DEF release_bank, IInv, ReaderInv, Published,
              OrderInv, QueuedInv
  <2>3. \A d \in Banks : \/ state'[d] = state[d]
                         \/ ~Published(d) /\ state'[d] \in {"FREE", "SCRATCH"}
    BY <1>0, <2>1, <2>2
  <2>4. /\ pc'["source"] = "begin" => pc["source"] = "begin"
        /\ \A d \in Actors :
             pc'[d] \in {"scan", "take", "release_bank"} => pc'[d] = pc[d]
    BY <1>0, <2>1
  <2> QED BY <2>1, <2>3, <2>4, BankStateIsQuiet
<1>14. ASSUME NEW c \in Actors, release_lease(c) PROVE Quiet
  <2>1. UNCHANGED <<sortVars, state, index>>
    BY <1>14 DEF release_lease
  <2>2. \E l \in {"idle", "scratch", "peek"} : pc' = [pc EXCEPT ![c] = l]
    BY <1>14 DEF release_lease, Goto, AfterRelease
  <2>3. /\ pc'["source"] = "begin" => pc["source"] = "begin"
        /\ \A d \in Actors :
             pc'[d] \in {"scan", "take", "release_bank"} => pc'[d] = pc[d]
    BY <1>0, <2>2
  <2> QED BY <2>1, <2>3, BankStateIsQuiet
<1>15. CASE UNCHANGED vars
  <2>1. UNCHANGED <<sortVars, state, pc, index>>
    BY <1>15 DEF vars
  <2> QED BY <2>1, BankStateIsQuiet
<1> QED BY <1>1, <1>2, <1>3, <1>4, <1>5, <1>6, <1>7, <1>8, <1>9, <1>10, <1>11, <1>12,
          <1>13, <1>14, <1>15
       DEF QuietAction, Pause

\* begin_frame: every queued frame is one frame older, and none is too old.
LEMMA BeginKeepsOrder ==
  ASSUME IInv, OrderInv, NEW bad \in BOOLEAN, begin_frame(bad)
  PROVE  SameQueue /\ OrderInv'
<1> USE ActorFacts DEF bankVars, readVars, callVars
<1>0. /\ producer_bank \in Banks
      /\ state \in [Banks -> {"FREE", "FILLING", "READY", "READING", "SCRATCH"}]
      /\ pc \in [Actors -> ConsumerLabels \cup SourceLabels]
      /\ sequence \in Words /\ frame_sequence \in [Banks -> Words]
  BY DEF IInv, BankTypeOK, ActorTypeOK
<1>1. /\ UNCHANGED <<frame_sequence, producer_bank, readVars, callVars, order, fresh>>
      /\ sequence' = Incr(sequence) /\ pc["source"] = "idle"
  BY DEF begin_frame
<1>2. \A b \in Banks : /\ state'[b] = state[b] \/ (~Published(b) /\ state'[b] = "FREE")
                       /\ state'[b] # "FILLING"
  <2>1. \A b \in Banks : b # producer_bank => state[b] # "FILLING"
    BY DEF IInv, WrittenInv
  <2>2. CASE state[producer_bank] = "FILLING"
    <3>1. state' = [state EXCEPT ![producer_bank] = "FREE"]
      BY <2>2 DEF begin_frame, AbortEffect, SetState
    <3> QED BY <1>0, <2>1, <2>2, <3>1 DEF Published
  <2>3. CASE state[producer_bank] # "FILLING"
    <3>1. state' = state BY <2>3 DEF begin_frame, AbortEffect
    <3> QED BY <1>0, <2>1, <2>3, <3>1
  <2> QED BY <2>2, <2>3
<1>3. SameQueue BY <1>1 DEF SameQueue
<1>4. \A c \in Actors : pc'[c] \in {"scan", "take", "release_bank"} => pc'[c] = pc[c]
  <2>1. pc' = pc \/ pc' = [pc EXCEPT !["source"] = "begin"]
    BY DEF begin_frame, Goto
  <2> QED BY <1>0, <2>1
<1>5. QueuedInv'
  <2>1. \A b \in Banks : /\ Published(b)' <=> Published(b)
                         /\ state'[b] = "READING" => state[b] = "READING"
    BY <1>1, <1>2 DEF Published
  <2> QED BY <1>1, <1>4, <2>1 DEF OrderInv, QueuedInv, Places
<1>6. AgeInv'
  <2>1. \A i \in Places : Age(order[i])' = Age(order[i]) + 1 /\ Age(order[i]) \in Nat
                          /\ Age(order[i]) < MaxLag
    <3> SUFFICES ASSUME NEW i \in Places
                 PROVE  Age(order[i])' = Age(order[i]) + 1 /\ Age(order[i]) \in Nat
                        /\ Age(order[i]) < MaxLag
      OBVIOUS
    <3>1. order[i] \in Banks /\ Published(order[i])
      BY PlaceFacts DEF OrderInv, QueuedInv
    <3>2. Minus(sequence, frame_sequence[order[i]]) < MaxLag
      BY <3>1 DEF begin_frame, Published
    <3>3. frame_sequence[order[i]] \in Words BY <1>0, <3>1
    <3> QED BY <1>0, <1>1, <3>2, <3>3, AgeFacts DEF Age
  <2>2. Places' = Places /\ order' = order BY <1>1 DEF Places
  <2>3. \A i, j \in Places : i < j => Age(order[i]) > Age(order[j])
    BY DEF OrderInv, AgeInv
  <2>4. \A b \in Banks : state'[b] # "FILLING" BY <1>2
  <2>5. MaxLag \in Nat BY BankAssumption
  <2> QED BY <2>1, <2>2, <2>3, <2>4, <2>5 DEF AgeInv
<1>7. ScanInv'
  BY <1>1, <1>4 DEF OrderInv, ScanInv, Places
<1> QED BY <1>3, <1>5, <1>6, <1>7 DEF OrderInv

\* The last chunk of a frame publishes its bank: the youngest of the queue.
Publishes(b) ==
  /\ b = producer_bank /\ state[b] = "FILLING" /\ pc["source"] = "idle"
  /\ ~(fresh /\ Scanning)
  /\ state' = [state EXCEPT ![b] = "READY"]
  /\ order' = Append(order, b)
  /\ fresh' = TRUE
  /\ UNCHANGED <<frame_sequence, producer_bank, sequence, readVars, pc, callVars>>

LEMMA CommitOfEnd ==
  ASSUME IInv, OrderInv, NEW bad \in BOOLEAN, commit_write(bad, TRUE)
  PROVE  Quiet \/ \E b \in Banks : Publishes(b)
<1> DEFINE b == producer_bank
           Can == /\ ~bad /\ state[b] = "FILLING" /\ write_leased[b]
                  /\ TRUE = (write_offset[b] + 1 = F)
<1>1. CASE Can
  <2>1. producer_bank \in Banks BY DEF IInv, BankTypeOK
  <2>2. Publishes(producer_bank)
    BY <1>1 DEF commit_write, SetState, Publishes
  <2> QED BY <2>1, <2>2
<1>2. CASE ~Can
  <2>1. AbortEffect /\ UNCHANGED <<order, fresh>> BY <1>2 DEF commit_write
  <2> QED BY <2>1, AbortIsQuiet DEF commit_write
<1> QED BY <1>1, <1>2

LEMMA PublishKeepsOrder ==
  ASSUME IInv, OrderInv, NEW b \in Banks, Publishes(b)
  PROVE  OrderInv'
<1> USE ActorFacts DEF bankVars, readVars, callVars
<1>1. /\ order' \in Seq(Banks) /\ Len(order') = Len(order) + 1 /\ Len(order) \in Nat
      /\ \A i \in Places : order'[i] = order[i]
      /\ order'[Len(order) + 1] = b
  BY AppendProperties, LenProperties DEF Publishes, OrderInv, QueuedInv, Places
<1>2. /\ Places' = 1 .. (Len(order) + 1)
      /\ \A i \in Places' : i \in Places \/ i = Len(order) + 1
      /\ \A i \in Places : i \in Places' /\ i \in Nat /\ i <= Len(order)
      /\ Len(order) + 1 \in Places'
  BY <1>1 DEF Places
<1>3. state'[b] = "READY" /\ \A d \in Banks : d # b => state'[d] = state[d]
  BY DEF Publishes, IInv, BankTypeOK
<1>4. /\ \A d \in Banks : d # b => (Published(d)' <=> Published(d))
      /\ Published(b)' /\ ~Published(b)
  BY <1>3 DEF Publishes, Published
<1>5. \A i \in Places : order[i] \in Banks /\ Published(order[i]) /\ 1 \in Places
  BY PlaceFacts DEF OrderInv, QueuedInv
<1>6. QueuedInv'
  <2>1. \A d \in Banks : Published(d)' <=> \E i \in Places' : order'[i] = d
    BY <1>1, <1>2, <1>4, <1>5 DEF OrderInv, QueuedInv
  <2>2. ASSUME NEW d \in Banks, state'[d] = "READING", read_offset'[d] < F
        PROVE  order'[1] = d
    <3>1. d # b /\ state[d] = "READING" /\ read_offset[d] < F
      BY <1>3, <2>2 DEF Publishes
    <3>2. Published(d) BY <3>1 DEF Published
    <3>3. 1 \in Places BY <1>5, <3>2 DEF OrderInv, QueuedInv
    <3> QED BY <1>1, <3>1, <3>3 DEF OrderInv, QueuedInv
  <2>3. \A c \in Actors : pc'[c] = "release_bank" => read_offset'[consumer_bank'] = F
    BY DEF Publishes, OrderInv, QueuedInv
  <2>4. fresh' \in BOOLEAN BY DEF Publishes
  <2> QED BY <1>1, <2>1, <2>2, <2>3, <2>4 DEF QueuedInv
<1>7. AgeInv'
  <2>1. frame_sequence[b] = sequence /\ sequence \in Words
        /\ \A d \in Banks : d # b => state[d] # "FILLING"
    BY DEF Publishes, OrderInv, AgeInv, IInv, BankTypeOK, WrittenInv
  <2>2. \A d \in Banks : Minus(sequence', frame_sequence'[d]) = Age(d) /\ Age(d) \in Nat
    BY AgeFacts DEF Publishes, Age, IInv, BankTypeOK
  <2>3. Age(b) = 0 BY <2>1, AgeFacts DEF Age
  <2>4. \A i \in Places : Age(order[i]) > 0 /\ Age(order[i]) <= MaxLag
    BY DEF Publishes, OrderInv, AgeInv
  <2>5. \A i \in Places' : Age(order[i])' <= MaxLag
    BY <1>1, <1>2, <1>5, <2>2, <2>3, <2>4, BankAssumption DEF Age
  <2>6. \A i, j \in Places' : i < j => Age(order[i])' > Age(order[j])'
    <3> SUFFICES ASSUME NEW i \in Places', NEW j \in Places', i < j
                 PROVE  Minus(sequence', frame_sequence'[order'[i]])
                          > Minus(sequence', frame_sequence'[order'[j]])
      BY DEF Age
    <3>1. i \in Places /\ order'[i] = order[i] BY <1>1, <1>2
    <3>2. CASE j \in Places
      BY <1>1, <1>5, <2>2, <3>1, <3>2 DEF OrderInv, AgeInv
    <3>3. CASE j = Len(order) + 1
      BY <1>1, <1>5, <2>2, <2>3, <2>4, <3>1, <3>3
    <3> QED BY <1>2, <3>2, <3>3
  <2>7. pc'["source"] # "begin" /\ state'[producer_bank'] # "FILLING"
        /\ \A d \in Banks : state'[d] # "FILLING"
    BY <1>3, <2>1 DEF Publishes
  <2> QED BY <2>5, <2>6, <2>7 DEF AgeInv
<1>8. ScanInv'
  <2> SUFFICES ASSUME NEW c \in Actors
               PROVE  /\ pc'[c] = "scan" => \A k \in Places' :
                           (fresh' => k # Len(order')) /\ order'[k] < index'[c] =>
                             \E m \in 1 .. k : selected'[c] = order'[m]
                      /\ pc'[c] = "take" /\ selected'[c] # None =>
                           selected'[c] = order'[1]
    BY DEF ScanInv
  <2>1. pc'[c] = pc[c] /\ index'[c] = index[c] /\ selected'[c] = selected[c]
    BY DEF Publishes
  <2>2. ASSUME pc[c] = "scan", NEW k \in Places', k # Len(order'), order'[k] < index[c]
        PROVE  \E m \in 1 .. k : selected[c] = order'[m]
    <3>1. fresh = FALSE BY <2>2 DEF Publishes, Scanning, OrderInv, QueuedInv
    <3>2. k \in Places /\ order[k] < index[c] BY <1>1, <1>2, <2>2
    <3>3. PICK m \in 1 .. k : selected[c] = order[m]
      BY <2>2, <3>1, <3>2 DEF OrderInv, ScanInv
    <3>4. m \in Places BY <3>2, <3>3, <1>1 DEF Places
    <3> QED BY <1>1, <3>3, <3>4
  <2>3. ASSUME pc[c] = "take", selected[c] # None
        PROVE  selected[c] = order'[1]
    <3>1. selected[c] \in Banks /\ Published(selected[c])
      BY <2>3 DEF IInv, ReaderInv, ActorTypeOK, Published
    <3>2. 1 \in Places BY <1>5, <3>1 DEF OrderInv, QueuedInv
    <3> QED BY <1>1, <2>3, <3>2 DEF OrderInv, ScanInv
  <2>4. fresh' = TRUE BY DEF Publishes
  <2> QED BY <2>1, <2>2, <2>3, <2>4
<1> QED BY <1>6, <1>7, <1>8 DEF OrderInv

\* A consumer that holds the lease scans and takes alone.
LEMMA OneConsumer ==
  ASSUME IInv, NEW c \in Actors, InLease(c), NEW d \in Actors, InLease(d)
  PROVE  c = d
BY DEF IInv, LeaseInv

LEMMA SelectKeepsOrder ==
  ASSUME IInv, OrderInv, NEW c \in Actors, peek_select(c)
  PROVE  SameQueue /\ OrderInv'
<1> USE ActorFacts DEF bankVars, readVars, callVars
<1>0. /\ pc \in [Actors -> ConsumerLabels \cup SourceLabels]
      /\ index \in [Actors -> Banks]
  BY DEF IInv, ActorTypeOK
<1>1. /\ UNCHANGED <<state, frame_sequence, producer_bank, sequence, readVars, index,
                     selected, order>>
      /\ pc[c] = "select"
  BY DEF peek_select
<1>2. SameQueue BY <1>1 DEF SameQueue
<1>3. \/ pc' = [pc EXCEPT ![c] = "lease"] /\ fresh' = fresh
      \/ pc' = [pc EXCEPT ![c] = "scan"] /\ fresh' = FALSE
  BY DEF peek_select, Goto
<1>4. QueuedInv'
  <2>1. \A b \in Banks : Published(b)' <=> Published(b) BY <1>1 DEF Published
  <2>2. fresh' \in BOOLEAN BY <1>3 DEF OrderInv, QueuedInv
  <2>3. \A d \in Actors : pc'[d] = "release_bank" => pc[d] = "release_bank"
    BY <1>0, <1>3
  <2> QED BY <1>1, <2>1, <2>2, <2>3 DEF OrderInv, QueuedInv, Places
<1>5. AgeInv'
  <2>1. pc'["source"] = "begin" => pc["source"] = "begin" BY <1>0, <1>3
  <2> QED BY <1>1, <2>1 DEF OrderInv, AgeInv, Age, Places
<1>6. ScanInv'
  <2> SUFFICES ASSUME NEW d \in Actors
               PROVE  /\ pc'[d] = "scan" => \A k \in Places' :
                           (fresh' => k # Len(order')) /\ order'[k] < index'[d] =>
                             \E m \in 1 .. k : selected'[d] = order'[m]
                      /\ pc'[d] = "take" /\ selected'[d] # None =>
                           selected'[d] = order'[1]
    BY DEF ScanInv
  <2>1. CASE d = c
    <3>1. index'[d] = 0 BY <1>1, <2>1 DEF IInv, LoopInv
    <3>2. \A k \in Places' : ~(order'[k] < 0)
      <4>1. Places' = Places /\ \A k \in Places : order[k] \in Banks
        BY <1>1, PlaceFacts DEF OrderInv, QueuedInv, Places
      <4> QED BY <1>1, <4>1, NoneBeforeFirst
    <3>3. pc'[d] # "take" BY <1>0, <1>3, <2>1
    <3> QED BY <3>1, <3>2, <3>3
  <2>2. CASE d # c
    <3>1. pc'[d] = pc[d] BY <1>0, <1>3, <2>2
    <3>2. pc[d] # "scan" /\ pc[d] # "take" BY <1>1, <2>2, OneConsumer DEF InLease
    <3> QED BY <3>1, <3>2
  <2> QED BY <2>1, <2>2
<1> QED BY <1>2, <1>4, <1>5, <1>6 DEF OrderInv

\* One bank of the scan: the selection is the first of what has been passed.
LEMMA ScanKeepsOrder ==
  ASSUME IInv, OrderInv, NEW c \in Actors, peek_scan(c)
  PROVE  SameQueue /\ OrderInv'
<1> USE ActorFacts DEF bankVars, readVars, callVars
<1>0. /\ pc \in [Actors -> ConsumerLabels \cup SourceLabels]
      /\ index \in [Actors -> Banks] /\ selected \in [Actors -> Banks \cup {None}]
      /\ BankTypeOK /\ QueuedInv /\ AgeInv
  BY DEF IInv, ActorTypeOK, OrderInv
<1> DEFINE s == selected[c]
<1>b. PICK b \in Banks : b = index[c] BY <1>0
<1>1. /\ UNCHANGED <<state, frame_sequence, producer_bank, sequence, readVars, order,
                     fresh>>
      /\ pc[c] = "scan" /\ Turn(c, "take")
  BY DEF peek_scan
<1>2. SameQueue BY <1>1 DEF SameQueue
<1>3. pc' = pc \/ pc' = [pc EXCEPT ![c] = "take"] BY <1>1 DEF Turn, Goto
<1>4. QueuedInv'
  <2>1. \A d \in Banks : Published(d)' <=> Published(d) BY <1>1 DEF Published
  <2>2. \A d \in Actors : pc'[d] = "release_bank" => pc[d] = "release_bank"
    BY <1>0, <1>3
  <2> QED BY <1>0, <1>1, <2>1, <2>2 DEF QueuedInv, Places
<1>5. AgeInv'
  <2>1. pc'["source"] = "begin" => pc["source"] = "begin" BY <1>0, <1>3
  <2> QED BY <1>0, <1>1, <2>1 DEF AgeInv, Age, Places
<1>6. /\ selected'[c] = IF /\ state[b] = "READY"
                           /\ s = None \/ Older(frame_sequence[b], frame_sequence[s])
                          THEN b ELSE s
      /\ \A d \in Actors \ {c} : selected'[d] = selected[d]
  BY <1>0, <1>b DEF peek_scan
<1> HIDE DEF s
<1>7. s \in Banks \cup {None} /\ (s # None => state[s] = "READY")
      /\ \A d \in Banks : state[d] # "READING"
  BY <1>0, <1>1 DEF s, IInv, ReaderInv
<1>8. None \notin Banks BY BankAssumption
<1>9. \A k \in Places : order[k] \in Banks /\ k \in Nat /\ 1 \in Places
  BY <1>0, PlaceFacts DEF QueuedInv
<1>10. ASSUME NEW k \in Places, fresh => k # Len(order), order[k] < b + 1
       PROVE  \E m \in 1 .. k : selected'[c] = order[m]
  <2>1. CASE order[k] = b
    <3>1. state[b] = "READY"
      <4>1. Published(b) BY <1>0, <2>1 DEF QueuedInv
      <4> QED BY <1>7, <4>1 DEF Published
    <3>2. CASE s = None
      BY <1>6, <1>9, <2>1, <3>1, <3>2 DEF Places
    <3>3. CASE s # None
      <4>1. s \in Banks /\ Published(s) BY <1>7, <3>3 DEF Published
      <4>2. PICK m \in Places : order[m] = s BY <1>0, <4>1 DEF QueuedInv
      <4>3. Older(frame_sequence[b], frame_sequence[s]) <=> k < m
        BY <1>0, <2>1, <4>2, FirstIsOlder
      <4>4. CASE k < m
        <5>1. selected'[c] = b BY <1>6, <3>1, <4>3, <4>4
        <5> QED BY <1>9, <2>1, <5>1 DEF Places
      <4>5. CASE ~(k < m)
        <5>1. selected'[c] = s BY <1>6, <3>3, <4>3, <4>5
        <5>2. m \in 1 .. k BY <1>9, <4>2, <4>5 DEF Places
        <5> QED BY <4>2, <5>1, <5>2
      <4> QED BY <4>4, <4>5
    <3> QED BY <3>2, <3>3
  <2>2. CASE order[k] # b
    <3>1. order[k] < b
      <4>1. order[k] \in Nat /\ b \in Nat BY <1>9, <1>10, BankFacts
      <4> QED BY <1>10, <2>2, <4>1
    <3>2. PICK m \in 1 .. k : s = order[m]
      BY <1>1, <1>10, <1>b, <3>1 DEF s, OrderInv, ScanInv
    <3>3. m \in Places /\ m \in Nat BY <1>9, <3>2 DEF Places
    <3>4. s # None BY <1>8, <1>9, <3>2, <3>3
    <3>5. CASE state[b] = "READY" /\ Older(frame_sequence[b], frame_sequence[s])
      <4>1. selected'[c] = b BY <1>6, <3>5
      <4>2. Published(b) BY <3>5 DEF Published
      <4>3. PICK j \in Places : order[j] = b BY <1>0, <4>2 DEF QueuedInv
      <4>4. j < m BY <1>0, <3>2, <3>3, <3>5, <4>3, FirstIsOlder
      <4>5. j \in 1 .. k BY <1>9, <3>2, <3>3, <4>3, <4>4 DEF Places
      <4> QED BY <4>1, <4>3, <4>5
    <3>6. CASE ~(state[b] = "READY" /\ Older(frame_sequence[b], frame_sequence[s]))
      <4>1. selected'[c] = s BY <1>6, <3>4, <3>6
      <4> QED BY <3>2, <4>1
    <3> QED BY <3>5, <3>6
  <2> QED BY <2>1, <2>2
<1>11. ScanInv'
  <2> SUFFICES ASSUME NEW d \in Actors
               PROVE  /\ pc'[d] = "scan" => \A k \in Places' :
                           (fresh' => k # Len(order')) /\ order'[k] < index'[d] =>
                             \E m \in 1 .. k : selected'[d] = order'[m]
                      /\ pc'[d] = "take" /\ selected'[d] # None =>
                           selected'[d] = order'[1]
    BY DEF ScanInv
  <2>1. CASE d = c /\ b + 1 # B
    <3>1. pc'[d] = "scan" /\ index'[d] = b + 1
      BY <1>0, <1>1, <1>b, <2>1 DEF Turn
    <3> QED BY <1>1, <1>10, <2>1, <3>1 DEF Places
  <2>2. CASE d = c /\ b + 1 = B
    <3>1. pc'[d] = "take" BY <1>0, <1>1, <1>b, <2>2 DEF Turn, Goto
    <3>2. ASSUME selected'[d] # None PROVE selected'[d] = order[1]
      <4>1. state[selected'[d]] = "READY" /\ selected'[d] \in Banks
        BY <1>6, <1>7, <2>2, <3>2
      <4>2. PICK j \in Places : order[j] = selected'[d]
        BY <1>0, <4>1 DEF QueuedInv, Published
      <4>3. CASE j = 1 BY <4>2, <4>3
      <4>4. CASE j # 1
        <5>1. 1 # Len(order) /\ order[1] < b + 1
          BY <1>9, <2>2, <4>2, <4>4, BankFacts DEF Places
        <5>2. \E m \in 1 .. 1 : selected'[c] = order[m] BY <1>9, <1>10, <5>1, <4>2
        <5> QED BY <2>2, <5>2
      <4> QED BY <4>3, <4>4
    <3> QED BY <1>1, <3>1, <3>2
  <2>3. CASE d # c
    <3>1. pc'[d] = pc[d] BY <1>0, <1>3, <2>3
    <3>2. pc[d] # "scan" /\ pc[d] # "take" BY <1>1, <2>3, OneConsumer DEF InLease
    <3> QED BY <3>1, <3>2
  <2> QED BY <2>1, <2>2, <2>3
<1> QED BY <1>2, <1>4, <1>5, <1>11 DEF OrderInv

\* The bank taken is the first of the queue.
LEMMA TakeKeepsOrder ==
  ASSUME IInv, OrderInv, NEW c \in Actors, peek_take(c)
  PROVE  SameQueue /\ OrderInv'
<1> USE ActorFacts DEF bankVars, readVars, callVars
<1>0. /\ pc \in [Actors -> ConsumerLabels \cup SourceLabels]
      /\ selected \in [Actors -> Banks \cup {None}] /\ producer_bank \in Banks
      /\ state \in [Banks -> {"FREE", "FILLING", "READY", "READING", "SCRATCH"}]
      /\ QueuedInv /\ AgeInv
  BY DEF IInv, BankTypeOK, ActorTypeOK, OrderInv
<1>1. /\ UNCHANGED <<frame_sequence, producer_bank, sequence, read_offset, index, order,
                     fresh>>
      /\ pc[c] = "take"
  BY DEF peek_take
<1>2. SameQueue BY <1>1 DEF SameQueue
<1>3. \E l \in {"idle", "scratch", "lease"} : pc' = [pc EXCEPT ![c] = l]
  BY DEF peek_take, Goto, AfterMiss
<1>4. \A d \in Actors : pc'[d] \notin {"scan", "take", "release_bank"}
  <2>1. \A d \in Actors \ {c} : pc[d] \notin {"scan", "take", "release_bank"}
    BY <1>1, OneConsumer DEF InLease
  <2> QED BY <1>0, <1>3, <2>1
<1>5. \/ UNCHANGED state
      \/ \E b \in Banks : /\ b = order[1] /\ state[b] = "READY" /\ read_offset[b] = 0
                          /\ state' = [state EXCEPT ![b] = "READING"]
  <2>1. CASE selected[c] = None BY <2>1 DEF peek_take
  <2>2. CASE selected[c] # None
    <3>1. selected[c] \in Banks /\ state[selected[c]] = "READY"
      BY <1>0, <2>2 DEF IInv, ReaderInv
    <3>2. read_offset[selected[c]] = 0 BY <3>1 DEF IInv, ReadBanksInv
    <3>3. selected[c] = order[1] BY <1>1, <2>2 DEF OrderInv, ScanInv
    <3>4. state' = [state EXCEPT ![selected[c]] = "READING"]
      BY <2>2 DEF peek_take, SetState
    <3> QED BY <3>1, <3>2, <3>3, <3>4
  <2> QED BY <2>1, <2>2
<1>6. \A b \in Banks :
        /\ Published(b)' <=> Published(b)
        /\ state'[b] = "READING" /\ read_offset'[b] < F => order[1] = b
        /\ state'[b] = "FILLING" => state[b] = "FILLING"
  BY <1>0, <1>1, <1>5, BankFacts DEF Published, QueuedInv
<1>7. QueuedInv' BY <1>0, <1>1, <1>4, <1>6 DEF QueuedInv, Places
<1>8. AgeInv'
  <2>1. pc'["source"] = "begin" => pc["source"] = "begin" BY <1>0, <1>3
  <2> QED BY <1>0, <1>1, <1>6, <2>1 DEF AgeInv, Age, Places
<1>9. ScanInv' BY <1>4 DEF ScanInv
<1> QED BY <1>2, <1>7, <1>8, <1>9 DEF OrderInv

\* What the release of a chunk does: the last chunk takes its bank from the
\* queue.
LEMMA ReleasedBank ==
  ASSUME IInv, OrderInv, NEW c \in Actors, release(c)
  PROVE  /\ consumer_bank \in Banks /\ consumer_bank = order[1] /\ 1 \in Places
         /\ state[consumer_bank] = "READING"
         /\ read_offset[consumer_bank] \in Nat /\ read_offset[consumer_bank] < F
         /\ view[c] = ViewOf(consumer_bank)
         /\ read_offset'[consumer_bank] = read_offset[consumer_bank] + 1
         /\ \A b \in Banks \ {consumer_bank} : read_offset'[b] = read_offset[b]
<1>1. /\ consumer_bank \in Banks /\ state[consumer_bank] = "READING"
      /\ read_offset[consumer_bank] < F /\ view[c] = ViewOf(consumer_bank)
      /\ read_offset \in [Banks -> 0 .. F]
  BY DEF release, IInv, ReaderInv, BankTypeOK
<1>2. Published(consumer_bank) /\ consumer_bank = order[1]
  BY <1>1 DEF Published, OrderInv, QueuedInv
<1>3. 1 \in Places BY <1>1, <1>2, PlaceFacts DEF OrderInv, QueuedInv
<1>4. read_offset[consumer_bank] \in Nat BY <1>1, BankFacts
<1> QED BY <1>1, <1>2, <1>3, <1>4 DEF release

LEMMA ReleaseKeepsOrder ==
  ASSUME IInv, OrderInv, NEW c \in Actors, release(c)
  PROVE  OrderInv'
<1> USE ActorFacts DEF bankVars, readVars, callVars
<1>0. /\ pc \in [Actors -> ConsumerLabels \cup SourceLabels]
      /\ QueuedInv /\ AgeInv /\ BankTypeOK
  BY DEF IInv, ActorTypeOK, OrderInv
<1>b. PICK b \in Banks : b = consumer_bank BY <1>0 DEF BankTypeOK
<1>d. PICK done \in BOOLEAN : done <=> read_offset[b] + 1 = F OBVIOUS
<1>f. F \in Nat BY BankFacts
<1>1. /\ UNCHANGED <<state, frame_sequence, producer_bank, sequence, index, selected,
                     fresh, consumer_bank>>
      /\ pc[c] = "lease"
      /\ pc' = [pc EXCEPT ![c] = IF done THEN "release_bank" ELSE "release_lease"]
      /\ order' = IF done THEN Tail(order) ELSE order
  BY <1>b, <1>d DEF release, Goto
<1>2. /\ b \in Banks /\ b = order[1] /\ 1 \in Places /\ state[b] = "READING"
      /\ read_offset[b] \in Nat /\ read_offset[b] < F
      /\ read_offset'[b] = read_offset[b] + 1
      /\ \A d \in Banks \ {b} : read_offset'[d] = read_offset[d]
  BY <1>b, ReleasedBank
<1>3. \A d \in Banks : state[d] = "READING" => d = b BY <1>b DEF IInv, ReadBanksInv
<1>4. \A d \in Actors : /\ pc'[d] \notin {"scan", "take"}
                        /\ pc'[d] = "release_bank" => done
                        /\ pc'[d] = "begin" => pc[d] = "begin"
  <2>1. \A d \in Actors \ {c} : pc[d] \notin {"scan", "take", "release_bank"}
    BY <1>1, OneConsumer DEF InLease
  <2> QED BY <1>0, <1>1, <2>1
<1>5. ScanInv' BY <1>4 DEF ScanInv
<1>6. \A i \in Places : order[i] \in Banks /\ i \in Nat /\ Len(order) \in Nat
  BY <1>0, PlaceFacts DEF QueuedInv
<1>7. CASE ~done
  <2>1. Places' = Places /\ order' = order BY <1>1, <1>7 DEF Places
  <2>2. read_offset'[b] < F BY <1>2, <1>7, <1>d, <1>f
  <2>3. \A d \in Banks : Published(d)' <=> Published(d)
    BY <1>1, <1>2, <2>2 DEF Published
  <2>4. \A d \in Banks : state'[d] = "READING" => d = order[1]
    BY <1>1, <1>2, <1>3
  <2>5. QueuedInv'
    BY <1>0, <1>1, <1>4, <1>7, <2>1, <2>3, <2>4 DEF QueuedInv
  <2>6. AgeInv' BY <1>0, <1>1, <1>4, <2>1 DEF AgeInv, Age
  <2> QED BY <1>5, <2>5, <2>6 DEF OrderInv
<1>8. CASE done
  <2>1. /\ order' \in Seq(Banks) /\ Len(order') = Len(order) - 1
        /\ \A i \in 1 .. Len(order') : order'[i] = order[i + 1]
    BY <1>0, <1>1, <1>2, <1>8, HeadTailProperties, EmptySeq DEF QueuedInv, Places
  <2>2. /\ \A i \in Places' : i + 1 \in Places /\ i \in Nat /\ order'[i] = order[i + 1]
        /\ \A i \in Places : i # 1 => i - 1 \in Places' /\ order'[i - 1] = order[i]
    <3>1. Len(order) \in Nat /\ Places = 1 .. Len(order)
          /\ Places' = 1 .. (Len(order) - 1)
      BY <1>2, <1>6, <2>1 DEF Places
    <3>2. \A i \in Places' : i + 1 \in Places /\ i \in Nat BY <3>1
    <3>3. \A i \in Places : i # 1 => i - 1 \in Places' /\ (i - 1) + 1 = i BY <3>1
    <3>4. \A i \in Places' : order'[i] = order[i + 1] BY <2>1 DEF Places
    <3> QED BY <3>2, <3>3, <3>4
  <2>3. /\ ~Published(b)'
        /\ \A d \in Banks : d # b => (Published(d)' <=> Published(d))
    BY <1>1, <1>2, <1>8, <1>d, <1>f DEF Published
  <2>4. \A d \in Banks : Published(d)' <=> \E i \in Places' : order'[i] = d
    <3> SUFFICES ASSUME NEW d \in Banks
                 PROVE  Published(d)' <=> \E i \in Places' : order'[i] = d
      OBVIOUS
    <3>1. CASE d = b
      <4>1. ASSUME NEW i \in Places', order'[i] = b PROVE FALSE
        <5>1. i + 1 \in Places /\ order[i + 1] = order[1] /\ i \in Nat /\ i # 0
          BY <1>2, <2>2, <4>1 DEF Places
        <5>2. i + 1 = 1 BY <1>0, <1>2, <5>1, PlacesDiffer
        <5> QED BY <5>1, <5>2
      <4> QED BY <2>3, <3>1, <4>1
    <3>2. CASE d # b
      <4>1. ASSUME Published(d) PROVE \E i \in Places' : order'[i] = d
        <5>1. PICK i \in Places : order[i] = d BY <1>0, <4>1 DEF QueuedInv
        <5>2. i # 1 BY <1>2, <3>2, <5>1
        <5> QED BY <2>2, <5>1, <5>2
      <4>2. ASSUME NEW i \in Places', order'[i] = d PROVE Published(d)
        BY <1>0, <2>2, <4>2 DEF QueuedInv
      <4> QED BY <2>3, <3>2, <4>1, <4>2
    <3> QED BY <3>1, <3>2
  <2>5. \A d \in Banks : ~(state'[d] = "READING" /\ read_offset'[d] < F)
    BY <1>1, <1>2, <1>3, <1>8, <1>d, <1>f
  <2>6. \A d \in Actors : pc'[d] = "release_bank" => read_offset'[consumer_bank'] = F
    BY <1>1, <1>2, <1>8, <1>b, <1>d
  <2>7. QueuedInv' BY <1>0, <1>1, <2>1, <2>4, <2>5, <2>6 DEF QueuedInv
  <2>8. AgeInv'
    <3>1. \A d \in Banks : Minus(sequence', frame_sequence'[d]) = Age(d)
      BY <1>1 DEF Age
    <3>2. \A i \in Places' : Age(order[i])' = Age(order[i + 1]) /\ i + 1 \in Places
      BY <1>6, <2>2, <3>1 DEF Age
    <3>3. \A i \in Places' : Age(order[i])' <= MaxLag
      BY <1>0, <3>2 DEF AgeInv
    <3>4. \A i, j \in Places' : i < j => Age(order[i])' > Age(order[j])'
      <4> SUFFICES ASSUME NEW i \in Places', NEW j \in Places', i < j
                   PROVE  Age(order[i])' > Age(order[j])'
        OBVIOUS
      <4>1. i + 1 < j + 1 BY <2>2
      <4>2. Age(order[i + 1]) > Age(order[j + 1]) BY <1>0, <3>2, <4>1 DEF AgeInv
      <4> QED BY <3>2, <4>2
    <3>5. (pc'["source"] = "begin" \/ state'[producer_bank'] = "FILLING") =>
            \A i \in Places' : Age(order[i])' > 0
      BY <1>0, <1>1, <1>4, <3>2 DEF AgeInv
    <3>6. \A d \in Banks : state'[d] = "FILLING" => frame_sequence'[d] = sequence'
      BY <1>0, <1>1 DEF AgeInv
    <3> QED BY <3>3, <3>4, <3>5, <3>6 DEF AgeInv
  <2> QED BY <1>5, <2>7, <2>8 DEF OrderInv
<1> QED BY <1>7, <1>8

\* The queue stays sorted, and scanned from its first place on, in every step.
LEMMA OrderInvInit == Init => IInv /\ OrderInv
<1> SUFFICES ASSUME Init PROVE OrderInv BY IInvIsInductive
<1>1. order = <<>> /\ order \in Seq(Banks) /\ \A i \in Places : FALSE
  <2>1. order = <<>> /\ <<>> \in Seq(Banks) /\ Len(<<>>) = 0
    BY EmptySeq DEF Init
  <2> QED BY <2>1 DEF Places
<1>2. \A b \in Banks : state[b] = "FREE" /\ ~Published(b)
  BY DEF Init, Published
<1>3. \A c \in Actors : pc[c] = "idle" BY DEF Init
<1>4. producer_bank \in Banks /\ "source" \in Actors BY BankFacts, ActorFacts DEF Init
<1>5. QueuedInv BY <1>1, <1>2, <1>3 DEF Init, QueuedInv
<1>6. AgeInv BY <1>1, <1>2, <1>3, <1>4 DEF AgeInv
<1>7. ScanInv BY <1>3 DEF ScanInv
<1> QED BY <1>5, <1>6, <1>7 DEF OrderInv

\* Every step is quiet, or one of six that the queue or its age shows in.
LEMMA StepCases ==
  ASSUME [Next]_vars
  PROVE  \/ QuietAction
         \/ \E bad \in BOOLEAN : begin_frame(bad) \/ commit_write(bad, TRUE)
         \/ \E c \in Actors : peek_select(c) \/ peek_scan(c) \/ peek_take(c) \/ release(c)
<1>1. \A end \in BOOLEAN : end = TRUE \/ end = FALSE OBVIOUS
<1> QED BY <1>1 DEF Next, Producer, Consumer, QuietAction

LEMMA OrderInvStep ==
  ASSUME IInv, OrderInv, [Next]_vars
  PROVE  OrderInv'
<1>1. CASE QuietAction BY <1>1, QuietActions, QuietKeepsOrder
<1>2. ASSUME NEW bad \in BOOLEAN, begin_frame(bad) PROVE OrderInv'
  BY <1>2, BeginKeepsOrder
<1>3. ASSUME NEW bad \in BOOLEAN, commit_write(bad, TRUE) PROVE OrderInv'
  BY <1>3, CommitOfEnd, QuietKeepsOrder, PublishKeepsOrder
<1>4. ASSUME NEW c \in Actors, peek_select(c) PROVE OrderInv'
  BY <1>4, SelectKeepsOrder
<1>5. ASSUME NEW c \in Actors, peek_scan(c) PROVE OrderInv'
  BY <1>5, ScanKeepsOrder
<1>6. ASSUME NEW c \in Actors, peek_take(c) PROVE OrderInv'
  BY <1>6, TakeKeepsOrder
<1>7. ASSUME NEW c \in Actors, release(c) PROVE OrderInv'
  BY <1>7, ReleaseKeepsOrder
<1> QED BY StepCases, <1>1, <1>2, <1>3, <1>4, <1>5, <1>6, <1>7

\* The abstract queue of a state: as long as the history, and a sequence.
LEMMA FramesFacts ==
  ASSUME BankTypeOK, order \in Seq(Banks)
  PROVE  /\ framesMap \in Seq(Words) /\ Len(framesMap) = Len(order)
         /\ Len(order) \in Nat
         /\ \A i \in Places : framesMap[i] = frame_sequence[order[i]]
         /\ framesMap = <<>> <=> order = <<>>
         /\ order # <<>> => Head(framesMap) = frame_sequence[order[1]] /\ 1 \in Places
<1>1. /\ Len(order) \in Nat /\ \A i \in Places : order[i] \in Banks
      /\ order = <<>> <=> Len(order) = 0
      /\ order # <<>> => 1 \in Places
  BY PlaceFacts
<1>2. \A i \in Places : frame_sequence[order[i]] \in Words BY <1>1 DEF BankTypeOK
<1>3. framesMap \in [1 .. Len(order) -> Words] BY <1>2 DEF framesMap, Places
<1>4. framesMap \in Seq(Words) BY <1>1, <1>3, SeqDef
<1>5. Len(framesMap) = Len(order)
  <2>1. Len(framesMap) \in Nat /\ DOMAIN framesMap = 1 .. Len(framesMap)
    BY <1>4, LenProperties
  <2>2. DOMAIN framesMap = 1 .. Len(order) BY <1>3
  <2> QED BY <1>1, <2>1, <2>2
<1>6. \A i \in Places : framesMap[i] = frame_sequence[order[i]]
  BY DEF framesMap, Places
<1>7. framesMap = <<>> <=> order = <<>> BY <1>1, <1>4, <1>5, EmptySeq
<1>8. order # <<>> => Head(framesMap) = framesMap[1] BY <1>4, <1>7
<1> QED BY <1>1, <1>4, <1>5, <1>6, <1>7, <1>8

LEMMA SameQueueMap ==
  ASSUME IInv, OrderInv, SameQueue
  PROVE  framesMap' = framesMap /\ positionMap' = positionMap
<1>1. order' = order /\ order \in Seq(Banks)
      /\ \A i \in Places : order[i] \in Banks /\ Published(order[i])
  BY PlaceFacts DEF SameQueue, OrderInv, QueuedInv
<1>2. \A i \in Places : /\ frame_sequence'[order[i]] = frame_sequence[order[i]]
                        /\ read_offset'[order[i]] = read_offset[order[i]]
  BY <1>1 DEF SameQueue
<1>3. framesMap' = framesMap BY <1>1, <1>2 DEF framesMap, Places
<1>4. positionMap' = positionMap BY <1>1, <1>2, PlaceFacts DEF positionMap
<1> QED BY <1>3, <1>4

\* The chunk being read is that of the one consumer that has one.
LEMMA LentFacts ==
  /\ IInv => /\ \A c \in Actors : view[c] # None => lentMap = Reading(c)
             /\ (\A c \in Actors : view[c] = None) => lentMap = None
  /\ IInv' => /\ \A c \in Actors : view'[c] # None => lentMap' = Reading(c)'
              /\ (\A c \in Actors : view'[c] = None) => lentMap' = None
<1>1. ASSUME IInv
      PROVE  /\ \A c \in Actors : view[c] # None => lentMap = Reading(c)
             /\ (\A c \in Actors : view[c] = None) => lentMap = None
  <2>1. \A c, d \in Actors : view[c] # None /\ view[d] # None => c = d
    BY <1>1 DEF IInv, ReaderInv, LeaseInv, InLease
  <2> QED BY <2>1, ActorFacts DEF lentMap, Actors
<1>2. ASSUME IInv'
      PROVE  /\ \A c \in Actors : view'[c] # None => lentMap' = Reading(c)'
             /\ (\A c \in Actors : view'[c] = None) => lentMap' = None
  <2>1. \A c, d \in Actors : view'[c] # None /\ view'[d] # None => c = d
    BY <1>2 DEF IInv, ReaderInv, LeaseInv, InLease
  <2> QED BY <2>1, ActorFacts DEF lentMap, Actors
<1> QED BY <1>1, <1>2

\* A step that leaves the queue and the chunk being read alone at most lends or
\* takes back the memory; it is lent with nothing in the queue.
LEMMA SameQueueImplements ==
  ASSUME IInv, OrderInv, OrderInv', SameQueue, view' = view
  PROVE  [Queue!Next]_(Queue!fvars)
<1>1. framesMap' = framesMap /\ positionMap' = positionMap BY SameQueueMap
<1>2. lentMap' = lentMap BY DEF lentMap, Reading
<1>3. borrowedMap \in BOOLEAN /\ borrowedMap' \in BOOLEAN BY DEF borrowedMap
<1>4. CASE borrowedMap' = borrowedMap
  BY <1>1, <1>2, <1>4 DEF Queue!fvars
<1>5. CASE borrowedMap /\ ~borrowedMap'
  BY <1>1, <1>2, <1>3, <1>5 DEF Queue!Next, Queue!GiveBack
<1>6. CASE ~borrowedMap /\ borrowedMap'
  <2>1. \A b \in Banks : ~Published(b)' BY <1>6 DEF borrowedMap, Published
  <2>2. order' \in Seq(Banks) /\ \A i \in Places' : order'[i] \in Banks => FALSE
    BY <2>1 DEF OrderInv, QueuedInv
  <2>3. order' = order /\ order \in Seq(Banks) /\ Places' = Places
    BY DEF SameQueue, OrderInv, QueuedInv, Places
  <2>4. order = <<>> BY <2>2, <2>3, PlaceFacts
  <2>5. framesMap = <<>> BY <2>3, <2>4, FramesFacts DEF IInv
  <2> QED BY <1>1, <1>2, <1>3, <1>6, <2>5 DEF Queue!Next, Queue!Borrow
<1> QED BY <1>3, <1>4, <1>5, <1>6

\* A published frame is appended to the queue, which has room for it.
LEMMA PublishImplements ==
  ASSUME IInv, OrderInv, IInv', OrderInv', NEW b \in Banks, Publishes(b)
  PROVE  Queue!Next
<1>1. /\ order' \in Seq(Banks) /\ Len(order') = Len(order) + 1 /\ Len(order) \in Nat
      /\ \A i \in Places : order'[i] = order[i]
      /\ order'[Len(order) + 1] = b /\ order \in Seq(Banks)
  BY AppendProperties, LenProperties DEF Publishes, OrderInv, QueuedInv, Places
<1>2. BankTypeOK /\ BankTypeOK' /\ frame_sequence[b] \in Words
  BY DEF IInv, BankTypeOK
<1>3. /\ framesMap \in Seq(Words) /\ Len(framesMap) = Len(order)
      /\ \A i \in Places : framesMap[i] = frame_sequence[order[i]]
  BY <1>1, <1>2, FramesFacts
<1>4. framesMap' = Append(framesMap, frame_sequence[b])
  <2> DEFINE t == Append(framesMap, frame_sequence[b])
  <2>1. /\ t \in Seq(Words) /\ Len(t) = Len(order) + 1
        /\ \A i \in 1 .. Len(order) : t[i] = framesMap[i]
        /\ t[Len(order) + 1] = frame_sequence[b]
    BY <1>2, <1>3, AppendProperties
  <2>2. t = [i \in 1 .. (Len(order) + 1) |-> t[i]]
    BY <2>1, LenProperties
  <2>3. framesMap' = [i \in 1 .. (Len(order) + 1) |-> frame_sequence[order'[i]]]
    BY <1>1 DEF framesMap, Publishes
  <2>4. \A i \in 1 .. (Len(order) + 1) : t[i] = frame_sequence[order'[i]]
    BY <1>1, <1>3, <2>1 DEF Places
  <2> HIDE DEF t
  <2>5. t = framesMap' BY <2>2, <2>3, <2>4
  <2> QED BY <2>5 DEF t
<1>5. Len(framesMap) < B BY <1>2, <1>3, RoomForOneMore DEF Publishes, OrderInv
<1>6. positionMap' = positionMap
  <2>1. read_offset'[b] = 0
    BY DEF Publishes, IInv, ReadBanksInv, readVars
  <2>2. CASE order = <<>>
    <3>1. Len(order) = 0 BY <1>1, <2>2, PlaceFacts
    <3>2. order' # <<>> /\ order'[1] = b BY <1>1, <3>1, EmptySeq
    <3> QED BY <2>1, <2>2, <3>2 DEF positionMap
  <2>3. CASE order # <<>>
    <3>1. 1 \in Places /\ order'[1] = order[1] BY <1>1, <2>3, PlaceFacts
    <3>2. order' # <<>> BY <1>1, EmptySeq
    <3> QED BY <2>3, <3>1, <3>2 DEF positionMap, Publishes, readVars
  <2> QED BY <2>2, <2>3
<1>7. lentMap' = lentMap BY DEF lentMap, Reading, Publishes, callVars
<1>8. ~borrowedMap /\ borrowedMap' = borrowedMap
  <2>1. state[b] = "FILLING" /\ state'[b] = "READY"
    BY <1>2 DEF Publishes, BankTypeOK
  <2> QED BY <2>1 DEF borrowedMap
<1>9. Queue!Publish(frame_sequence[b])
  BY <1>4, <1>5, <1>6, <1>7, <1>8 DEF Queue!Publish
<1> QED BY <1>2, <1>9 DEF Queue!Next

\* A consumer is handed the next chunk of the first frame of the queue.
LEMMA LendImplements ==
  ASSUME IInv, OrderInv, IInv', OrderInv', SameQueue,
         NEW c \in Actors, InLease(c), pc[c] # "lease",
         NEW b \in Banks, Published(b), b = order[1], view' = [view EXCEPT ![c] = ViewOf(b)],
         state'[b] = "READING", 1 \in Places
  PROVE  Queue!Next
<1>1. \A d \in Actors : view[d] = None
  <2>1. \A d \in Actors : view[d] # None => d = c
    BY OneConsumer DEF IInv, ReaderInv, InLease
  <2> QED BY <2>1 DEF IInv, ReaderInv
<1>2. lentMap = None BY <1>1, LentFacts
<1>3. view'[c] = ViewOf(b) /\ ViewOf(b) # None
  <2>1. read_offset[b] < F
    BY BankFacts DEF Published, IInv, ReadBanksInv
  <2>2. ViewOf(b) \in Views BY <2>1, ViewFact DEF IInv
  <2> QED BY <2>2, BankAssumption DEF IInv, ActorTypeOK
<1>4. lentMap' = [seq |-> frame_sequence[b], off |-> read_offset[b]]
  <2>1. lentMap' = Reading(c)' BY <1>3, LentFacts
  <2>2. Reading(c)' = [seq |-> view'[c].seq, off |-> view'[c].off] BY DEF Reading
  <2> QED BY <1>3, <2>1, <2>2 DEF ViewOf
<1>5. order \in Seq(Banks) BY DEF OrderInv, QueuedInv
<1>6. order # <<>> BY <1>5, PlaceFacts DEF Places
<1>7. framesMap # <<>> /\ Head(framesMap) = frame_sequence[b] /\ positionMap = read_offset[b]
  BY <1>5, <1>6, FramesFacts DEF IInv, positionMap
<1>8. framesMap' = framesMap /\ positionMap' = positionMap BY SameQueueMap
<1>9. borrowedMap' = borrowedMap
  <2>1. state[b] # "SCRATCH" /\ state'[b] # "SCRATCH" BY DEF Published
  <2> QED BY <2>1 DEF borrowedMap
<1>10. Queue!Lend
  BY <1>2, <1>4, <1>6, <1>7, <1>8, <1>9 DEF Queue!Lend
<1> QED BY <1>10 DEF Queue!Next

LEMMA SelectImplements ==
  ASSUME IInv, OrderInv, IInv', OrderInv', NEW c \in Actors, peek_select(c)
  PROVE  [Queue!Next]_(Queue!fvars)
<1>1. SameQueue BY SelectKeepsOrder
<1>2. CASE state[consumer_bank] # "READING"
  <2>1. view' = view BY <1>2 DEF peek_select
  <2> QED BY <1>1, <2>1, SameQueueImplements
<1>3. CASE state[consumer_bank] = "READING"
  <2>1. PICK b \in Banks : b = consumer_bank BY DEF IInv, BankTypeOK
  <2>2. /\ view' = [view EXCEPT ![c] = ViewOf(b)] /\ state' = state
        /\ pc[c] = "select" /\ InLease(c)
    BY <1>3, <2>1 DEF peek_select, InLease
  <2>3. read_offset[b] < F
    <3>1. \A d \in Actors : pc[d] # "release_bank"
      BY <2>2, OneConsumer DEF InLease
    <3> QED BY <1>3, <2>1, <3>1 DEF IInv, ReadBanksInv
  <2>4. Published(b) /\ b = order[1] /\ state'[b] = "READING"
    BY <1>3, <2>1, <2>2, <2>3 DEF Published, OrderInv, QueuedInv
  <2>5. 1 \in Places BY <2>4, PlaceFacts DEF OrderInv, QueuedInv
  <2> QED BY <1>1, <2>2, <2>4, <2>5, LendImplements
<1> QED BY <1>2, <1>3

LEMMA TakeImplements ==
  ASSUME IInv, OrderInv, IInv', OrderInv', NEW c \in Actors, peek_take(c)
  PROVE  [Queue!Next]_(Queue!fvars)
<1>1. SameQueue BY TakeKeepsOrder
<1>2. CASE selected[c] = None
  <2>1. view' = view BY <1>2 DEF peek_take
  <2> QED BY <1>1, <2>1, SameQueueImplements
<1>3. CASE selected[c] # None
  <2>1. PICK b \in Banks : b = selected[c] BY <1>3 DEF IInv, ActorTypeOK
  <2>2. /\ view' = [view EXCEPT ![c] = ViewOf(b)]
        /\ state' = [state EXCEPT ![b] = "READING"]
        /\ pc[c] = "take" /\ InLease(c)
    BY <1>3, <2>1 DEF peek_take, InLease, SetState
  <2>3. Published(b) /\ b = order[1] /\ state'[b] = "READING"
    BY <1>3, <2>1, <2>2
       DEF IInv, ReaderInv, BankTypeOK, Published, OrderInv, ScanInv
  <2>4. 1 \in Places BY <2>3, PlaceFacts DEF OrderInv, QueuedInv
  <2> QED BY <1>1, <2>2, <2>3, <2>4, LendImplements
<1> QED BY <1>2, <1>3

\* The chunk given back is the next of the first frame, and the last takes the
\* frame with it.
LEMMA ReleaseImplements ==
  ASSUME IInv, OrderInv, IInv', OrderInv', NEW c \in Actors, release(c)
  PROVE  Queue!Next
<1>b. PICK b \in Banks : b = consumer_bank BY DEF IInv, BankTypeOK
<1>1. /\ b = order[1] /\ 1 \in Places /\ state[b] = "READING"
      /\ read_offset[b] \in Nat /\ read_offset[b] < F /\ view[c] = ViewOf(b)
      /\ read_offset'[b] = read_offset[b] + 1
      /\ \A d \in Banks \ {b} : read_offset'[d] = read_offset[d]
  BY <1>b, ReleasedBank
<1>2. /\ UNCHANGED <<state, frame_sequence>>
      /\ view' = [view EXCEPT ![c] = None] /\ pc[c] = "lease"
      /\ order' = IF read_offset[b] + 1 = F THEN Tail(order) ELSE order
  BY <1>b DEF release, bankVars
<1>3. order \in Seq(Banks) /\ order' \in Seq(Banks) BY DEF OrderInv, QueuedInv
<1>4. order # <<>> BY <1>1, <1>3, PlaceFacts DEF Places
<1>5. positionMap = read_offset[b] BY <1>1, <1>4 DEF positionMap
<1>6. lentMap # None /\ lentMap' = None
  <2>1. ViewOf(b) \in Views BY <1>1, ViewFact DEF IInv
  <2>2. view[c] # None BY <1>1, <2>1, BankAssumption
  <2>3. lentMap = Reading(c) BY <2>2, LentFacts
  <2>4. Reading(c) \in [seq : Words, off : Offsets]
    BY <1>1, <2>1 DEF Reading, Views
  <2>5. \A d \in Actors : view'[d] = None
    <3>1. \A d \in Actors : view[d] # None => d = c
      BY <1>2, OneConsumer DEF IInv, ReaderInv, InLease
    <3> QED BY <1>2, <3>1 DEF IInv, ActorTypeOK
  <2> QED BY <2>3, <2>4, <2>5, LentFacts, BankAssumption
<1>7. borrowedMap' = borrowedMap BY <1>2 DEF borrowedMap
<1>8. BankTypeOK /\ BankTypeOK' BY DEF IInv
<1>9. CASE read_offset[b] + 1 # F
  <2>1. order' = order BY <1>2, <1>9
  <2>2. framesMap' = framesMap BY <1>2, <2>1 DEF framesMap
  <2>3. positionMap' = read_offset[b] + 1 BY <1>1, <1>4, <2>1 DEF positionMap
  <2>4. positionMap # F - 1 BY <1>1, <1>5, <1>9, BankAssumption
  <2>5. Queue!Return
    BY <1>5, <1>6, <1>7, <2>2, <2>3, <2>4 DEF Queue!Return
  <2> QED BY <2>5 DEF Queue!Next
<1>10. CASE read_offset[b] + 1 = F
  <2>1. /\ order' = Tail(order) /\ Len(order') = Len(order) - 1 /\ Len(order) \in Nat
        /\ \A i \in 1 .. Len(order') : order'[i] = order[i + 1]
    BY <1>2, <1>3, <1>4, <1>10, HeadTailProperties, LenProperties
  <2>2. framesMap' = Tail(framesMap)
    <3> DEFINE t == Tail(framesMap)
    <3>1. /\ framesMap \in Seq(Words) /\ Len(framesMap) = Len(order) /\ framesMap # <<>>
          /\ \A i \in 1 .. Len(order) : framesMap[i] = frame_sequence[order[i]]
      BY <1>3, <1>4, <1>8, FramesFacts DEF Places
    <3>2. /\ t \in Seq(Words) /\ Len(t) = Len(order) - 1
          /\ \A i \in 1 .. (Len(order) - 1) : t[i] = framesMap[i + 1]
      BY <3>1, HeadTailProperties
    <3>3. t = [i \in 1 .. (Len(order) - 1) |-> t[i]] BY <3>2, LenProperties
    <3>4. framesMap' = [i \in 1 .. (Len(order) - 1) |-> frame_sequence[order'[i]]]
      BY <1>2, <2>1 DEF framesMap
    <3>5. \A i \in 1 .. (Len(order) - 1) : t[i] = frame_sequence[order'[i]]
      BY <2>1, <3>1, <3>2
    <3> HIDE DEF t
    <3>6. t = framesMap' BY <3>3, <3>4, <3>5
    <3> QED BY <3>6 DEF t
  <2>3. positionMap' = 0
    <3>1. CASE order' = <<>> BY <3>1 DEF positionMap
    <3>2. CASE order' # <<>>
      <4>1. 1 \in 1 .. Len(order') /\ Len(order') \in Nat
        BY <1>3, <3>2, EmptySeq
      <4>2. 2 \in Places /\ order'[1] = order[2] BY <2>1, <4>1 DEF Places
      <4>3. PICK d \in Banks : d = order[2] BY <1>3, <4>2, PlaceFacts
      <4>4. Published(d) /\ d # b
        BY <1>1, <1>8, <4>2, <4>3, PlacesDiffer DEF OrderInv, QueuedInv
      <4>5. state[d] = "READY"
        BY <1>b, <4>4 DEF Published, IInv, ReadBanksInv
      <4>6. read_offset'[d] = 0 BY <1>1, <4>4, <4>5 DEF IInv, ReadBanksInv
      <4> QED BY <3>2, <4>2, <4>3, <4>6 DEF positionMap
    <3> QED BY <3>1, <3>2
  <2>4. positionMap = F - 1 BY <1>1, <1>5, <1>10, BankAssumption
  <2>5. Queue!Return
    BY <1>6, <1>7, <2>2, <2>3, <2>4 DEF Queue!Return
  <2> QED BY <2>5 DEF Queue!Next
<1> QED BY <1>9, <1>10

\* The banks are a queue of whole frames: a consumer gets the chunks of the
\* oldest complete frame in order, whatever the wrap of the frame numbers and
\* whatever is published while it scans the banks; the queue never overflows;
\* and the memory is lent to a module transaction only with nothing queued.
THEOREM BanksAreAFrameQueue == Spec => ImplementsFrameQueue
<1>1. Init => Queue!Init
  <2> SUFFICES ASSUME Init PROVE Queue!Init OBVIOUS
  <2>1. IInv /\ OrderInv BY OrderInvInit
  <2>2. framesMap = <<>>
    BY <2>1, FramesFacts DEF Init, IInv, OrderInv, QueuedInv
  <2>3. positionMap = 0 BY DEF Init, positionMap
  <2>4. lentMap = None BY ActorFacts DEF Init, lentMap
  <2>5. borrowedMap = FALSE BY BankFacts DEF Init, borrowedMap
  <2> QED BY <2>2, <2>3, <2>4, <2>5 DEF Queue!Init
<1>2. IInv /\ OrderInv /\ [Next]_vars => IInv' /\ OrderInv'
  BY IInvIsInductive, OrderInvStep
<1>3. IInv /\ OrderInv /\ IInv' /\ OrderInv' /\ [Next]_vars
        => [Queue!Next]_(Queue!fvars)
  <2> SUFFICES ASSUME IInv, OrderInv, IInv', OrderInv', [Next]_vars
               PROVE  [Queue!Next]_(Queue!fvars)
    OBVIOUS
  <2>1. CASE QuietAction
    <3>1. SameQueue BY <2>1, QuietActions DEF Quiet
    <3>2. view' = view
      BY <2>1 DEF QuietAction, Pause, abort_frame, begin_try, acquire_write,
         copy_dma_block, commit_write, pause, scratch_acquire, rollback, resume,
         scratch_release, scratch_write, peek_cas, release_bank, release_lease,
         callVars, vars
    <3> QED BY <3>1, <3>2, SameQueueImplements
  <2>2. ASSUME NEW bad \in BOOLEAN, begin_frame(bad) PROVE [Queue!Next]_(Queue!fvars)
    <3>1. SameQueue BY <2>2, BeginKeepsOrder
    <3>2. view' = view BY <2>2 DEF begin_frame, callVars
    <3> QED BY <3>1, <3>2, SameQueueImplements
  <2>3. ASSUME NEW bad \in BOOLEAN, commit_write(bad, TRUE)
        PROVE  [Queue!Next]_(Queue!fvars)
    <3>1. view' = view BY <2>3 DEF commit_write, callVars
    <3>2. CASE Quiet BY <3>1, <3>2, SameQueueImplements DEF Quiet
    <3>3. CASE \E b \in Banks : Publishes(b) BY <3>3, PublishImplements
    <3> QED BY <2>3, <3>2, <3>3, CommitOfEnd
  <2>4. ASSUME NEW c \in Actors, peek_select(c) PROVE [Queue!Next]_(Queue!fvars)
    BY <2>4, SelectImplements
  <2>5. ASSUME NEW c \in Actors, peek_scan(c) PROVE [Queue!Next]_(Queue!fvars)
    <3>1. SameQueue BY <2>5, ScanKeepsOrder
    <3>2. view' = view BY <2>5 DEF peek_scan
    <3> QED BY <3>1, <3>2, SameQueueImplements
  <2>6. ASSUME NEW c \in Actors, peek_take(c) PROVE [Queue!Next]_(Queue!fvars)
    BY <2>6, TakeImplements
  <2>7. ASSUME NEW c \in Actors, release(c) PROVE [Queue!Next]_(Queue!fvars)
    BY <2>7, ReleaseImplements
  <2> QED BY StepCases, <2>1, <2>2, <2>3, <2>4, <2>5, <2>6, <2>7
<1>4. Init => IInv /\ OrderInv BY OrderInvInit
<1> QED BY <1>1, <1>2, <1>3, <1>4, PTL DEF Spec, ImplementsFrameQueue, Queue!Spec

=============================================================================
