----------------------------- MODULE RfidReader -----------------------------
(***************************************************************************)
(* The reader task: reader_task in shared/src/reader.rs.  It looks for a   *)
(* PN5180 unless the configuration names the PN532, and then runs the scan *)
(* loop of one chip for good.  A configured PN5180 that does not answer    *)
(* leaves the device without a reader; only the automatic mode falls back. *)
(*                                                                         *)
(* The PN5180 loop is the module this one extends, the PN532 loop an       *)
(* instance with variables of its own.                                     *)
(***************************************************************************)
EXTENDS Pn5180Reader

CONSTANT Fresh  \* the time a latched tag of the PN532 stays fresh

ASSUME FreshAssumption == Fresh \in Nat

VARIABLES
  chip,  \* the chip whose loop runs, "probe" before and "none" without one
  pn532_at, pn532_target, pn532_completed_uid, pn532_last_seen, pn532_pending_uid,
  pn532_pending_blocks, pn532_pending_attempt, pn532_event, pn532_announced, pn532_misses

Pn532 == INSTANCE Pn532Reader WITH
  at <- pn532_at, target <- pn532_target,
  completed_uid <- pn532_completed_uid, last_seen <- pn532_last_seen,
  pending_uid <- pn532_pending_uid, pending_blocks <- pn532_pending_blocks,
  pending_attempt <- pn532_pending_attempt,
  event <- pn532_event, announced <- pn532_announced, misses <- pn532_misses

pn532_vars == <<pn532_at, pn532_target, pn532_completed_uid, pn532_last_seen,
                pn532_pending_uid, pn532_pending_blocks, pn532_pending_attempt,
                pn532_event, pn532_announced, pn532_misses>>
reader_vars == <<chip, vars, pn532_vars>>

ReaderInit ==
  /\ chip = "probe"
  /\ Init
  /\ Pn532!Init

\* The probe of the PN5180 finds it or fails; the mode comes from the configuration.
Probe == \E mode \in {"Auto", "Pn532", "Pn5180"} :
  /\ chip = "probe"
  /\ \/ mode # "Pn532" /\ chip' = "Pn5180"
     \/ mode = "Pn5180" /\ chip' = "none"
     \/ mode # "Pn5180" /\ chip' = "Pn532"
  /\ UNCHANGED <<vars, pn532_vars>>

RunPn5180 == chip = "Pn5180" /\ Next /\ UNCHANGED <<chip, pn532_vars>>
RunPn532 == chip = "Pn532" /\ Pn532!Next /\ UNCHANGED <<chip, vars>>

ReaderNext == Probe \/ RunPn5180 \/ RunPn532

\* The task waits for nothing but the chip and the clock.
ReaderSpec == ReaderInit /\ [][ReaderNext]_reader_vars /\ WF_reader_vars(ReaderNext)

-----------------------------------------------------------------------------
(* Properties of the reader task; those of the PN5180 loop are in its module *)

\* The type invariant of the choice of the chip and of both loops, with the limits
\* of their attempts (pn5180_reader.rs:28-29, pn532_reader.rs:21).
ReaderTypeOK ==
  /\ chip \in {"probe", "Pn5180", "Pn532", "none"}
  /\ TypeOK
  /\ Pn532!TypeOK

\* A payload the PN532 delivers is that of one announced tag
\* (pn532_reader.rs:66, 136).
Pn532BlocksOfAnnouncedTag == Pn532!BlocksOfAnnouncedTag

\* The PN532 reports retries and ends of announced reads only, each end once
\* (pn532_reader.rs:114, 136-193).
Pn532ReportsAnnounced == Pn532!ReportsAnnounced

\* Two failed exchanges in a row leave nothing latched or pending
\* (pn532_reader.rs:84).
Pn532ForgetsSilentTags == Pn532!ForgetsSilentTags
=============================================================================
