------------------------------ MODULE TradeTape ------------------------------
(* The stored tape of aggregate trades and the instances that fill it.  Each   *)
(* instance keeps the checkpoint it knows in memory, reads a page or is handed *)
(* one frame, and stores what came with the new checkpoint in one transaction: *)
(* it selects what is stored already and inserts the rest.  The lease is asked *)
(* before a page is read and may expire under an instance that is paused, so   *)
(* it orders none of the steps below.                                          *)
EXTENDS Integers, FiniteSets, FiniteSetsExt, Sequences

CONSTANTS
    Writers,    \* the instances that share the table
    PageLimit   \* PAGE_LIMIT, _GAP_LIMIT

ASSUME TapeAssumption == PageLimit \in Nat \ {0}

VARIABLES
    prints,     \* the trades of the venue, in the order of their ids
    head,       \* the id of the newest
    stored,     \* the ids in the table
    checkpoint, \* the checkpoint row; 0 is none
    known,      \* the checkpoint each instance has in memory
    page        \* the ids each instance is storing

tapeVars == <<prints, head, stored, checkpoint, known, page>>

Unread == -1    \* the checkpoint has not been loaded
NoPage == [rows |-> {}, skip |-> {}, asked |-> FALSE]

(* What an instance resumes from: loaded once, then its own. *)
ResumesFrom(w) == IF known[w] = Unread THEN checkpoint ELSE known[w]

(* A poll asks for the ids after that, or for the newest ones when there is no  *)
(* checkpoint.                                                                  *)
RowsAfter(last) ==
    IF last = 0 THEN Max({1, head - PageLimit + 1}) .. head
    ELSE last + 1 .. Min({last + PageLimit, head})
Ingest(w, rows) ==
    /\ known' = [known EXCEPT ![w] = ResumesFrom(w)]
    /\ page' = [page EXCEPT ![w] = [NoPage EXCEPT !.rows = rows]]
    /\ UNCHANGED <<prints, head, stored, checkpoint>>
Poll(w) ==
    /\ page[w] = NoPage
    /\ RowsAfter(ResumesFrom(w)) # {} \/ known[w] = Unread
    /\ Ingest(w, RowsAfter(ResumesFrom(w)))

(* A frame of the stream.  One that is stored already is dropped; the ids it    *)
(* skips are read from the venue first.                                         *)
Recovered(last, id) == IF last = 0 THEN {} ELSE last + 1 .. id - 1
Frame(w, id) ==
    /\ page[w] = NoPage
    /\ id > ResumesFrom(w)
    /\ Ingest(w, Recovered(ResumesFrom(w), id) \cup {id})

(* persist: what is stored is skipped, the rest inserted. *)
Select(w) ==
    /\ page[w].rows # {} /\ ~ page[w].asked
    /\ page' = [page EXCEPT ![w].skip = page[w].rows \cap stored, ![w].asked = TRUE]
    /\ UNCHANGED <<prints, head, stored, checkpoint, known>>
NotStored(w) == page[w].rows \ page[w].skip

(* Plausible bug: a page of which one trade is stored is taken to be stored. *)
InsertedBug(w) == IF page[w].skip # {} THEN {} ELSE NotStored(w)
Inserted(w) == NotStored(w)

(* A trade another instance stored since the select breaks the unique key, and  *)
(* the instance ends: it can only be started again.                             *)
Collides(w) == NotStored(w) \cap stored # {}

(* A lower checkpoint is not written. *)
Commit(w) ==
    LET last == Max(page[w].rows) IN
    /\ page[w].asked /\ ~ Collides(w)
    /\ stored' = stored \cup Inserted(w)
    /\ checkpoint' = Max({checkpoint, last})
    /\ known' = [known EXCEPT ![w] = last]
    /\ page' = [page EXCEPT ![w] = NoPage]
    /\ UNCHANGED <<prints, head>>

(* An instance that is started again loads the checkpoint again. *)
Forgets(w) ==
    /\ known' = [known EXCEPT ![w] = Unread]
    /\ page' = [page EXCEPT ![w] = NoPage]
    /\ UNCHANGED <<prints, head, stored, checkpoint>>

VenuePrints(id) ==
    /\ head < id /\ id <= Len(prints)
    /\ head' = id
    /\ UNCHANGED <<prints, stored, checkpoint, known, page>>

-----------------------------------------------------------------------------
(* The tape is read from the oldest stored trade to the checkpoint without a    *)
(* hole, whichever instances wrote it, however their writes overlap and         *)
(* whenever one of them dies; provided it had been read once before two of them *)
(* started (binance_usdm.py _ingest_page, market_tape.py persist).              *)
NoHoles == stored = Min(stored) .. checkpoint
==============================================================================
