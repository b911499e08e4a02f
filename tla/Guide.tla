------------------------------- MODULE Guide -------------------------------
(***************************************************************************)
(* The programme guide: EpgSyncService.sync (backend/src/iptv) replaces    *)
(* the programmes of the channels a source tells about, EpgService         *)
(* (backend/src/epg) reads them.  The old programmes are deleted by one    *)
(* statement and the new ones created by several, with no transaction: a   *)
(* failure in between leaves a channel without its guide, two syncs at     *)
(* once may fill it twice.  A source tells a channel by its tvg-id, which  *)
(* is looked for among the externalIds of the catalogue.                   *)
(*                                                                         *)
(* Time is counted in slots; a programme fills the slot it is named by.    *)
(***************************************************************************)
EXTENDS Integers, FiniteSets

CONSTANTS
    GuideChannels,  \* rows of channels
    TvgOf,          \* tvg-id of each channel in its playlist
    ExternalIdOf,   \* what the parser made of it
    GuideSyncs,     \* handlers of sync, from cron and from the panel
    HORIZON,        \* HORIZON_HOURS, in slots
    BATCH_ROWS,     \* BATCH_SIZE
    LastSlot,       \* bound on time
    MaxCopies       \* bound on the times a row may be stored

ASSUME GuideAssumption ==
    /\ HORIZON \in Nat /\ LastSlot \in Nat
    /\ BATCH_ROWS \in Nat \ {0} /\ MaxCopies \in Nat \ {0}

VARIABLES
    programs,       \* programs[c][s]: how many rows say what c shows in slot s
    slot,           \* now
    guideJobs,      \* what a sync holds between two awaits
    mixed           \* history: channels last emptied while another sync was filling them

GuideVars == <<programs, slot, guideJobs, mixed>>

Slots == 0..LastSlot
Entries == {TvgOf[c] : c \in GuideChannels} \X Slots
NoGuideJob == [pc |-> "idle", relevant |-> {}, rows |-> {}]
GuideJob == [pc : {"idle", "delete", "create"}, relevant : SUBSET Entries,
             rows : SUBSET (GuideChannels \X Slots)]

GuideInit ==
    /\ programs = [c \in GuideChannels |-> [s \in Slots |-> 0]]
    /\ slot = 0
    /\ guideJobs = [g \in GuideSyncs |-> NoGuideJob]
    /\ mixed = {}

GuideGoes(g, job) == guideJobs' = [guideJobs EXCEPT ![g] = job]

\* The channels some other sync has yet to write rows for.
BeingFilled(g) ==
    {c \in GuideChannels : \E h \in GuideSyncs \ {g} : \E row \in guideJobs[h].rows : row[1] = c}

\* Ends now or later, starts within the horizon.
Relevant(entry) == entry[2] + 1 >= slot /\ entry[2] <= slot + HORIZON

MappedMutant(relevant) == GuideChannels

\* The channels whose externalId is one of the tvg-ids.
Mapped(relevant) == {c \in GuideChannels : \E e \in relevant : ExternalIdOf[c] = e[1]}

\* The source is fetched and parsed (parseXmltv drops what has no channel, no title
\* or no time); if it fails the sync throws and nothing has changed.
FetchGuide(g) ==
    /\ guideJobs[g].pc = "idle"
    /\ \E entries \in SUBSET Entries :
          GuideGoes(g, [pc |-> "delete", relevant |-> {e \in entries : Relevant(e)},
                        rows |-> {}])
    /\ UNCHANGED <<programs, slot, mixed>>

RowsFor(relevant) ==
    {row \in GuideChannels \X Slots : <<ExternalIdOf[row[1]], row[2]>> \in relevant}

DeleteGuideMutant(g) ==
    /\ guideJobs[g].pc = "delete"
    /\ mixed' = (mixed \ Mapped(guideJobs[g].relevant))
                    \cup (Mapped(guideJobs[g].relevant) \cap BeingFilled(g))
    /\ GuideGoes(g, [pc |-> "create", relevant |-> {},
                    rows |-> RowsFor(guideJobs[g].relevant)])
    /\ UNCHANGED <<programs, slot>>

\* deleteMany for the channels found
DeleteGuide(g) ==
    /\ guideJobs[g].pc = "delete"
    /\ programs' = [c \in GuideChannels |->
                       IF c \in Mapped(guideJobs[g].relevant) THEN [s \in Slots |-> 0]
                       ELSE programs[c]]
    /\ mixed' = (mixed \ Mapped(guideJobs[g].relevant))
                    \cup (Mapped(guideJobs[g].relevant) \cap BeingFilled(g))
    /\ GuideGoes(g, [pc |-> "create", relevant |-> {},
                    rows |-> RowsFor(guideJobs[g].relevant)])
    /\ UNCHANGED slot

\* and createMany, a batch at a time, for the rest of the rows.
CreateRows(g) ==
    /\ guideJobs[g].pc = "create"
    /\ \E batch \in SUBSET guideJobs[g].rows :
          /\ Cardinality(batch) <= BATCH_ROWS
          /\ Cardinality(batch) = BATCH_ROWS \/ batch = guideJobs[g].rows
          /\ \A row \in batch : programs[row[1]][row[2]] < MaxCopies
          /\ programs' = [c \in GuideChannels |-> [s \in Slots |->
                             programs[c][s] + IF <<c, s>> \in batch THEN 1 ELSE 0]]
          /\ GuideGoes(g, IF batch = guideJobs[g].rows THEN NoGuideJob
                          ELSE [guideJobs[g] EXCEPT !.rows = @ \ batch])
    /\ UNCHANGED <<slot, mixed>>

\* A statement fails, or the server restarts: the rest is not written.
GuideFails(g) ==
    /\ guideJobs[g].pc # "idle"
    /\ GuideGoes(g, NoGuideJob)
    /\ UNCHANGED <<programs, slot, mixed>>

\* A slot is half an hour: none passes between the filter and the deletion.
GuideTick ==
    /\ slot < LastSlot
    /\ \A g \in GuideSyncs : guideJobs[g].pc # "delete"
    /\ slot' = slot + 1
    /\ UNCHANGED <<programs, guideJobs, mixed>>

GuideNext ==
    \/ \E g \in GuideSyncs : FetchGuide(g) \/ DeleteGuide(g) \/ CreateRows(g) \/ GuideFails(g)
    \/ GuideTick

GuideSpec == GuideInit /\ [][GuideNext]_GuideVars

-----------------------------------------------------------------------------
(* epg.service.ts *)

\* forChannel: what is on, or still to come, of one channel.
ForChannel(c) == {s \in Slots : programs[c][s] > 0 /\ s + 1 > slot}

\* now: the rows that are on the air.
OnAir == {c \in GuideChannels : programs[c][slot] > 0}

(* Properties *)

\* Programmes, clock and jobs are of their types.
GuideTypeOK ==
    /\ programs \in [GuideChannels -> [Slots -> 0..MaxCopies]]
    /\ slot \in Slots
    /\ guideJobs \in [GuideSyncs -> GuideJob]
    /\ mixed \subseteq GuideChannels

\* A programme is listed twice only in a channel that one sync emptied between the
\* batches in which another was filling it (the cron and the panel's button at once).
\* Syncs that failed half way double nothing, and the next sync that has the channel to
\* itself repairs what two have doubled.
GuideNotDoubled ==
    \A c \in GuideChannels \ mixed, s \in Slots : programs[c][s] <= 1

\* A channel loses what it would show from now on only to a sync that holds other
\* programmes for it: a source that is silent about a channel leaves it its guide.
ReplacedNotErased ==
    [][\A c \in GuideChannels :
          ForChannel(c) # {} /\ ForChannel(c)' = {} /\ slot' = slot =>
              \E g \in GuideSyncs : \E row \in guideJobs'[g].rows :
                  row[1] = c /\ row[2] + 1 >= slot]_GuideVars
=============================================================================
