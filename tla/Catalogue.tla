----------------------------- MODULE Catalogue -----------------------------
(***************************************************************************)
(* The channel table and the two jobs that write it, started by cron and   *)
(* by the panel (backend/src/iptv):                                        *)
(*                                                                         *)
(*   sync      fetches and parses the sources, then upserts countries and  *)
(*             channels, one await per country and per batch;              *)
(*   checkAll  takes a snapshot of the channels that are due, probes their *)
(*             URLs with several workers and writes each verdict by id.    *)
(*                                                                         *)
(* Nothing keeps two syncs, two checks, or a sync and a check apart: a     *)
(* verdict may be about a URL the channel no longer has.  The first worker *)
(* that needs ffprobe marks it as looked for before it knows the answer.   *)
(***************************************************************************)
EXTENDS M3U

CONSTANTS
    Sources,        \* IPTV_SOURCE_URL and IPTV_EXTRA_SOURCES
    Playlists,      \* what a source may answer
    Syncs,          \* runs of sync, each started once
    Checks,         \* ways of starting checkAll
    Cron,           \* the one among them that repeats by itself
    WORKERS,        \* CONCURRENCY
    BATCH,          \* BATCH_SIZE
    StreamOf,       \* what is behind each URL, see Streams
    MaxCrashes      \* bound on restarts of the process

Streams == {"works", "mute", "unsure", "down", "slow"}

Lines == UNION {Range(list) : list \in Playlists}
Urls == {line.url : line \in Lines} \ {Absent}
Ids == {ExternalId(line) : line \in {l \in Lines : l.kind = "extinf"}}
CountriesOf(parsed) == {parsed[n].country : n \in DOMAIN parsed} \ {Absent}

ASSUME CatalogueAssumption ==
    /\ WORKERS \in Nat \ {0} /\ BATCH \in Nat \ {0} /\ MaxCrashes \in Nat
    /\ Cron \in Checks
    /\ StreamOf \in [Urls -> Streams]
    /\ IsFiniteSet(Sources)

\* A playlist is a sequence of lines, and the URL of an entry is on a line of its own.
ASSUME PlaylistAssumption ==
    \A list \in Playlists :
        /\ list \in Seq(Lines)
        /\ \A i \in DOMAIN list :
              /\ list[i].kind \in {"extinf", "url", "comment", "blank"}
              /\ list[i].kind = "extinf" => list[i].url = Absent

VARIABLES
    channels,       \* rows of the table by externalId
    countries,      \* rows of countries
    syncs,          \* syncs[s]: what a sync has collected and written so far
    checks,         \* checks[c]: queue and workers of a check
    tool,           \* ffprobeChecked, ffprobeAvailable, and whether it is installed
    crashes

CatalogueVars == <<channels, countries, syncs, checks, tool, crashes>>

ChannelRow == [url : Urls \cup {Absent}, status : {"UNKNOWN", "ONLINE", "OFFLINE", "TIMEOUT"},
               recent : BOOLEAN]                   \* checked less than 12 hours ago
NoChannel == [url |-> Absent, status |-> "UNKNOWN", recent |-> FALSE]
Row(id) == channels[id].url # Absent

NoSync == [pc |-> "new", collected |-> <<>>, parsed |-> <<>>, i |-> 0]
Snapshot == [id : Ids, url : Urls]
Probe == [id : Ids, url : Urls, stage : {"probe", "version", "listen", "ONLINE", "OFFLINE", "TIMEOUT"}]
NoCheck == [on |-> FALSE, queue |-> {}, probing |-> {}]

\* The table is empty or as a sync of some playlist has left it.
CatalogueInit ==
    /\ \E list \in Playlists \cup {<<>>} :
          LET parsed == DedupeChannels(ParseM3U(list)) IN
          /\ channels = [id \in Ids |->
                 IF \E n \in DOMAIN parsed : parsed[n].id = id
                 THEN [NoChannel EXCEPT !.url = (CHOOSE e \in Range(parsed) : e.id = id).url]
                 ELSE NoChannel]
          /\ countries = CountriesOf(parsed)
    /\ syncs = [s \in Syncs |-> NoSync]
    /\ checks = [c \in Checks |-> NoCheck]
    /\ \E installed \in BOOLEAN :
          tool = [looked |-> FALSE, available |-> FALSE, installed |-> installed]
    /\ crashes = 0

-----------------------------------------------------------------------------
(* iptv-sync.service.ts *)

SyncGoes(s, row) == syncs' = [syncs EXCEPT ![s] = row]
TablesOnly == UNCHANGED <<checks, tool, crashes>>

\* Every source is fetched, those that fail are skipped; with none the sync throws
\* before it has touched anything.
FetchSources(s) ==
    /\ syncs[s].pc = "new"
    /\ \E answer \in [Sources -> Playlists \cup {<<>>}] :
          LET parsed == FlattenSeq([n \in 1..Cardinality(Sources) |->
                            ParseM3U(answer[SetToSeq(Sources)[n]])])
          IN  SyncGoes(s, IF parsed = <<>> THEN [NoSync EXCEPT !.pc = "done"]
                          ELSE [pc |-> "write", collected |-> parsed,
                                parsed |-> DedupeChannels(parsed), i |-> 0])
    /\ UNCHANGED <<channels, countries>> /\ TablesOnly

Missing(s) == CountriesOf(syncs[s].parsed) \ countries

\* Countries first, one upsert each.
UpsertCountry(s) ==
    /\ syncs[s].pc = "write"
    /\ \E code \in Missing(s) : countries' = countries \cup {code}
    /\ UNCHANGED <<channels, syncs>> /\ TablesOnly

Chunk(s) ==
    SubSeq(syncs[s].parsed, syncs[s].i + 1, Min({syncs[s].i + BATCH, Len(syncs[s].parsed)}))

UpsertedMutant(row, url) == [row EXCEPT !.url = url, !.recent = TRUE]

\* The upsert of a channel: its standing is left as it is.
Upserted(row, url) == [row EXCEPT !.url = url]

\* Then the channels, a batch per transaction.
UpsertBatch(s) ==
    /\ syncs[s].pc = "write" /\ syncs[s].i < Len(syncs[s].parsed)
    /\ Missing(s) = {}
    /\ channels' = [id \in Ids |->
          IF \E n \in DOMAIN Chunk(s) : Chunk(s)[n].id = id
          THEN Upserted(channels[id], (CHOOSE e \in Range(Chunk(s)) : e.id = id).url)
          ELSE channels[id]]
    /\ SyncGoes(s, [syncs[s] EXCEPT !.i = @ + BATCH])
    /\ UNCHANGED countries /\ TablesOnly

\* All written, or a statement fails and the sync throws half way.
SyncEnds(s) ==
    /\ syncs[s].pc = "write"
    /\ SyncGoes(s, [NoSync EXCEPT !.pc = "done"])
    /\ UNCHANGED <<channels, countries>> /\ TablesOnly

-----------------------------------------------------------------------------
(* stream-health.service.ts *)

EligibleMutant(id) == Row(id) /\ channels[id].status # "ONLINE"

\* Active channels that are not ONLINE, or not checked for 12 hours.
Eligible(id) == Row(id) /\ (channels[id].status # "ONLINE" \/ ~channels[id].recent)

CheckGoes(c, check) == checks' = [checks EXCEPT ![c] = check]
NotTheTable == UNCHANGED <<channels, countries, syncs, crashes>>

\* cron, or POST healthcheck, which does not wait for the end.
StartCheck(c) ==
    /\ ~checks[c].on
    /\ CheckGoes(c, [on |-> TRUE, probing |-> {},
                     queue |-> {[id |-> id, url |-> channels[id].url] :
                                   id \in {i \in Ids : Eligible(i)}}])
    /\ UNCHANGED tool /\ NotTheTable

\* A worker takes the next channel of the snapshot and asks its URL for some bytes.
TakeNext(c) ==
    /\ Cardinality(checks[c].probing) < WORKERS
    /\ \E next \in checks[c].queue :
          CheckGoes(c, [checks[c] EXCEPT
              !.queue = @ \ {next},
              !.probing = @ \cup {[id |-> next.id, url |-> next.url, stage |-> "probe"]}])
    /\ UNCHANGED tool /\ NotTheTable

Reaches(c, p, stage) ==
    CheckGoes(c, [checks[c] EXCEPT !.probing = (@ \ {p}) \cup {[p EXCEPT !.stage = stage]}])

\* probe answers; a stream that works goes on to hasAudio, whose first test runs in
\* the same turn and marks the tool as looked for.
ProbeAnswers(c, p) ==
    /\ p.stage = "probe"
    /\ CASE StreamOf[p.url] = "down" -> Reaches(c, p, "OFFLINE") /\ UNCHANGED tool
         [] StreamOf[p.url] = "slow" -> Reaches(c, p, "TIMEOUT") /\ UNCHANGED tool
         [] OTHER ->
              IF ~tool.looked THEN Reaches(c, p, "version") /\ tool' = [tool EXCEPT !.looked = TRUE]
              ELSE /\ Reaches(c, p, IF tool.available THEN "listen" ELSE "ONLINE")
                   /\ UNCHANGED tool
    /\ NotTheTable

\* ffprobe -version answers; an error or its timeout counts as an answer for good.
VersionAnswers(c, p) ==
    /\ p.stage = "version"
    /\ \E answered \in {FALSE, tool.installed} :
          /\ tool' = [tool EXCEPT !.available = answered]
          /\ Reaches(c, p, IF answered THEN "listen" ELSE "ONLINE")
    /\ NotTheTable

\* ffprobe lists the tracks, or fails and nothing is known.
ListenAnswers(c, p) ==
    /\ p.stage = "listen"
    /\ Reaches(c, p, IF StreamOf[p.url] = "mute" THEN "OFFLINE" ELSE "ONLINE")
    /\ UNCHANGED tool /\ NotTheTable

\* The verdict is written by id, whatever the URL of the channel is by now.
WriteVerdict(c, p) ==
    /\ p.stage \in {"ONLINE", "OFFLINE", "TIMEOUT"}
    /\ channels' = [channels EXCEPT ![p.id].status = p.stage, ![p.id].recent = TRUE]
    /\ CheckGoes(c, [checks[c] EXCEPT !.probing = @ \ {p}])
    /\ UNCHANGED <<countries, syncs, tool, crashes>>

\* Promise.all: no worker is left.
CheckEnds(c) ==
    /\ checks[c].on /\ checks[c].queue = {} /\ checks[c].probing = {}
    /\ CheckGoes(c, NoCheck)
    /\ UNCHANGED tool /\ NotTheTable

ProbeStep(c, p) ==
    ProbeAnswers(c, p) \/ VersionAnswers(c, p) \/ ListenAnswers(c, p) \/ WriteVerdict(c, p)
HealthStep(c) ==
    StartCheck(c) \/ TakeNext(c) \/ CheckEnds(c) \/ (\E p \in checks[c].probing : ProbeStep(c, p))

-----------------------------------------------------------------------------
\* lastCheckedAt of a channel falls behind by 12 hours.
HalfDay(id) ==
    /\ channels[id].recent
    /\ channels' = [channels EXCEPT ![id].recent = FALSE]
    /\ UNCHANGED <<countries, syncs>> /\ TablesOnly

\* A restart drops the jobs and what was known of the tool.  A manual check whose
\* update fails causes one: nobody handles its rejection.
CatalogueCrash ==
    /\ crashes < MaxCrashes
    /\ crashes' = crashes + 1
    /\ syncs' = [s \in Syncs |-> IF syncs[s].pc = "new" THEN NoSync ELSE [NoSync EXCEPT !.pc = "done"]]
    /\ checks' = [c \in Checks |-> NoCheck]
    /\ tool' = [tool EXCEPT !.looked = FALSE, !.available = FALSE]
    /\ UNCHANGED <<channels, countries>>

CatalogueNext ==
    \/ \E s \in Syncs : FetchSources(s) \/ UpsertCountry(s) \/ UpsertBatch(s) \/ SyncEnds(s)
    \/ \E c \in Checks : HealthStep(c)
    \/ \E id \in Ids : HalfDay(id)
    \/ CatalogueCrash

-----------------------------------------------------------------------------
(* channels.service.ts *)

\* buildWhere: what the customers' list shows.
Listed(id) == Row(id) /\ channels[id].status # "OFFLINE"

\* What a check of this process finds out about a URL in the end.
Found(url) ==
    CASE StreamOf[url] = "down" -> "OFFLINE"
      [] StreamOf[url] = "slow" -> "TIMEOUT"
      [] StreamOf[url] = "mute" /\ tool.available -> "OFFLINE"
      [] OTHER -> "ONLINE"

(* Properties *)

\* Tables, jobs and tool are of their types.
CatalogueTypeOK ==
    /\ channels \in [Ids -> ChannelRow]
    /\ countries \subseteq {line.country : line \in Lines} \ {Absent}
    /\ \A s \in Syncs : /\ syncs[s].pc \in {"new", "write", "done"}
                        /\ \A n \in DOMAIN syncs[s].parsed : syncs[s].parsed[n].id \in Ids
    /\ \A c \in Checks : checks[c].queue \subseteq Snapshot /\ checks[c].probing \subseteq Probe
    /\ tool \in [looked : BOOLEAN, available : BOOLEAN, installed : BOOLEAN]
    /\ crashes \in 0..MaxCrashes

\* A sync writes each channel it has collected from all its sources once, with the
\* URL of the first entry of the best quality.
SyncKeepsBest ==
    \A s \in Syncs :
        syncs[s].pc = "write" => BestOf(syncs[s].collected, syncs[s].parsed)

\* Some playlist has an entry for the channel with this URL below it, and nothing but
\* comments and blank lines between the two.
Given(id, url) ==
    \E list \in Playlists : \E i \in DOMAIN list :
        /\ list[i].kind = "extinf" /\ ExternalId(list[i]) = id
        /\ \E j \in (i + 1)..Len(list) :
              /\ list[j].url = url
              /\ \A k \in (i + 1)..(j - 1) : list[k].kind \in {"comment", "blank"}

\* A channel plays a URL that some playlist gives for it: an entry without a URL
\* never takes the one of the next entry, and no merge of sources or quality
\* variants crosses two channels.
UrlIsItsOwn == \A id \in Ids : Row(id) => Given(id, channels[id].url)

\* Once the catalogue no longer changes, the channels end up with the standing of
\* the URL they have, as far as the process can tell (a failed ffprobe -version ends
\* the checks of the sound until the next restart), and the customers with the list of those that play: probes
\* of old URLs written late, overlapping checks and a check of the sound skipped
\* while ffprobe was being looked for are all made good by later checks.
StandingCatchesUp ==
    <>[](\A id \in Ids : Row(id) =>
            /\ channels[id].status = Found(channels[id].url)
            /\ Listed(id) <=> Found(channels[id].url) # "OFFLINE")
=============================================================================
