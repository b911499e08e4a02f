-------------------------------- MODULE M3U --------------------------------
(***************************************************************************)
(* The playlist parser (backend/src/iptv/m3u-parser.ts) as functions from  *)
(* a sequence of lines to the channels they declare.  A line is a record;  *)
(* what the regular expressions cut out of it (tvg-id without its quality, *)
(* the country of its suffix, the display name in its normal form) is a    *)
(* field, and the tests the parser makes on the fields are its own.        *)
(***************************************************************************)
EXTENDS Integers, Sequences, SequencesExt, FiniteSetsExt

CONSTANT Absent                \* null, or an empty string

\* Lines.  An EXTINF line has the attributes, any other line is a URL, a comment
\* or blank.
Extinf(tvg, country, name, quality) ==
    [kind |-> "extinf", tvg |-> tvg, country |-> country, name |-> name,
     quality |-> quality, url |-> Absent]
Other(kind, url) ==
    [kind |-> kind, tvg |-> Absent, country |-> Absent, name |-> Absent,
     quality |-> "", url |-> url]

StreamUrlMutant(lines, i) ==
    LET below == {j \in (i + 1)..Len(lines) : lines[j].kind = "url"}
    IN  IF below = {} THEN Absent ELSE lines[Min(below)].url

\* The first line below that is neither blank nor a comment; another EXTINF means
\* that the entry has no URL.
StreamUrl(lines, i) ==
    LET below == {j \in (i + 1)..Len(lines) : lines[j].kind \in {"url", "extinf"}}
    IN  IF below = {} THEN Absent ELSE lines[Min(below)].url

\* qualityRank: by the quality suffix of the tvg-id or, without one, by what the
\* name says.
QualityRank(quality) ==
    CASE quality \in {"FHD", "4K", "2160"} -> 5
      [] quality \in {"HD", "1080", "1080p in the name"} -> 4
      [] quality \in {"SD", "720", "720p in the name"} -> 3
      [] quality \in {"576", "480", "404"} -> 2
      [] OTHER -> 1

\* The key of a channel: country and normalised name when the tvg-id tells the
\* country, the tvg-id itself otherwise.
ExternalId(line) ==
    IF line.country # Absent THEN <<line.country, line.name>> ELSE <<line.tvg>>

ParsedChannel(lines, i) ==
    [id |-> ExternalId(lines[i]), country |-> lines[i].country, url |-> StreamUrl(lines, i),
     rank |-> QualityRank(lines[i].quality)]

Declares(lines, i) ==
    /\ lines[i].kind = "extinf"
    /\ lines[i].tvg # Absent /\ lines[i].name # Absent
    /\ StreamUrl(lines, i) # Absent

\* One turn of the loop of parseM3U: the entry is pushed or skipped.
Collect(lines, parsed, i) ==
    IF Declares(lines, i) THEN Append(parsed, ParsedChannel(lines, i)) ELSE parsed

ParseM3U(lines) == FoldLeftDomain(LAMBDA parsed, i : Collect(lines, parsed, i), <<>>, lines)

KeepLatestMutant(kept, channel) ==
    IF \E n \in DOMAIN kept : kept[n].id = channel.id
    THEN [n \in DOMAIN kept |-> IF kept[n].id = channel.id THEN channel ELSE kept[n]]
    ELSE Append(kept, channel)

\* One turn of the loop of dedupeChannels: a Map keeps the place of its keys.
KeepBetter(kept, channel) ==
    IF \E n \in DOMAIN kept : kept[n].id = channel.id
    THEN [n \in DOMAIN kept |->
             IF kept[n].id = channel.id /\ channel.rank > kept[n].rank THEN channel ELSE kept[n]]
    ELSE Append(kept, channel)

DedupeChannels(parsed) == FoldLeft(KeepBetter, <<>>, parsed)

-----------------------------------------------------------------------------
\* What dedupeChannels promises ("conservando la entrada de mejor calidad"): each
\* id once, with the first of its entries of the best quality.
BestOf(parsed, kept) ==
    /\ {parsed[n].id : n \in DOMAIN parsed} = {kept[n].id : n \in DOMAIN kept}
    /\ \A m, n \in DOMAIN kept : kept[m].id = kept[n].id => m = n
    /\ \A n \in DOMAIN kept :
          \E first \in DOMAIN parsed :
             /\ parsed[first] = kept[n]
             /\ \A j \in DOMAIN parsed :
                   parsed[j].id = kept[n].id =>
                      \/ parsed[j].rank < kept[n].rank
                      \/ parsed[j].rank = kept[n].rank /\ j >= first
=============================================================================
