--------------------------- MODULE CaptionSegmenter ---------------------------
(***************************************************************************)
(* How a running transcript becomes caption segments                       *)
(* (caption-segmenter.cpp).  While somebody speaks, every interim result   *)
(* is a new guess at the whole utterance.  The segmenter keeps the last    *)
(* few different guesses, cuts the part that has not changed for a while   *)
(* into segments, and reconciles every later guess, and the final text,    *)
(* with the segments cut so far: what still matches keeps its identity, a  *)
(* segment that changed alone gets a new revision, anything else is        *)
(* replaced.  The caller takes segments over and tells which of them are   *)
(* no longer displayed; those must not be said again.                      *)
(*                                                                         *)
(* A text is its sequence of code points, each one column wide.  What is   *)
(* abstracted:                                                             *)
(*   - UTF-8 decoding and wide code points; a newline, a semicolon and the *)
(*     other marks of a rank behave like the mark that stands for the rank;*)
(*   - bytes are code points, so the source limit counts code points;      *)
(*   - unchanged_since_ is the age of every code point in clock ticks, up  *)
(*     to OpenAge; the clock does not run backwards;                       *)
(*   - first_seen_ms, which the segmenter only hands on;                   *)
(*   - segment ids are unique by themselves (next_segment_ survives reset  *)
(*     and begin_utterance), so a key is its segment id; the utterance id  *)
(*     is only whether there is an utterance.                              *)
(* begin_utterance is also a public member, which nothing calls.           *)
(***************************************************************************)
EXTENDS Integers, SequencesExt

CONSTANTS
    Vocabularies,   \* what the recognizer may report: a behaviour keeps to one of these sets
    Latin,          \* the letters and digits of the ASCII alphabet that occur
    Digits,         \* the digits among them
    MinWidth,       \* 12: a segment is not shorter, unless it ends a sentence
    Target,         \* 80: the width aimed at
    MaxWidth,       \* 120: a segment is not wider
    HoldBack,       \* 4: code points left of text without spaces
    MaxSource,      \* kMaxSourceBytes
    MaxSnapshots,   \* kMaxSnapshots
    MaxSegments,    \* kMaxSegments
    StableAge,      \* the 800 ms, in clock ticks
    OpenAge,        \* the 2000 ms, in clock ticks
    MaxId           \* bound on the segment ids used

ASSUME SegmenterAssumption ==
    /\ \A voc \in Vocabularies : voc \subseteq Seq(STRING)
    /\ Digits \subseteq Latin
    /\ MinWidth \in Nat \ {0} /\ Target \in Nat /\ Target > MinWidth
    /\ MaxWidth \in Nat /\ MaxWidth > Target
    /\ HoldBack \in Nat /\ MaxSource \in Nat \ {0}
    /\ MaxSnapshots \in Nat \ {0} /\ MaxSegments \in Nat \ {0}
    /\ StableAge \in Nat \ {0} /\ OpenAge \in Nat /\ OpenAge > StableAge
    /\ MaxId \in Nat \ {0}

VARIABLES
    texts,          \* the vocabulary the behaviour keeps to
    utt,            \* what begin_utterance resets: see Utterances
    incremental,    \* incremental_
    nextId,         \* next_segment_
    \* what the checks remember of the caller and of the recognizer
    taken,          \* the segments the caller has taken over and not retired, by id
    transcript,     \* the text the segments were last reconciled with
    recent          \* the interim texts that were current within StableAge

vars == << texts, utt, incremental, nextId, taken, transcript, recent >>

\* The state of the utterance.  snapshots are the last different texts, the current
\* one last; ages is unchanged_since_, the age of every code point; gone are the ids
\* whose states_ entry is Retired.  utterance_ is 0 when it is not open.
NoUtterance ==
    [open |-> FALSE, closed |-> FALSE, stopped |-> FALSE, tombstones |-> 0,
     snapshots |-> <<>>, ages |-> <<>>, segments |-> <<>>, gone |-> {}]

\* begin_utterance
Begun == [NoUtterance EXCEPT !.open = TRUE]
Opened == IF utt.open /\ ~utt.closed THEN utt ELSE Begun

-----------------------------------------------------------------------------
(* Text.                                                                   *)
(* An operator commented "bug:" is not part of the model.  It is the       *)
(* definition behind it with a plausible programming error; put in its     *)
(* place, it makes TLC find the property named violated.                   *)

Space(c) == c = " "

\* Whether the code point at i ends a sentence: a point between digits does not.
Sentence(t, i) ==
    t[i] = "." /\ ~(1 < i /\ i < Len(t) /\ t[i - 1] \in Digits /\ t[i + 1] \in Digits)

\* priority: how good it is to cut behind the code point at i.
Rank(t, i) ==
    CASE Sentence(t, i) -> 3
      [] t[i] = "," -> 2
      [] Space(t[i]) -> 1
      [] OTHER -> 0

\* normalize_caption_source: no space at either end, no two in a row.
SpaceOnce(t, c) == IF Space(c) /\ (t = <<>> \/ Space(Last(t))) THEN t ELSE Append(t, c)
SpaceTrimmed(t) == IF t # <<>> /\ Space(Last(t)) THEN Front(t) ELSE t
Normalized(text) == SpaceTrimmed(FoldLeft(SpaceOnce, <<>>, text))

\* bounded_tail
BoundedTail(text) == Normalized(SubSeq(text, Len(text) - MaxSource + 1, Len(text)))

CommonPoints(a, b) == Len(LongestCommonPrefix({a, b}))

\* The first code point from i on that is no space, and the end of the text
\* without the spaces before it.
SkipSpaces(t, i) ==
    CHOOSE j \in i..(Len(t) + 1) :
        /\ j > Len(t) \/ ~Space(t[j])
        /\ \A k \in i..(j - 1) : Space(t[k])
TrimTo(t, n) ==
    CHOOSE j \in 0..n :
        /\ j = 0 \/ ~Space(t[j])
        /\ \A k \in (j + 1)..n : Space(t[k])

Rest(t, i) == SubSeq(t, i, Len(t))

\* The code points of t from begin on that one may cut behind, of a rank, and the best
\* of them.  A boundary counts from the minimal width on, the end of a sentence always.
CutsAt(t, begin, rank) ==
    {i \in begin..Min({Len(t), begin + MaxWidth - 1}) :
        Rank(t, i) = rank /\ (i - begin + 1 >= MinWidth \/ rank = 3)}
BestCut(t, begin, ranks) == Max(CutsAt(t, begin, Max({r \in ranks : CutsAt(t, begin, r) # {}})))

\* The last code point of the segment cut from t at begin, the spaces behind it included.
CutOf(t, begin) ==
    IF Len(t) - begin + 1 >= Target THEN BestCut(t, begin, 0..3)
    ELSE IF CutsAt(t, begin, 3) # {} THEN BestCut(t, begin, {3})
    ELSE Len(t)

\* bug: the mark that ends the segment is cut off (TranscriptKept).
CutOffShort(t, done, begin, cut) ==
    [parts |-> Append(done, SubSeq(t, begin, TrimTo(t, cut - 1))), at |-> cut + 1]
\* split_caption_source, of a normalized text: segment after segment is cut off.
CutOff(t, done, begin, cut) ==
    [parts |-> Append(done, SubSeq(t, begin, TrimTo(t, cut))), at |-> cut + 1]
CutNext(t, s, begin) ==
    IF begin > Len(t) THEN s ELSE CutOff(t, s.parts, begin, CutOf(t, begin))
Split(text) ==
    LET Cut(s, i) == CutNext(text, s, SkipSpaces(text, s.at))
    IN  FoldLeftDomain(Cut, [parts |-> <<>>, at |-> 1], text).parts

\* match_prefix: how many of the segments the text begins with, and where the
\* text goes on behind them.  A segment that ends inside a word of the text does
\* not match, unless it was cut for its width.
InsideWord(text, next, source) ==
    /\ next <= Len(text) /\ text[next] \in Latin
    /\ Last(source) \in Latin /\ Len(source) < Target
Goes(text, begin, source) ==
    /\ SubSeq(text, begin, begin + Len(source) - 1) = source
    /\ ~InsideWord(text, begin + Len(source), source)
MatchedOn(text, m, begin, source) ==
    IF m.on /\ begin + Len(source) <= Len(text) + 1 /\ Goes(text, begin, source)
    THEN [count |-> m.count + 1, tail |-> begin + Len(source), on |-> TRUE]
    ELSE [m EXCEPT !.on = FALSE]
MatchPrefix(text, segs) ==
    LET Match(m, s) == MatchedOn(text, m, SkipSpaces(text, m.tail), s.text)
        match == FoldLeft(Match, [count |-> 0, tail |-> 1, on |-> TRUE], segs)
    IN  [match EXCEPT !.tail = SkipSpaces(text, @)]

-----------------------------------------------------------------------------
(* Reconciliation: what becomes of the utterance u when its text is known  *)
(* to be text.  A result is the utterance afterwards, the ids used, what   *)
(* the caller is told, and the text the segments now stand for.            *)

Managed(u) == Len(u.segments) + u.tombstones

NewSegment(id, text, final, order, replaces) ==
    [id |-> id, rev |-> 1, text |-> text, final |-> final, order |-> order,
     replaces |-> replaces]

Told(u, next, upserts, retired, text) ==
    [utt |-> u, nextId |-> next, upserts |-> upserts, retired |-> retired, text |-> text]
Unchanged(u) == Told(u, nextId, {}, {}, IF u.segments = <<>> THEN <<>> ELSE transcript)

IdsOf(segs) == {segs[i].id : i \in DOMAIN segs}

\* How the parts of a text lie on the segments of u: so many are the same at the
\* beginning and at the end, and what is between them changed.
CommonSuffix(a, b, room) ==
    Max({k \in 0..room : \A j \in 0..(k - 1) : a[Len(a) - j].text = b[Len(b) - j]})
AlignedOn(u, prefix, parts) ==
    [parts |-> parts, prefix |-> prefix,
     suffix |-> CommonSuffix(u.segments, parts, Min({Len(u.segments), Len(parts)}) - prefix)]
AlignedBehind(u, text, match) ==
    AlignedOn(u, match.count,
        [i \in 1..match.count |-> u.segments[i].text] \o Split(Rest(text, match.tail)))
Alignment(u, text) == AlignedBehind(u, text, MatchPrefix(text, u.segments))

OldCount(u, al) == Len(u.segments) - al.prefix - al.suffix
NewCount(al) == Len(al.parts) - al.prefix - al.suffix
Affected(u, al) == {u.segments[al.prefix + i].id : i \in 1..OldCount(u, al)}

\* One changed segment stays itself when enough of its text does.
Resembles(before, after) ==
    CommonPoints(before, after) + CommonPoints(Reverse(before), Reverse(after)) >= 2
Revises(u, al) ==
    /\ OldCount(u, al) = 1 /\ NewCount(al) = 1
    /\ Resembles(u.segments[al.prefix + 1].text, al.parts[al.prefix + 1])

\* The changed part was displayed already and is over: it cannot be said again.
Ambiguous(u, affected) ==
    Told([u EXCEPT !.stopped = TRUE, !.gone = @ \cup affected], nextId, {}, affected, transcript)

\* There would be too many segments.  A final text that finds nothing displayed
\* and over starts anew, with as much of its end as there is room for.
Anew(u, text, fresh) ==
    Told([u EXCEPT !.stopped = TRUE, !.segments = fresh, !.tombstones = 0],
         nextId + Len(fresh), Range(fresh), IdsOf(u.segments), text)
Fresh(parts) == [i \in DOMAIN parts |-> NewSegment(nextId + i, parts[i], TRUE, i, {})]
TailOf(parts) == SubSeq(parts, Max({1, Len(parts) - MaxSegments + 1}), Len(parts))
Limited(u, text, final) ==
    IF ~final \/ u.gone # {}
    THEN Unchanged([u EXCEPT !.stopped = TRUE])
    ELSE Anew(u, text, Fresh(TailOf(Split(text))))

\* Matching segments stay, a single changed one is revised, the others of the
\* changed part are replaced by new ones.
Keeps(al, revision, i) == i <= al.prefix \/ i > Len(al.parts) - al.suffix \/ revision
OldAt(u, al, i) ==
    IF i > Len(al.parts) - al.suffix THEN u.segments[Len(u.segments) - Len(al.parts) + i]
    ELSE u.segments[i]
\* bug: a changed text keeps the revision (ImplementsFeed).
RevisedSilently(s, text, final, order) ==
    [s EXCEPT !.text = text, !.final = final, !.order = order]
Revised(s, text, final, order) ==
    [s EXCEPT !.text = text, !.rev = IF s.text = text THEN @ ELSE @ + 1,
              !.final = final, !.order = order]
Becomes(u, final, al, revision, replaced, i) ==
    IF Keeps(al, revision, i)
    THEN Revised(OldAt(u, al, i), al.parts[i], final, i)
    ELSE NewSegment(nextId + i - al.prefix, al.parts[i], final, i, replaced)
\* bug: the caller does not hear that a segment moved or is final (ConsumerAgrees).
ChangedText(u, al, revision, next) ==
    {i \in DOMAIN next : ~Keeps(al, revision, i) \/ next[i].text # OldAt(u, al, i).text}
Changed(u, al, revision, next) ==
    {i \in DOMAIN next : ~Keeps(al, revision, i) \/ next[i] # OldAt(u, al, i)}
AlignedAs(u, text, final, al, revision, replaced, next) ==
    Told([u EXCEPT !.segments = next,
                   !.tombstones = IF final THEN 0 ELSE @ + Cardinality(replaced)],
         IF revision THEN nextId ELSE nextId + NewCount(al),
         {next[i] : i \in Changed(u, al, revision, next)},
         replaced, text)
Aligned(u, text, final, al, revision, replaced) ==
    AlignedAs(u, text, final, al, revision, replaced,
        [i \in DOMAIN al.parts |-> Becomes(u, final, al, revision, replaced, i)])

\* bug: the replaced segments do not count (TypeOK).
ReconciledBeyond(u, text, final, al, revision, affected) ==
    IF affected \cap u.gone # {} THEN Ambiguous(u, affected)
    ELSE IF Len(u.segments) + (IF revision THEN 0 ELSE NewCount(al)) > MaxSegments
    THEN Limited(u, text, final)
    ELSE Aligned(u, text, final, al, revision, IF revision THEN {} ELSE affected)
\* bug: what is over is replaced like anything else (NothingSaidTwice).
ReconciledAgain(u, text, final, al, revision, affected) ==
    IF Managed(u) + (IF revision THEN 0 ELSE NewCount(al)) > MaxSegments
    THEN Limited(u, text, final)
    ELSE Aligned(u, text, final, al, revision, IF revision THEN {} ELSE affected)

\* reconcile
ReconciledAs(u, text, final, al, revision, affected) ==
    IF affected \cap u.gone # {} THEN Ambiguous(u, affected)
    ELSE IF Managed(u) + (IF revision THEN 0 ELSE NewCount(al)) > MaxSegments
    THEN Limited(u, text, final)
    ELSE Aligned(u, text, final, al, revision, IF revision THEN {} ELSE affected)
ReconciledOn(u, text, final, al) ==
    ReconciledAs(u, text, final, al, Revises(u, al), Affected(u, al))
Reconciled(u, text, final) == ReconciledOn(u, text, final, Alignment(u, text))

\* What of the current text may be cut: what is in every snapshot and old enough,
\* without its last word, or its last code points, unless it ends a sentence.
CommonEnd(u) == Len(LongestCommonPrefix(Range(u.snapshots)))
Aged(u, common) == Max({n \in 0..common : \A i \in 1..n : u.ages[i] >= StableAge})
HeldBack(end, word) == IF word > 0 THEN word ELSE Max({0, end - HoldBack})
WholeWords(text, end) ==
    IF end = 0 \/ Sentence(text, end) THEN end
    ELSE TrimTo(text, HeldBack(end, Max({0} \cup {i \in 1..end : Space(text[i])})))
StableEnd(u, text) == WholeWords(text, TrimTo(text, Aged(u, CommonEnd(u))))

\* evaluate: the end of a sentence is cut at once, anything else when it is long
\* enough or has been open for long.
AgeAt(u, i) == IF i \in DOMAIN u.ages THEN u.ages[i] ELSE 0
Ripe(u, terminal, end, match) ==
    LET width == IF match.count = Len(u.segments) THEN end - match.tail + 1 ELSE end
    IN  /\ width > 0
        /\ \/ terminal
           \/ width >= Target
           \/ width >= MinWidth /\ AgeAt(u, match.tail) >= OpenAge
CutUpTo(u, text, end) ==
    IF end > 0 /\ Ripe(u, Sentence(text, end), end, MatchPrefix(SubSeq(text, 1, end), u.segments))
    THEN Reconciled(u, SubSeq(text, 1, end), FALSE)
    ELSE Unchanged(u)
EvaluatedAt(u, text) == CutUpTo(u, text, StableEnd(u, text))
Evaluated(u) ==
    IF incremental /\ ~u.stopped /\ ~u.closed /\ Len(u.snapshots) >= MaxSnapshots
    THEN EvaluatedAt(u, Last(u.snapshots))
    ELSE Unchanged(u)

-----------------------------------------------------------------------------
(* The member functions.                                                   *)

Init ==
    /\ texts \in Vocabularies
    /\ utt = NoUtterance /\ incremental = TRUE /\ nextId = 0
    /\ taken = <<>> /\ transcript = <<>> /\ recent = {}

\* The caller forgets what is retired and takes over what it has not retired itself:
\* base is what it had of this utterance.
Takes(base, r) ==
    LET staying == DOMAIN base \ r.retired
        news == {s \in r.upserts : s.id \in staying \/ s.id > nextId}
    IN  [id \in staying \cup {s.id : s \in news} |->
            IF \E s \in news : s.id = id THEN CHOOSE s \in news : s.id = id ELSE base[id]]

Returns(base, r) ==
    /\ r.nextId <= MaxId
    /\ utt' = r.utt /\ nextId' = r.nextId /\ transcript' = r.text
    /\ taken' = Takes(base, r)
    /\ UNCHANGED << texts, incremental >>

OfUtterance == IF utt.open /\ ~utt.closed THEN taken ELSE <<>>
Heard(now) == recent' = now \cup (IF utt.open /\ ~utt.closed THEN recent ELSE {})

\* interim, of a text that is too long: nothing more is cut of this utterance.
InterimTooLong(text) ==
    /\ text \in texts /\ Len(text) > MaxSource
    /\ Returns(OfUtterance, Unchanged([Opened EXCEPT !.stopped = TRUE, !.snapshots = <<>>, !.ages = <<>>]))
    /\ Heard({Normalized(text)})

TellsMore(u, now) ==
    /\ now # <<>> /\ ~u.stopped
    /\ u.snapshots # <<>> => Last(u.snapshots) # now

\* interim, of a text that tells nothing new.
InterimIgnored(text) ==
    \E now \in {Normalized(text)} :
        /\ text \in texts /\ Len(text) <= MaxSource /\ ~TellsMore(Opened, now)
        /\ Returns(OfUtterance, Unchanged(Opened))
        /\ Heard({now} \ {<<>>})

\* interim: a code point is as old as the text up to it.
CommonWithLast(u, now) == IF u.snapshots = <<>> THEN 0 ELSE CommonPoints(Last(u.snapshots), now)
\* bug: what comes behind a change keeps its age (OnlyStableTextCut).
AgingOn(u, now, same) == [i \in DOMAIN now |-> IF i \in DOMAIN u.ages THEN u.ages[i] ELSE 0]
Aging(u, now, same) == [i \in DOMAIN now |-> IF i <= same THEN u.ages[i] ELSE 0]
LastShots(shots) == IF Len(shots) > MaxSnapshots THEN Tail(shots) ELSE shots
Hears(u, now) ==
    [u EXCEPT !.snapshots = LastShots(Append(@, now)),
              !.ages = Aging(u, now, CommonWithLast(u, now))]
Interim(text) ==
    \E now \in {Normalized(text)} :
        /\ text \in texts /\ Len(text) <= MaxSource /\ TellsMore(Opened, now)
        /\ Returns(OfUtterance, Evaluated(Hears(Opened, now)))
        /\ Heard({now})

\* tick
Tick ==
    /\ Returns(taken, Evaluated(utt))
    /\ UNCHANGED recent

\* final
Closed(r) == [r EXCEPT !.utt.closed = TRUE, !.utt.snapshots = <<>>, !.utt.ages = <<>>]
FinalText(text) == IF Len(text) > MaxSource THEN BoundedTail(text) ELSE Normalized(text)
Final(text) ==
    /\ text \in texts
    /\ Returns(OfUtterance, Closed(Reconciled(Opened, FinalText(text), TRUE)))
    /\ recent' = {}

\* set_display_state: the caller has retired a segment.  What it says of the
\* segments it shows makes no difference here.
Retire(id) ==
    /\ id \in IdsOf(utt.segments) \ utt.gone
    /\ utt' = [utt EXCEPT !.gone = @ \cup {id}]
    /\ taken' = [other \in DOMAIN taken \ {id} |-> taken[other]]
    /\ UNCHANGED << texts, incremental, nextId, transcript, recent >>

\* set_incremental
SetIncremental(enabled) ==
    /\ incremental' = enabled
    /\ UNCHANGED << texts, utt, nextId, taken, transcript, recent >>

\* reset
Reset ==
    /\ utt' = NoUtterance /\ taken' = <<>> /\ transcript' = <<>> /\ recent' = {}
    /\ UNCHANGED << texts, incremental, nextId >>

\* A clock tick goes by.  Of the texts heard so far only the current one was still
\* current during the tick.
Pass ==
    /\ \E i \in DOMAIN utt.ages : utt.ages[i] < OpenAge
    /\ utt' = [utt EXCEPT !.ages = [i \in DOMAIN @ |-> Min({@[i] + 1, OpenAge})]]
    /\ recent' = {Last(utt.snapshots)}
    /\ UNCHANGED << texts, incremental, nextId, taken, transcript >>

Next ==
    \/ \E text \in UNION Vocabularies :
        InterimTooLong(text) \/ InterimIgnored(text) \/ Interim(text) \/ Final(text)
    \/ Tick
    \/ \E id \in 1..MaxId : Retire(id)
    \/ \E enabled \in BOOLEAN : SetIncremental(enabled)
    \/ Reset
    \/ Pass

Spec == Init /\ [][Next]_vars

-----------------------------------------------------------------------------
(* Properties.                                                             *)

Unspaced(c) == IF Space(c) THEN <<>> ELSE << c >>
Content(text) == FlattenSeq([i \in DOMAIN text |-> Unspaced(text[i])])
Joined(segs) == FlattenSeq([i \in DOMAIN segs |-> Content(segs[i].text)])

\* The segments are numbered through, have different ids, none of them empty or wider
\* than the limit; with the replaced ones they are at most as many as there is room
\* for; and every code point of the current text has an age.
TypeOK ==
    /\ incremental \in BOOLEAN /\ nextId \in 0..MaxId
    /\ utt.open \in BOOLEAN /\ utt.closed \in BOOLEAN /\ utt.stopped \in BOOLEAN
    /\ Managed(utt) <= MaxSegments
    /\ utt.gone \subseteq IdsOf(utt.segments)
    /\ \A i, j \in DOMAIN utt.segments :
        i < j => utt.segments[i].id # utt.segments[j].id
    /\ \A i \in DOMAIN utt.segments :
        LET s == utt.segments[i]
        IN  s.order = i /\ s.id \in 1..nextId /\ Len(s.text) \in 1..MaxWidth
    /\ Len(utt.snapshots) <= MaxSnapshots
    /\ Len(utt.ages) = IF utt.snapshots = <<>> THEN 0 ELSE Len(Last(utt.snapshots))

\* The caller, who only sees what the calls return, has the segments as they are:
\* the current text and revision, the place and whether it is final.
ConsumerAgrees ==
    /\ DOMAIN taken = IdsOf(utt.segments) \ utt.gone
    /\ \A s \in Range(utt.segments) : s.id \in DOMAIN taken => taken[s.id] = s

\* The segments hold the whole text they were cut from, in order and once, spaces
\* aside; only when the segment limit is reached the beginning is lost.
TranscriptKept ==
    /\ IsSuffix(Joined(utt.segments), Content(transcript))
    /\ Managed(utt) < MaxSegments => Joined(utt.segments) = Content(transcript)

\* What was displayed and is over stays as it is until the utterance is: no later
\* guess takes it back or says it again under another id.
NothingSaidTwice ==
    [][\A s \in Range(utt.segments) :
        s.id \in utt.gone =>
            \/ utt'.segments = <<>> \/ utt.closed
            \/ \E t \in Range(utt'.segments) : t.id = s.id /\ t.text = s.text]_vars

\* Before the final text a segment is only cut from what every text said that was
\* current within the last StableAge, and every snapshot.
OnlyStableTextCut ==
    [][\A t \in Range(utt'.segments) :
        ~t.final /\ t \notin Range(utt.segments) =>
            \A text \in recent' \cup Range(utt'.snapshots) :
                IsPrefix(Joined(SubSeq(utt'.segments, 1, t.order)), Content(text))]_vars

\* The segmenter is a caption feed.
Feed == INSTANCE CaptionFeed WITH shown <- taken, issued <- nextId
ImplementsFeed == Feed!Spec
=============================================================================
