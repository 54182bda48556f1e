------------------------------ MODULE Compaction ------------------------------
(***************************************************************************)
(* The transcript of a long loop and its Compactor                         *)
(* (loopengine/compaction.py): turns are appended, and now and then        *)
(* maybe_compact folds the older ones into a pinned summary made by        *)
(* extractive_summary.                                                     *)
(*                                                                         *)
(* A message is a sequence of lines.  A line is salient (some decision of  *)
(* the set Line, which a marker word recognises) or "noise"; what it costs *)
(* is its length in characters.                                            *)
(***************************************************************************)
EXTENDS Naturals, Integers, SequencesExt

CONSTANTS
  Line,        \* salient lines that may be said
  Threshold,   \* threshold_tokens
  KeepRecent,  \* keep_recent
  MaxLines,    \* lines a summary may have, 60 in the code
  LineChars, NoiseChars, HeaderChars,  \* lengths of lines and of a header
  MaxTurns,    \* bound: turns of the transcript
  MaxCompactions  \* bound: calls of maybe_compact

ASSUME CompactorAssumption ==
  /\ Threshold \in Nat \ {0} /\ KeepRecent \in Nat /\ MaxLines \in Nat
  /\ LineChars \in Nat /\ NoiseChars \in Nat /\ HeaderChars \in Nat
  /\ MaxTurns \in Nat /\ MaxCompactions \in Nat
  /\ "noise" \notin Line /\ "header" \notin Line

VARIABLES
  msgs,      \* the transcript
  turns, compactions,
  (* history variables *)
  said,      \* salient lines said by anyone but a tool
  overflowed \* those a summary had no room for

transcript == <<msgs, turns, compactions, said, overflowed>>

-----------------------------------------------------------------------------
(* estimate_tokens and total_tokens.                                       *)

Chars(line) == CASE line = "noise" -> NoiseChars
                 [] line = "header" -> HeaderChars
                 [] OTHER -> LineChars

Tokens(m) == (FoldLeft(LAMBDA n, line : n + Chars(line), 0, m.lines) + 3) \div 4

TotalTokens(ms) == FoldLeft(LAMBDA n, m : n + Tokens(m), 0, ms)

-----------------------------------------------------------------------------
(* extractive_summary.                                                     *)

\* Mutant: the lines of the first message only.
SalientOfFirst(ms) ==
  IF Len(ms) = 0 THEN <<>> ELSE SelectSeq(ms[1].lines, LAMBDA line : line \in Line)

\* Recursive functions, of the lines and of the messages read so far, stand for
\* the two loops.
Reading(out, lines) ==
  LET read[n \in 0 .. Len(lines)] ==
        IF n = 0 THEN out
        ELSE IF lines[n] \in Line /\ lines[n] \notin ToSet(read[n - 1])
             THEN Append(read[n - 1], lines[n])
             ELSE read[n - 1]
  IN  read

\* Every salient line of messages no tool wrote, once, in order.
Scanning(ms) ==
  LET out[n \in 0 .. Len(ms)] ==
        IF n = 0 THEN <<>>
        ELSE IF ms[n].tool THEN out[n - 1]
             ELSE Reading(out[n - 1], ms[n].lines)[Len(ms[n].lines)]
  IN  out

Salient(ms) == Scanning(ms)[Len(ms)]

\* out[:60], or a line that says there was nothing
Extract(ms) ==
  IF Salient(ms) = <<>> THEN <<"noise">>
  ELSE SubSeq(Salient(ms), 1, IF Len(Salient(ms)) < MaxLines
                              THEN Len(Salient(ms)) ELSE MaxLines)

-----------------------------------------------------------------------------
(* maybe_compact.                                                          *)

\* The messages among the first n that are pinned, or are not.
Sifting(ms, pinned) ==
  LET out[n \in 0 .. Len(ms)] ==
        IF n = 0 THEN <<>>
        ELSE IF ms[n].pinned = pinned THEN Append(out[n - 1], ms[n])
             ELSE out[n - 1]
  IN  out

Pinned(ms) == Sifting(ms, TRUE)[Len(ms)]
Rest(ms) == Sifting(ms, FALSE)[Len(ms)]

\* Python's s[i:], where a negative i counts from the end
From(s, i) ==
  LET start == IF i >= 0 THEN i ELSE IF Len(s) + i > 0 THEN Len(s) + i ELSE 0
  IN  SubSeq(s, start + 1, Len(s))

Recent(ms) ==
  IF KeepRecent = 0 THEN <<>> ELSE From(Rest(ms), Len(Rest(ms)) - KeepRecent)

Older(ms) == SubSeq(Rest(ms), 1, Len(Rest(ms)) - Len(Recent(ms)))

\* Mutant: a summary whether or not anything is folded.
SummaryAlways(ms) ==
  <<[lines |-> <<"header">> \o Extract(Older(ms)), tool |-> FALSE, pinned |-> TRUE]>>

\* "[compacted: ...]" and the summary, as a pinned message
Summary(ms) ==
  IF Older(ms) = <<>> THEN <<>>
  ELSE <<[lines |-> <<"header">> \o Extract(Older(ms)), tool |-> FALSE, pinned |-> TRUE]>>

Compacted(ms) ==
  IF TotalTokens(ms) <= Threshold THEN ms
  ELSE Pinned(ms) \o Summary(ms) \o Recent(ms)

-----------------------------------------------------------------------------
TranscriptInit ==
  /\ msgs = <<>> /\ turns = 0 /\ compactions = 0
  /\ said = {} /\ overflowed = {}

\* A turn of a person, of the model or of a tool; the brief is pinned.
Turn ==
  {m \in [lines : {<<line>> : line \in Line \cup {"noise"}},
          tool : BOOLEAN, pinned : BOOLEAN] : ~(m.tool /\ m.pinned)}

Say(m) ==
  /\ turns < MaxTurns
  /\ turns' = turns + 1
  /\ msgs' = Append(msgs, m)
  /\ said' = IF m.tool THEN said ELSE said \cup (ToSet(m.lines) \cap Line)
  /\ UNCHANGED <<compactions, overflowed>>

Compact ==
  /\ compactions < MaxCompactions
  /\ compactions' = compactions + 1
  /\ msgs' = Compacted(msgs)
  /\ overflowed' =
       IF TotalTokens(msgs) <= Threshold THEN overflowed
       ELSE overflowed \cup ToSet(From(Salient(Older(msgs)), MaxLines))
  /\ UNCHANGED <<turns, said>>

Done == turns = MaxTurns /\ compactions = MaxCompactions /\ UNCHANGED transcript

TranscriptNext == (\E m \in Turn : Say(m)) \/ Compact \/ Done

TranscriptSpec == TranscriptInit /\ [][TranscriptNext]_transcript

-----------------------------------------------------------------------------
Message ==
  [lines : Seq(Line \cup {"noise", "header"}), tool : BOOLEAN, pinned : BOOLEAN]

TranscriptOK ==
  /\ msgs \in Seq(Message)
  /\ turns \in 0 .. MaxTurns /\ compactions \in 0 .. MaxCompactions
  /\ said \subseteq Line /\ overflowed \subseteq Line

\* "Preserving architectural decisions and unresolved bugs" (compaction.py):
\* however turns and compactions alternate, a salient line is still in some
\* message that later compactions keep, unless a summary was full when it came.
OnlyOverflowForgets ==
  said \subseteq overflowed \cup UNION {ToSet(msgs[i].lines) : i \in 1 .. Len(msgs)}

\* Compaction settles at once: it never makes the transcript longer, and doing
\* it again changes nothing, even when the transcript stays over the threshold.
\* A loop that compacts before every call is not stuck summarising summaries.
CompactionSettles ==
  /\ Len(Compacted(msgs)) <= Len(msgs)
  /\ Compacted(Compacted(msgs)) = Compacted(msgs)

\* What makes it inductive: a copy in a message of a tool is not enough, since
\* such messages are folded away with all they say.
Remembered ==
  \A line \in said \ overflowed :
    \E i \in 1 .. Len(msgs) : ~msgs[i].tool /\ line \in ToSet(msgs[i].lines)

-----------------------------------------------------------------------------
(* What the comments say and the code does not keep: see the README.       *)

\* "Preserving pinned messages and the recent tail verbatim", the tail being
\* "the most recent keep_recent" non-pinned messages (Compactor).
RecentTailVerbatim ==
  [][compactions' # compactions =>
       LET rest == Rest(msgs)
           n == IF Len(rest) < KeepRecent THEN Len(rest) ELSE KeepRecent
       IN  IsSuffix(SubSeq(rest, Len(rest) - n + 1, Len(rest)), Rest(msgs'))]_transcript

\* "A threshold the loop cannot exceed" (compaction.py).
ThresholdHolds ==
  [][compactions' # compactions => TotalTokens(msgs') <= Threshold]_transcript
=============================================================================
