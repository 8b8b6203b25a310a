---------------------------- MODULE SnapshotReads ----------------------------
(* Reads of line ranges from a snapshot's files: readBoundedLines serves   *)
(* one range, readBoundedRanges several in one pass over the file. Both    *)
(* keep complete lines within a byte limit. A file is the sequence of its  *)
(* lines' lengths; what is read is the interval of lines kept.             *)
EXTENDS Integers, Sequences, SequencesExt

Read(from, to, truncated) == [error |-> "none", from |-> from, to |-> to, truncated |-> truncated]
ReadError(e) == [error |-> e, from |-> 1, to |-> 0, truncated |-> FALSE]

(* A separator goes before every line but the first one kept.              *)
Fits(limit, used, kept, len) == limit = 0 \/ used + (IF kept THEN 1 ELSE 0) + len <= limit

(* One pass over the lines: the last one kept, their bytes, and whether a  *)
(* selected line did not fit, after which none is kept.                    *)
readBoundedLines(file, start, end, limit) ==
  FoldLeft(
    LAMBDA acc, n :
      IF n < start \/ (end > 0 /\ n > end) \/ acc.truncated THEN acc
      ELSE IF ~Fits(limit, acc.used, acc.last >= start, file[n]) THEN [acc EXCEPT !.truncated = TRUE]
      ELSE [acc EXCEPT !.last = n, !.used = @ + file[n] + (IF acc.last >= start THEN 1 ELSE 0)],
    [last |-> start - 1, used |-> 0, truncated |-> FALSE],
    [n \in 1..Len(file) |-> n])

(* An end of 0 is the end of the file, a limit of 0 none.                  *)
readFileRange(file, start, end, limit) ==
  LET first == IF start <= 0 THEN 1 ELSE start
      r == readBoundedLines(file, first, end, limit)
  IN IF (end > 0 /\ first > end) \/ first > Len(file) THEN ReadError("badRange")
     ELSE IF r.truncated /\ r.last < first THEN ReadError("lineTooLong")
     ELSE Read(first, r.last, r.truncated)

-----------------------------------------------------------------------------
(* readBoundedRanges: the state of one range and what a line does to it.   *)
NotStarted == [last |-> 0, used |-> 0, kept |-> FALSE, done |-> FALSE, tooLong |-> FALSE]

Active(r, state, n) == ~state.done /\ r.start <= n /\ n <= r.end

(* Mutant of Retain: the separator is not counted.                         *)
Retain_NoSeparator(r, state, n, len, limit) ==
  IF ~Active(r, state, n) THEN state
  ELSE IF ~Fits(limit, state.used, FALSE, len)
       THEN [state EXCEPT !.done = TRUE, !.tooLong = (state.used = 0)]
  ELSE [state EXCEPT !.last = n, !.kept = TRUE, !.used = @ + len, !.done = (r.end <= n)]
Retain(r, state, n, len, limit) ==
  IF ~Active(r, state, n) THEN state
  ELSE IF ~Fits(limit, state.used, state.kept, len)
       THEN [state EXCEPT !.done = TRUE, !.tooLong = (state.used = 0)]
  ELSE [state EXCEPT !.last = n, !.kept = TRUE, !.done = (r.end <= n),
                     !.used = @ + len + (IF state.kept THEN 1 ELSE 0)]

(* The pass ends with the file or when every range is complete.            *)
ScanOver(file, states, n) == n > Len(file) \/ \A i \in DOMAIN states : states[i].done

(* What the pass read for a range; one that begins past the end is an error.*)
RangeResult(file, r, state) ==
  IF r.start > Len(file) THEN ReadError("badRange")
  ELSE IF state.tooLong THEN ReadError("lineTooLong")
  ELSE Read(r.start, state.last, FALSE)

-----------------------------------------------------------------------------
(* The text of an interval: one empty line reads like none.                *)
Text(file, from, to) ==
  IF to = from /\ file[from] = 0 THEN <<>> ELSE SubSeq(file, from, to)

(* What a bounded read promises: the longest run of complete lines from    *)
(* the first one on that fits.                                             *)
Size(file, from, to) == FoldLeft(LAMBDA a, b : a + b, to - from, SubSeq(file, from, to))
LastFitting(file, from, to, limit) ==
  LET fitting == {n \in from..Len(file) : n <= to /\ Size(file, from, n) <= limit}
  IN IF fitting = {} THEN from - 1 ELSE CHOOSE n \in fitting : \A k \in fitting : k <= n

=============================================================================
