------------------------------ MODULE SseReader ------------------------------
(***************************************************************************)
(* How prefillTrackingReadCloser (prefill_progress.go) cuts the bytes that *)
(* pass through it into server-sent events.  A stream is a sequence of     *)
(* characters; "data:" counts as one, any other text is "x".               *)
(***************************************************************************)
EXTENDS Selection

CR == "cr"
LF == "lf"
Blank == " "
Data == "data:"

NewReader == [line |-> <<>>,    \* lineBuf
              data |-> <<>>,    \* eventDataBuf
              events |-> <<>>]  \* what finalizeEvent has handled, joined lines

TrimSuffix(s, c) == IF s # <<>> /\ Last(s) = c THEN Front(s) ELSE s
TrimPrefix(s, c) == IF s # <<>> /\ Head(s) = c THEN Tail(s) ELSE s

\* strings.Join(eventDataBuf, "\n")
JoinedLines(lines) ==
  IF lines = <<>> THEN <<>>
  ELSE Tail(FlattenSeq([i \in 1..Len(lines) |-> <<LF>> \o lines[i]]))

\* What a data line says.
Payload(line) == IF line = <<>> THEN <<>> ELSE TrimPrefix(Tail(line), Blank)

\* handleLine and finalizeEvent.
HandleLine(t, line) ==
  CASE line = <<>> /\ t.data = <<>> -> t
    [] line = <<>> /\ t.data # <<>> ->
         [t EXCEPT !.events = Append(@, JoinedLines(t.data)), !.data = <<>>]
    [] line # <<>> /\ Head(line) = Data ->
         [t EXCEPT !.data = Append(@, Payload(line))]
    [] OTHER -> t

\* The body of feed's loop: a line is taken off the buffer, if it has one.
TakeLine(t) ==
  LET nl == SelectInSeq(t.line, LAMBDA c : c = LF) IN
  IF nl = 0 THEN t
  ELSE HandleLine([t EXCEPT !.line = SubSeq(t.line, nl + 1, Len(t.line))],
                  TrimSuffix(SubSeq(t.line, 1, nl - 1), CR))

\* The loop, which runs until it finds no line, at most once per character.
TakeLines(t) ==
  LET after[n \in Nat] == IF n = 0 THEN t ELSE TakeLine(after[n - 1])
  IN after[Len(t.line)]

\* Mutant: what is left of a line at the end of a chunk is taken for a line.
MutantFeed(t, chunk) ==
  LET u == TakeLines([t EXCEPT !.line = t.line \o chunk])
  IN IF u.line = <<>> THEN u ELSE HandleLine([u EXCEPT !.line = <<>>], u.line)

\* feed: the lines that are complete are handled, the rest is kept.
Feed(t, chunk) == TakeLines([t EXCEPT !.line = t.line \o chunk])

\* Read, chunk by chunk.  At EOF the buffers are forgotten.
EventsRead(chunks) ==
  LET after[n \in 0..Len(chunks)] ==
        IF n = 0 THEN NewReader ELSE Feed(after[n - 1], chunks[n])
  IN after[Len(chunks)].events

-----------------------------------------------------------------------------
(***************************************************************************)
(* Reference: lines end with LF or CR LF; the data lines between two empty *)
(* lines, if there are any, are an event.                                  *)
(***************************************************************************)
LineEnds(s) == {n \in 1..Len(s) : s[n] = LF}

Line(s, n) ==
  LET before == LineEnds(s) \intersect 1..(n - 1)
      start == IF before = {} THEN 1 ELSE Max(before) + 1
  IN TrimSuffix(SubSeq(s, start, n - 1), CR)

Lines(s) == Picked([n \in 1..Len(s) |-> Line(s, n)], LineEnds(s))

\* The data lines of ls before line n, since the empty line before.
DataBefore(ls, n) ==
  LET empty == {m \in 1..(n - 1) : ls[m] = <<>>}
      start == IF empty = {} THEN 1 ELSE Max(empty) + 1
      data == {m \in start..(n - 1) : ls[m] # <<>> /\ Head(ls[m]) = Data}
  IN Picked([m \in 1..Len(ls) |-> Payload(ls[m])], data)

EventsOf(s) ==
  LET ls == Lines(s)
      ends == {n \in 1..Len(ls) : ls[n] = <<>> /\ DataBefore(ls, n) # <<>>}
  IN Picked([n \in 1..Len(ls) |-> JoinedLines(DataBefore(ls, n))], ends)
=============================================================================
