----------------------------- MODULE CsvColumns -----------------------------
(***************************************************************************)
(* Which column of a recording is its signal. The server, for an uploaded  *)
(* file, and the edge node, for a file it replays, answer this with an     *)
(* algorithm of their own each.                                            *)
(*                                                                         *)
(* A file is a sequence of rows of cells. Of a cell we keep its name (the  *)
(* stripped text), the fold of the name (lower case letters and digits),   *)
(* whether it is a finite number, and the number it is as an index (-1 if  *)
(* it is no integer). Encodings, delimiters and the length of a cell, both *)
(* sides treat alike and are left out.                                     *)
(***************************************************************************)
EXTENDS Integers, Sequences, FiniteSets

\* Limits both sides have.
MaxRows == 1000000
MaxColumns == 256

\* The fewest numbers the server analyses.
MinSamples == 64

\* The folded names taken for a signal when none is asked for, best first.
Preferred ==
  <<<<"accelerationx">>, <<"acceleration">>, <<"vibration">>, <<"signal">>, <<"amplitude">>,
    <<"sensorvalue">>, <<"value">>, <<"ch1">>>>

Blank(cell) == cell.name = <<>>

\* Rows without any text do not count.
Told(row) == \E i \in DOMAIN row : ~Blank(row[i])

Rows(file) == SelectSeq(file, Told)

\* The first row is a header unless all of its cells are numbers.
HasHeader(rows) == \E i \in DOMAIN rows[1] : ~rows[1][i].number

\* The name of a column without one.
Unnamed(i) == [name |-> <<"column", i - 1>>, fold |-> <<"column", i - 1>>]

Headers(rows) ==
  [i \in DOMAIN rows[1] |->
     IF HasHeader(rows) /\ ~Blank(rows[1][i])
     THEN [name |-> rows[1][i].name, fold |-> rows[1][i].fold]
     ELSE Unnamed(i)]

Data(rows) == IF HasHeader(rows) THEN Tail(rows) ELSE rows

\* The rows with a number in a column; rows may be shorter than the header.
Numbers(rows, column) ==
  {k \in DOMAIN Data(rows) : column \in DOMAIN Data(rows)[k] /\ Data(rows)[k][column].number}

Count(rows, column) == Cardinality(Numbers(rows, column))

\* A file neither side reads, whatever is asked for.
Unreadable(rows) ==
  \/ rows = <<>>
  \/ \E k \in DOMAIN rows : Len(rows[k]) > MaxColumns
  \/ Len(Data(rows)) > MaxRows

Leftmost(S) == CHOOSE i \in S : \A j \in S : i <= j

-----------------------------------------------------------------------------
(* A column that was asked for; 0 is none *)

Exact(headers, request) == {i \in DOMAIN headers : headers[i].name = request.name}

Folded(headers, request) == {i \in DOMAIN headers : headers[i].fold = request.fold}

Indexed(headers, request) == {i \in DOMAIN headers : i = request.index + 1}

\* The server prefers the position to a name that is only similar ...
ServerRequested(headers, request) ==
  CASE Exact(headers, request) # {}   -> Leftmost(Exact(headers, request))
    [] /\ Exact(headers, request) = {}
       /\ Indexed(headers, request) # {} -> request.index + 1
    [] /\ Exact(headers, request) = {}
       /\ Indexed(headers, request) = {}
       /\ Folded(headers, request) # {}  -> Leftmost(Folded(headers, request))
    [] OTHER -> 0

\* ... and the edge node the similar name to the position.
EdgeRequested(headers, request) ==
  CASE Exact(headers, request) # {}   -> Leftmost(Exact(headers, request))
    [] /\ Exact(headers, request) = {}
       /\ Folded(headers, request) # {}  -> Leftmost(Folded(headers, request))
    [] /\ Exact(headers, request) = {}
       /\ Folded(headers, request) = {}
       /\ Indexed(headers, request) # {} -> request.index + 1
    [] OTHER -> 0

\* A name that is similar to one column and the position of another.
Competing(headers, request) ==
  /\ Exact(headers, request) = {}
  /\ Folded(headers, request) # {}
  /\ Indexed(headers, request) # {}

-----------------------------------------------------------------------------
(* A column chosen for want of a request *)

Named(rows, fold) == {i \in DOMAIN rows[1] : Headers(rows)[i].fold = fold}

\* The preferred names whose first column has a number.
Usable(rows) ==
  {k \in DOMAIN Preferred :
     /\ Named(rows, Preferred[k]) # {}
     /\ Count(rows, Leftmost(Named(rows, Preferred[k]))) > 0}

\* The column with the most numbers, the last of several.
Fullest(rows) ==
  CHOOSE i \in DOMAIN rows[1] :
    \A j \in DOMAIN rows[1] :
      \/ Count(rows, j) < Count(rows, i)
      \/ Count(rows, j) = Count(rows, i) /\ j <= i

Automatic(rows) ==
  IF Usable(rows) # {}
  THEN Leftmost(Named(rows, Preferred[Leftmost(Usable(rows))]))
  ELSE IF \A i \in DOMAIN rows[1] : Count(rows, i) = 0 THEN 0 ELSE Fullest(rows)

-----------------------------------------------------------------------------
(* What each side reads: the rows of its samples, none if it refuses the file *)

\* A request without a name is no request.
ServerColumn(rows, request) ==
  IF Blank(request) THEN Automatic(rows) ELSE ServerRequested(Headers(rows), request)

EdgeColumn(rows, request) ==
  IF Blank(request) THEN Automatic(rows) ELSE EdgeRequested(Headers(rows), request)

\* The server refuses a header without data, and a signal of few samples.
ServerSamples(file, request) ==
  LET rows == Rows(file)
      column == ServerColumn(rows, request)
  IN  IF Unreadable(rows) \/ Data(rows) = <<>> \/ column = 0 THEN {}
      ELSE IF Count(rows, column) < MinSamples THEN {}
      ELSE Numbers(rows, column)

EdgeSamples(file, request) ==
  LET rows == Rows(file)
      column == EdgeColumn(rows, request)
  IN  IF Unreadable(rows) \/ column = 0 THEN {} ELSE Numbers(rows, column)

=============================================================================
