-------------------------------- MODULE ScriptApi --------------------------------
(***************************************************************************)
(* The calls of the script API that compute: MakeDifference,               *)
(* MakeIntersection and MakeUnion of handle lists (script_interface_impl), *)
(* and EstimateLineWrap (helpers).  A handle is a pointer, so a number; a  *)
(* text is a sequence of characters, of which only their kinds and widths  *)
(* matter.  One turn of a loop, and one line of the wrap, is one step.     *)
(***************************************************************************)
EXTENDS Integers, FiniteSets, SequencesExt

CONSTANTS
    Alnum, Punct, Blank, \* kinds of characters: iswalnum, iswpunct, iswspace
    LineFeed, Return, EndOfString,
    Width,               \* of each character, in pixels
    Calls                \* the calls a script makes

ListCall == {"MakeDifference", "MakeIntersection", "MakeUnion"}

ASSUME ApiAssumption ==
    /\ Alnum \cap Punct = {} /\ Blank \cap (Alnum \cup Punct) = {} /\ LineFeed # Return
    /\ \A c \in DOMAIN Width : Width[c] \in Nat \ {0}
    /\ \A c \in Calls :
           \/ c \in [op : ListCall, one : Seq(Int), two : Seq(Int)]
           \/ c \in [op : {"EstimateLineWrap"}, text : Seq(DOMAIN Width), width : Nat]

VARIABLES
    call,         \* the call, with its arguments
    walk1, walk2, \* positions in the two lists; walk1 is text's in the wrap
    result,       \* handles, or items of text: where it begins, its length and its width
    returned

apiVars == <<call, walk1, walk2, result, returned>>

ApiInit ==
    /\ call \in Calls
    /\ walk1 = 1 /\ walk2 = 1 /\ result = <<>>
    /\ returned = FALSE

-----------------------------------------------------------------------------
(* Handle lists: call.one is m_handles, call.two the argument *)

\* Of MakeDifference, and of MakeIntersection.
Takes(a, b) == IF call.op = "MakeDifference" THEN a < b ELSE a = b

Walking == walk1 <= Len(call.one) /\ walk2 <= Len(call.two)

WalkLists ==
    /\ call.op \in {"MakeDifference", "MakeIntersection"} /\ ~returned
    /\ Walking
    /\ LET a == call.one[walk1]
           b == call.two[walk2]
       IN  /\ walk1' = IF a <= b THEN walk1 + 1 ELSE walk1
           /\ walk2' = IF b <= a THEN walk2 + 1 ELSE walk2
           /\ result' = IF Takes(a, b) THEN Append(result, a) ELSE result
    /\ UNCHANGED <<call, returned>>

\* The loop ends with the first list that does: what is left of m_handles is dropped.
ListsEnd ==
    /\ call.op \in {"MakeDifference", "MakeIntersection"} /\ ~returned
    /\ ~Walking
    /\ returned' = TRUE
    /\ UNCHANGED <<call, walk1, walk2, result>>

Increasing(list) == \A i, j \in DOMAIN list : i < j => list[i] < list[j]

\* sort_by_pointer_remove_duplicates
Sorted(handles) == CHOOSE list \in [1 .. Cardinality(handles) -> handles] : Increasing(list)

MakeUnion ==
    /\ call.op = "MakeUnion" /\ ~returned
    /\ result' = Sorted(ToSet(call.one) \cup ToSet(call.two))
    /\ returned' = TRUE
    /\ UNCHANGED <<call, walk1, walk2>>

-----------------------------------------------------------------------------
(* Wrapping text *)

\* wcschr: the next line feed from i on, or the place behind the text.
LineFeedFrom(i) ==
    CHOOSE j \in i .. Len(call.text) + 1 :
        /\ j = Len(call.text) + 1 \/ call.text[j] = LineFeed
        /\ \A n \in i .. j - 1 : call.text[n] # LineFeed

\* Where the line ends that i is in: before the returns before its line feed.
EndOfLine(i) ==
    LET feed == LineFeedFrom(i)
    IN  IF feed > Len(call.text) THEN feed
        ELSE CHOOSE j \in i .. feed :
                 /\ \A n \in j .. feed - 1 : call.text[n] = Return
                 /\ j > i => call.text[j - 1] # Return

\* The width of the first n characters of the text.
WidthOf ==
    LET width[n \in 0 .. Len(call.text)] ==
            IF n = 0 THEN 0 ELSE width[n - 1] + Width[call.text[n]]
    IN  width

\* get_text_width of n characters from i on.
TextWidth(i, n) == WidthOf[i + n - 1] - WidthOf[i - 1]

IsWrapChar(current, next) ==
    /\ current \notin Punct
    /\ \/ next = EndOfString \/ current \in Blank
       \/ ~(current \in Alnum /\ next \in Punct) /\ (current \notin Alnum \/ next \notin Alnum)

\* The text may be broken n characters behind i.
Breaks(i, n) == IsWrapChar(call.text[i + n - 1], call.text[i + n])

\* In proportion to the width of the len characters from i on.
Estimate(i, len) == (len * call.width) \div TextWidth(i, len)

\* Mutant: the estimate is taken as it is.
EstimateOnly(i, len) == Estimate(i, len)

\* From the estimate up or down to what the width holds.
Fitting(i, len) ==
    IF TextWidth(i, Estimate(i, len)) < call.width
    THEN CHOOSE n \in Estimate(i, len) .. len - 1 :
             /\ TextWidth(i, n + 1) > call.width
             /\ \A k \in Estimate(i, len) + 1 .. n : TextWidth(i, k) <= call.width
    ELSE CHOOSE n \in 0 .. Estimate(i, len) :
             /\ TextWidth(i, n) <= call.width \/ n <= 1
             /\ \A k \in n + 1 .. Estimate(i, len) : TextWidth(i, k) > call.width /\ k > 1

\* Back to the last place to wrap, or to none.
LastWrap(i, n) ==
    CHOOSE k \in 0 .. n : (k = 0 \/ Breaks(i, k)) /\ \A m \in k + 1 .. n : ~Breaks(i, m)

\* estimate_line_wrap_recur: how much of the len characters becomes their first item.
ItemLength(i, len) ==
    IF TextWidth(i, len) <= call.width \/ len <= 1 THEN len
    ELSE IF LastWrap(i, Fitting(i, len)) > 0 THEN LastWrap(i, Fitting(i, len))
    ELSE IF Fitting(i, len) > 1 THEN Fitting(i, len) ELSE 1

\* One item, then the rest of the line, or the line after it, or the end.
WrapLine ==
    /\ call.op = "EstimateLineWrap" /\ ~returned
    /\ LET len  == EndOfLine(walk1) - walk1
           n    == ItemLength(walk1, len)
           feed == LineFeedFrom(walk1)
       IN  /\ result' = Append(result, [from |-> walk1, length |-> n, width |-> TextWidth(walk1, n)])
           /\ walk1' = IF n < len THEN walk1 + n ELSE feed + 1
           /\ returned' = (n = len /\ feed > Len(call.text))
    /\ UNCHANGED <<call, walk2>>

ApiNext == WalkLists \/ ListsEnd \/ MakeUnion \/ WrapLine

ApiSpec == ApiInit /\ [][ApiNext]_apiVars

-----------------------------------------------------------------------------
(* What the calls mean *)

\* What docs/Interfaces.txt says that the list has afterwards.
MeantSet ==
    CASE call.op = "MakeUnion" -> ToSet(call.one) \cup ToSet(call.two)
      [] call.op = "MakeIntersection" -> ToSet(call.one) \cap ToSet(call.two)
      [] call.op = "MakeDifference" -> ToSet(call.one) \ ToSet(call.two)

Lost == MeantSet \ ToSet(result)

\* As docs/Interfaces.txt asks for MakeDifference and MakeIntersection.
AreSorted == Increasing(call.one) /\ Increasing(call.two)

SetsAreMeant ==
    call.op = "MakeUnion" \/ AreSorted =>
        /\ Increasing(result) /\ ToSet(result) \subseteq MeantSet
        /\ returned =>
               \/ Lost = {}
               \/ call.op = "MakeDifference" /\ \A a \in Lost, b \in ToSet(call.two) : b < a

\* From i on there are only returns up to a line feed, or nothing.
LineEnds(i) ==
    \/ i = Len(call.text) + 1
    \/ \E feed \in i .. Len(call.text) :
           call.text[feed] = LineFeed /\ \A n \in i .. feed - 1 : call.text[n] = Return

IsLineEnd(i, end) == LineEnds(end) /\ \A n \in i .. end - 1 : ~LineEnds(n)

\* An item takes the rest of its line if that fits, and else as much as fits up to the last
\* place to wrap, or up to any if there is none, or one character.
LengthIsMeant(item) ==
    \E rest \in 0 .. Len(call.text) :
        /\ IsLineEnd(item.from, item.from + rest)
        /\ LET fit    == {n \in 1 .. rest : TextWidth(item.from, n) <= call.width}
               places == {n \in fit \ {rest} : Breaks(item.from, n)}
               Longest(lengths) == item.length \in lengths /\ \A n \in lengths : n <= item.length
           IN  IF rest = 0 \/ rest \in fit THEN item.length = rest
               ELSE IF places # {} THEN Longest(places)
               ELSE IF fit # {} THEN Longest(fit) ELSE item.length = 1

EndOf(item) == item.from + item.length

\* Text that follows that up to end begins there, or behind the end of the line.
GoesOn(end, from) ==
    IF LineEnds(end)
    THEN from > end /\ call.text[from - 1] = LineFeed /\ \A n \in end .. from - 2 : call.text[n] = Return
    ELSE from = end

WrapIsMeant ==
    /\ \A k \in 1 .. Len(result) :
           /\ IF k = 1 THEN result[k].from = 1 ELSE GoesOn(EndOf(result[k - 1]), result[k].from)
           /\ LengthIsMeant(result[k])
           /\ result[k].width = TextWidth(result[k].from, result[k].length)
    /\ returned => result # <<>> /\ EndOf(result[Len(result)]) = Len(call.text) + 1

\* Of lists that Sort() made, the intersection is complete, and the difference has nothing
\* but handles that are in the first list only; what it loses of those (see
\* DifferenceIsComplete) lies above all of the second list.  The union is complete and
\* sorted whatever the lists are (FbMetadbHandleList).  A wrapped text is all there, line by
\* line, but for its line ends; every item is as long as its width allows, ends where the
\* text may be broken if it can, and has a character at least unless its line is empty
\* (estimate_line_wrap).
ResultsAreMeant == IF call.op = "EstimateLineWrap" THEN WrapIsMeant ELSE SetsAreMeant

\* After MakeDifference of sorted lists the first list has all handles that were unique to
\* it, as docs/Interfaces.txt:1728 says.
DifferenceIsComplete ==
    returned /\ call.op = "MakeDifference" /\ AreSorted =>
        ToSet(result) = ToSet(call.one) \ ToSet(call.two)
=============================================================================
