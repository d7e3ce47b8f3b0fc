------------------------------ MODULE Preprocessor ------------------------------
(***************************************************************************)
(* The preprocessor of scripts (src/src/script_preprocessor.cpp): from the *)
(* comment block between ==PREPROCESSOR== and ==/PREPROCESSOR== it takes   *)
(* the directives, one line at a time; the host reads the script's names   *)
(* and features from them and has the imported scripts read in.            *)
(*                                                                         *)
(* A script is a sequence of tokens: the two markers, the end of a line,   *)
(* "//", "@" with the word that follows it, and characters.  A line, a     *)
(* character of a value and a character of a path are one step each.       *)
(***************************************************************************)
EXTENDS Integers, FiniteSets, SequencesExt

CONSTANTS
    Begin, End, Newline, Slashes, Quote, Percent, EndOfText,
    Space,        \* a space or a tab
    Apostrophe,
    Directive,    \* tokens "@word"
    ImportWord,   \* the one of them that names a script to import
    FeatureWord,  \* the one whose values add up
    Named,        \* those whose last value counts: name, version, author
    Variable,     \* the name between percent signs that is known
    Expansion,    \* what it stands for
    Scripts       \* the scripts to preprocess

ASSUME PreprocessorAssumption ==
    /\ {ImportWord, FeatureWord} \cup Named \subseteq Directive
    /\ ImportWord \notin Named /\ FeatureWord \notin Named \cup {ImportWord}
    /\ Newline \notin {Begin, End, Slashes, Space, Apostrophe, Quote, EndOfText} \cup Directive
    /\ {Space, Apostrophe} \cap ({Slashes, Quote, EndOfText} \cup Directive) = {}
    /\ EndOfText \notin {Begin, End, Slashes, Quote} \cup Directive
    /\ \A s \in Scripts : s \in Seq(ToSet(s)) /\ EndOfText \notin ToSet(s)
    /\ Variable # <<>> /\ Variable \in Seq(ToSet(Variable)) /\ Expansion \in Seq(ToSet(Expansion))

VARIABLES
    script,
    p, pend,     \* the scanning position, and the end of the block
    stage,       \* "scan" and "value", "info", "import" and "expand", then "done"
    directive,   \* m_directive_buffer
    value,       \* m_value_buffer
    found,       \* m_directive_value_list
    info,        \* t_script_info: a value of each of Named, and the features
    next,        \* index of process_import
    pscan,       \* position in the path that expand_var is at
    pready,      \* the percent sign it is behind, or 0
    buffer,      \* what it has made of the path so far
    scripts      \* paths of the scripts that were read, in order

scanVars == <<p, pend, directive, value>>
expandVars == <<pscan, pready, buffer>>
preprocessorVars == <<script, scanVars, stage, found, info, next, expandVars, scripts>>

-----------------------------------------------------------------------------
(* Scanning *)

At(i) == IF i \in 1 .. Len(script) THEN script[i] ELSE EndOfText

\* The first position from i on that has that token, or is the end.
Find(i, token) ==
    CHOOSE j \in i .. Len(script) + 1 :
        At(j) \in {token, EndOfText} /\ \A n \in i .. j - 1 : At(n) # token

\* Behind the tokens to skip.
Skip(i, tokens) ==
    CHOOSE j \in i .. Len(script) + 1 : At(j) \notin tokens /\ \A n \in i .. j - 1 : At(n) \in tokens

\* What a line may begin with, and what the parts of a directive may have between them.
Indent == {Space, Apostrophe}
Blanks == {Space}

\* extract_preprocessor_block, "to next line"
BlockBegin == Find(Find(1, Begin), Newline)

\* Mutant: the end marker may be on the begin marker's line.
EndOnSameLine == Find(Find(1, Begin), End)

EndMarker == Find(BlockBegin, End)

\* "to prev line": a newline, or the start of the script.
BlockEnd ==
    CHOOSE j \in 1 .. EndMarker :
        (At(j) = Newline \/ j = 1) /\ \A n \in j + 1 .. EndMarker : At(n) # Newline

HasBlock == EndMarker <= Len(script) /\ BlockBegin < BlockEnd

PreprocessorInit ==
    /\ script \in Scripts
    /\ IF HasBlock THEN p = BlockBegin /\ pend = BlockEnd ELSE p = 1 /\ pend = 1
    /\ stage = "scan" /\ directive = EndOfText /\ value = <<>> /\ found = <<>>
    /\ info = [names |-> [d \in Named |-> <<>>], features |-> {}]
    /\ next = 1 /\ pscan = 1 /\ pready = 0 /\ buffer = <<>> /\ scripts = <<>>

NextLine == Find(p, Newline) + 1

\* One turn of the loop in preprocess, up to the value of a directive, or without one.
ScanLine ==
    /\ stage = "scan" /\ p < pend
    /\ LET comment == Skip(p, Indent)
           word    == Skip(comment + 1, Blanks)
           quote   == Skip(word + 1, Blanks)
       IN  IF At(comment) = Slashes /\ At(word) \in Directive /\ At(quote) = Quote
           THEN stage' = "value" /\ p' = quote + 1 /\ directive' = At(word) /\ value' = <<>>
           ELSE p' = NextLine /\ UNCHANGED <<stage, directive, value>>
    /\ UNCHANGED <<script, pend, found, info, next, expandVars, scripts>>

InValue == At(p) \notin {EndOfText, Newline} /\ p < pend

\* scan_value goes on: of two quotes one is taken.
ValueGoesOn ==
    /\ stage = "value" /\ InValue
    /\ \/ At(p) # Quote /\ p' = p + 1
       \/ At(p) = Quote /\ At(p + 1) = Quote /\ p' = p + 2
    /\ value' = Append(value, At(p))
    /\ UNCHANGED <<script, pend, stage, directive, found, info, next, expandVars, scripts>>

ValueEnds ==
    /\ stage = "value" /\ InValue
    /\ At(p) = Quote /\ At(p + 1) # Quote
    /\ found' = Append(found, [directive |-> directive, value |-> value])
    /\ stage' = "scan" /\ p' = NextLine
    /\ UNCHANGED <<script, pend, directive, value, info, next, expandVars, scripts>>

\* The line ends within the value: there is no directive.
ValueFails ==
    /\ stage = "value" /\ ~InValue
    /\ stage' = "scan" /\ p' = NextLine /\ value' = <<>>
    /\ UNCHANGED <<script, pend, directive, found, info, next, expandVars, scripts>>

ScanEnds ==
    /\ stage = "scan" /\ p >= pend
    /\ stage' = "info"
    /\ UNCHANGED <<script, scanVars, found, info, next, expandVars, scripts>>

-----------------------------------------------------------------------------
(* What the host does with the directives *)

ValuesOf(d) == SelectSeq(found, LAMBDA f : f.directive = d)

\* process_script_info
ReadInfo ==
    /\ stage = "info"
    /\ stage' = "import"
    /\ info' = [names |-> [d \in Named |-> IF ValuesOf(d) = <<>> THEN <<>> ELSE Last(ValuesOf(d)).value],
                features |-> {f.value : f \in ToSet(ValuesOf(FeatureWord))}]
    /\ UNCHANGED <<script, scanVars, found, next, expandVars, scripts>>

\* process_import
NextDirective ==
    /\ stage = "import" /\ next <= Len(found)
    /\ IF found[next].directive = ImportWord
       THEN stage' = "expand" /\ pscan' = 1 /\ pready' = 0 /\ buffer' = <<>> /\ UNCHANGED next
       ELSE next' = next + 1 /\ UNCHANGED <<stage, expandVars>>
    /\ UNCHANGED <<script, scanVars, found, info, scripts>>

Path == found[next].value

\* Mutant: a name that begins like the known one is taken for it.
KnownPrefix(name) ==
    CASE name = <<>> -> <<Percent>>
      [] name # <<>> /\ IsPrefix(name, Variable) -> Expansion
      [] OTHER -> <<Percent>> \o Front(name)

\* What a closed %name% leaves: of an unknown one, the percent sign and all but the last
\* character of the name.
Known(name) ==
    CASE name = <<>> -> <<Percent>>
      [] name = Variable -> Expansion
      [] OTHER -> <<Percent>> \o Front(name)

\* One turn of the loop in expand_var.
ExpandNormal ==
    /\ stage = "expand" /\ pscan <= Len(Path) /\ pready = 0
    /\ IF Path[pscan] = Percent
       THEN pready' = pscan /\ UNCHANGED buffer
       ELSE buffer' = Append(buffer, Path[pscan]) /\ UNCHANGED pready
    /\ pscan' = pscan + 1
    /\ UNCHANGED <<script, scanVars, stage, found, info, next, scripts>>

ExpandPercent ==
    /\ stage = "expand" /\ pscan <= Len(Path) /\ pready > 0
    /\ IF Path[pscan] = Percent
       THEN pready' = 0 /\ buffer' = buffer \o Known(SubSeq(Path, pready + 1, pscan - 1))
       ELSE UNCHANGED <<pready, buffer>>
    /\ pscan' = pscan + 1
    /\ UNCHANGED <<script, scanVars, stage, found, info, next, scripts>>

\* The path is expanded in place, in KStateInPercent without the rest.  What cannot be read
\* is reported and left out.
ReadImport ==
    /\ stage = "expand" /\ pscan > Len(Path)
    /\ found' = [found EXCEPT ![next].value = buffer]
    /\ scripts' \in {scripts, Append(scripts, buffer)}
    /\ stage' = "import" /\ next' = next + 1
    /\ UNCHANGED <<script, scanVars, info, expandVars>>

ImportEnds ==
    /\ stage = "import" /\ next > Len(found)
    /\ stage' = "done"
    /\ UNCHANGED <<script, scanVars, found, info, next, expandVars, scripts>>

PreprocessorNext ==
    \/ ScanLine \/ ValueGoesOn \/ ValueEnds \/ ValueFails \/ ScanEnds \/ ReadInfo
    \/ NextDirective \/ ExpandNormal \/ ExpandPercent \/ ReadImport \/ ImportEnds

PreprocessorSpec == PreprocessorInit /\ [][PreprocessorNext]_preprocessorVars

-----------------------------------------------------------------------------
(* What it should find, said of lines and not of a walk *)

\* The number of the line that position i is in; a newline is the last of its line.
LineOf(i) == Cardinality({n \in 1 .. i - 1 : At(n) = Newline}) + 1

LineCount == LineOf(Len(script) + 1)

Having(token) == {LineOf(i) : i \in {i \in 1 .. Len(script) : script[i] = token}}

\* The lines between the first with the begin marker and the next with the end marker.
BlockLines ==
    {n \in 1 .. LineCount :
        \E b \in Having(Begin), e \in Having(End) :
            /\ b < n /\ n < e
            /\ \A m \in Having(Begin) : b <= m
            /\ \A m \in Having(End) : m <= b \/ e <= m}

OnlySpace(i, j) == \A n \in i .. j : script[n] = Space

\* How many quotes there are from i to j.
Quotes(i, j) == Cardinality({n \in i .. j : script[n] = Quote})

\* Counted from i, the quote there is not the second of two, and no other follows it.
ClosesAt(i, j) == script[j] = Quote /\ Quotes(i, j) % 2 = 1 /\ At(j + 1) # Quote

\* Where the comment, the word, the opening and the closing quote of a line's directive are.
Places(n) ==
    LET line == {i \in 1 .. Len(script) : LineOf(i) = n}
    IN  {at \in {c \in line : script[c] = Slashes} \X {w \in line : script[w] \in Directive}
                    \X {q \in line : script[q] = Quote} \X {e \in line : script[e] = Quote} :
            /\ \A i \in line : i < at[1] => script[i] \in {Space, Apostrophe}
            /\ at[1] < at[2] /\ OnlySpace(at[1] + 1, at[2] - 1)
            /\ at[2] < at[3] /\ OnlySpace(at[2] + 1, at[3] - 1)
            /\ at[3] < at[4] /\ ClosesAt(at[3] + 1, at[4])
            /\ \A i \in at[3] + 1 .. at[4] - 1 : ~ClosesAt(at[3] + 1, i)}

\* The text from i to j, with one quote of each two.
Unescaped(i, j) ==
    FlattenSeq([n \in 1 .. j - i + 1 |->
        IF script[i + n - 1] = Quote /\ Quotes(i, i + n - 1) % 2 = 0 THEN <<>> ELSE <<script[i + n - 1]>>])

\* The directive of a line, if it has one.
MeantBy(n) ==
    IF Places(n) = {} THEN <<>>
    ELSE LET at == CHOOSE at \in Places(n) : TRUE
         IN  <<[directive |-> script[at[2]], value |-> Unescaped(at[3] + 1, at[4] - 1)]>>

\* The directives of the block's lines up to the given one.
MeantUpTo(last) == FlattenSeq([n \in 1 .. last |-> IF n \in BlockLines THEN MeantBy(n) ELSE <<>>])

MeantSoFar == MeantUpTo(IF stage \in {"scan", "value"} THEN LineOf(p) - 1 ELSE LineCount)

\* How many percent signs there are in v up to i: behind an odd number is a name.
Signs(v, i) == Cardinality({n \in 1 .. i : v[n] = Percent})
InName(v, i) == Signs(v, i) % 2 = 1

\* The name that ends before the percent sign at i.
NameBefore(v, i) ==
    LET opening == CHOOSE j \in 1 .. i - 1 : v[j] = Percent /\ \A n \in j + 1 .. i - 1 : v[n] # Percent
    IN  SubSeq(v, opening + 1, i - 1)

Closing(v) == {i \in 1 .. Len(v) : v[i] = Percent /\ InName(v, i - 1)}

\* The positions of a percent sign that is not closed, and of the rest behind it.
Unclosed(v) == {i \in 1 .. Len(v) : InName(v, i) /\ \A n \in i + 1 .. Len(v) : v[n] # Percent}

\* What the character at i stands for: itself, or with the percent sign that closes a name,
\* what the name does.
Stands(v, i, Unknown(_)) ==
    CASE i \in Closing(v) -> LET name == NameBefore(v, i)
                             IN  IF name = <<>> THEN <<Percent>>
                                 ELSE IF name = Variable THEN Expansion ELSE Unknown(name)
      [] i \notin Closing(v) /\ InName(v, i) -> <<>>
      [] OTHER -> <<v[i]>>

\* What a path says: variables stand for their values, all else is text.
Meant(v) ==
    FlattenSeq([i \in 1 .. Len(v) |->
        IF i \in Unclosed(v) THEN <<v[i]>>
        ELSE Stands(v, i, LAMBDA name : <<Percent>> \o name \o <<Percent>>)])

\* What is left of it.
Left(v) ==
    FlattenSeq([i \in 1 .. Len(v) |-> Stands(v, i, LAMBDA name : <<Percent>> \o Front(name))])

AllKnown(v) == Unclosed(v) = {} /\ \A i \in Closing(v) : NameBefore(v, i) \in {<<>>, Variable}

-----------------------------------------------------------------------------
(* Properties *)

\* At every line of the scan, the directives found are those of the block's lines passed
\* so far: the block is the lines strictly between those of the two markers, whatever is
\* on them; a line may be indented with apostrophes too, but a directive has nothing but
\* spaces and tabs between its parts; and a value ends at the first quote that is not
\* doubled, on its own line (extract_preprocessor_block, preprocess,
\* scan_directive_and_value, scan_value).
FoundAreMeant == stage \in {"scan", "value", "info"} => found = MeantSoFar

\* The path of an import is what it says, with the variables replaced, exactly when all
\* its percent signs are closed and all its names known: of an unknown name the last
\* character and the closing sign are lost, of one that is not closed everything.  The
\* scripts read are the paths in their order, without those that could not be read
\* (expand_var, process_import).
PathsAreMeant ==
    stage \in {"import", "expand", "done"} =>
        LET meant == MeantSoFar
            imports == {n \in 1 .. next - 1 : meant[n].directive = ImportWord}
        IN  /\ Len(found) = Len(meant)
            /\ \A n \in 1 .. Len(found) :
                   /\ found[n].directive = meant[n].directive
                   /\ found[n].value = IF n \in imports THEN Left(meant[n].value) ELSE meant[n].value
                   /\ n \in imports => (found[n].value = Meant(meant[n].value) <=> AllKnown(meant[n].value))
            /\ \E read \in SUBSET imports :
                   scripts = FlattenSeq([n \in 1 .. next - 1 |-> IF n \in read THEN <<found[n].value>> ELSE <<>>])
=============================================================================
