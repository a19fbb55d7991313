--------------------------- MODULE JsonExtraction ---------------------------
(***************************************************************************)
(* How the LLM provider finds the JSON in what `claude -p` says            *)
(* (memory/claude_cli_llm.py: _strip_code_fences and                       *)
(* _extract_first_json_object).  A text is a sequence of symbols: the      *)
(* braces that open and close, the quote, the backslash, the colon, and    *)
(* "letter" for those, such as n, that a string may hold as they are or    *)
(* after a backslash.  Code fences and surrounding white space are         *)
(* stripped before and are not modelled.                                   *)
(***************************************************************************)
EXTENDS Integers, Sequences

CONSTANT MaxUnits  \* bound: characters in a string of the object

ASSUME UnitsAssumption == MaxUnits \in Nat

Symbols == {"open", "close", "quote", "backslash", "colon", "letter"}

-----------------------------------------------------------------------------
(* Of the objects json.loads accepts, those over these symbols have at     *)
(* most one key.  Modelled are the empty one, and those whose value is a   *)
(* string or an empty object (bound: an object in an object has no key).   *)

\* The characters of a string: a symbol, or an escaped one.
Units ==
    {<<c>> : c \in {"open", "close", "colon", "letter"}} \cup
    {<<"backslash", c>> : c \in {"quote", "backslash", "letter"}}

\* The texts of n characters.
Texts[n \in 0..MaxUnits] ==
    IF n = 0 THEN {<<>>} ELSE {t \o u : t \in Texts[n - 1], u \in Units}

Strings == {<<"quote">> \o t \o <<"quote">> : t \in UNION {Texts[n] : n \in 0..MaxUnits}}

Empty == <<"open", "close">>

Objects ==
    {Empty} \cup
    {<<"open">> \o k \o <<"colon">> \o v \o <<"close">> : k \in Strings, v \in Strings \cup {Empty}}

ValidJson(s) == s \in Objects \cup Strings

-----------------------------------------------------------------------------
(* _extract_first_json_object                                              *)

None == <<>>

Positions(s, c) == {i \in DOMAIN s : s[i] = c}

Least(S) == CHOOSE i \in S : \A j \in S : i <= j

\* The scan: how deep in braces, whether inside a string or after a backslash
\* in one.
Scan == [depth |-> 0, in_str |-> FALSE, escape |-> FALSE]

Depth(depth, c) == CASE c = "open" -> depth + 1
                     [] c = "close" -> depth - 1
                     [] OTHER -> depth

\* Mutant: an escaped quote ends the string.
ReadUnescaped(scan, c) ==
    IF scan.in_str THEN [scan EXCEPT !.in_str = (c # "quote")]
    ELSE [scan EXCEPT !.in_str = (c = "quote"), !.depth = Depth(@, c)]

Read(scan, c) ==
    IF scan.escape THEN [scan EXCEPT !.escape = FALSE]
    ELSE IF scan.in_str THEN [scan EXCEPT !.escape = (c = "backslash"), !.in_str = (c # "quote")]
    ELSE [scan EXCEPT !.in_str = (c = "quote"), !.depth = Depth(@, c)]

\* The scan of a text after each of its symbols.
Scans(s) ==
    LET scan[i \in 0..Len(s)] == IF i = 0 THEN Scan ELSE Read(scan[i - 1], s[i])
    IN  scan

\* Where the braces of a text that begins with one are balanced.
Balanced(s) == LET scan == Scans(s) IN {i \in DOMAIN s : scan[i].depth = 0}

\* The balanced text that begins at the first brace, if it is JSON.
ExtractFirstJsonObject(s) ==
    IF Positions(s, "open") = {} THEN None
    ELSE LET rest == SubSeq(s, Least(Positions(s, "open")), Len(s))
         IN  IF Balanced(rest) = {} THEN None
             ELSE LET candidate == SubSeq(rest, 1, Least(Balanced(rest)))
                  IN  IF ValidJson(candidate) THEN candidate ELSE None

\* _strip_code_fences, once the fences are off.
StripCodeFences(s) ==
    IF s # <<>> /\ (s[1] # "open" \/ ~ValidJson(s)) /\ ExtractFirstJsonObject(s) # None
    THEN ExtractFirstJsonObject(s)
    ELSE s

=============================================================================
