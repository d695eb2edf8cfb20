---------------------------- MODULE EquivalencePolicy ----------------------------
(***************************************************************************)
(* When two raw expressions count as the same (equivalence.rs of the four  *)
(* dialects, which share this code but for the casts): the policy compares *)
(* canonical texts.  desired is the expression of the file, exported what  *)
(* the server answers; the server spells an expression in its own way, and *)
(* somebody may have changed it.                                           *)
(*                                                                         *)
(* An expression is a sequence of characters; "cast(", "as", the name of a *)
(* type and the letter "x" count as one each.                              *)
(***************************************************************************)
EXTENDS Integers, Sequences, FiniteSets
LOCAL SE == INSTANCE SequencesExt
LOCAL F == INSTANCE Functions

CONSTANTS
    Expressions,     \* what files say
    Letters,         \* the characters an edit writes
    IntegerTypes,    \* is_integer_type of the dialect
    Escapes,         \* the server knows backslashes in strings
    Brackets,        \* the server quotes names with [ and ]
    MaxChanges       \* how often the server respells and somebody edits

VARIABLES desired, exported, edited, changes

vars == <<desired, exported, edited, changes>>

Quotes == {"'", "\""}
Opening == {"(", "cast("}

-------------------------------------------------------------------------------
(* equivalence.rs                                                          *)

(* The quote that is open after i characters.  A doubled quote closes and  *)
(* opens again, which comes to the same as the code's look ahead.          *)
OpenQuotes(text) ==
    LET open[i \in 0..Len(text)] ==
            IF i = 0 THEN ""
            ELSE IF text[i] \notin Quotes THEN open[i - 1]
            ELSE IF open[i - 1] = "" THEN text[i]
            ELSE IF open[i - 1] = text[i] THEN ""
            ELSE open[i - 1]
    IN open

Pick(text, kept) ==
    LET at == SelectSeq([i \in DOMAIN text |-> i], LAMBDA i : i \in kept)
    IN [k \in DOMAIN at |-> text[at[k]]]

(* Mutants: quotes are not minded; nothing is collapsed.                   *)
CollapseWhitespaceBlind(text) ==
    Pick(text, {i \in DOMAIN text :
        \/ text[i] # " "
        \/ /\ i > 1 /\ text[i - 1] # " "
           /\ \E j \in i..Len(text) : text[j] # " "})
CollapseWhitespaceNone(text) == text

(* collapse_whitespace: one blank for a run of them outside of quotes,     *)
(* none at the ends.                                                       *)
CollapseWhitespace(text) ==
    LET open == OpenQuotes(text)
        Blank(i) == text[i] = " " /\ open[i - 1] = ""
    IN Pick(text, {i \in DOMAIN text :
           \/ ~Blank(i)
           \/ /\ i > 1 /\ ~Blank(i - 1)
              /\ \E j \in i..Len(text) : ~Blank(j)})

(* Parentheses open after i characters, those in quotes not counted.       *)
Depths(text) ==
    LET open == OpenQuotes(text)
        depth[i \in 0..Len(text)] ==
            IF i = 0 THEN 0
            ELSE IF open[i - 1] # "" THEN depth[i - 1]
            ELSE IF text[i] \in Opening THEN depth[i - 1] + 1
            ELSE IF text[i] = ")" THEN depth[i - 1] - 1
            ELSE depth[i - 1]
    IN depth

(* outer_parens_wrap_entire_expr                                           *)
Wraps(text) ==
    /\ text # <<>> /\ text[1] = "(" /\ SE!Last(text) = ")"
    /\ \A i \in 1..(Len(text) - 1) : Depths(text)[i] > 0
    /\ Depths(text)[Len(text)] = 0
    /\ OpenQuotes(text)[Len(text)] = ""

Trim(text) ==
    Pick(text, {i \in DOMAIN text : /\ \E j \in 1..i : text[j] # " "
                                    /\ \E j \in i..Len(text) : text[j] # " "})

(* strip_redundant_outer_parens                                            *)
RECURSIVE StripOuterParens(_)
StripOuterParens(text) ==
    LET t == Trim(text) IN IF Wraps(t) THEN StripOuterParens(SE!Front(Tail(t))) ELSE t

DigitValue == [c \in {"0", "1", "2"} |-> CASE c = "0" -> 0 [] c = "1" -> 1 [] c = "2" -> 2]
Digits(text) == text # <<>> /\ F!Range(text) \subseteq DOMAIN DigitValue

(* Mutant: leading zeros stay.                                             *)
IntegerLiteralAsWritten(raw) == IF Digits(Trim(raw)) THEN {Trim(raw)} ELSE {}

(* canonical_integer_literal: {} when the text is none.                    *)
IntegerLiteral(raw) ==
    LET text == Trim(raw)
        signed == text # <<>> /\ text[1] \in {"-", "+"}
        digits == IF signed THEN Tail(text) ELSE text
        zeros == Cardinality({i \in DOMAIN digits : \A j \in 1..i : digits[j] = "0"})
        number == IF zeros = Len(digits) THEN <<"0">> ELSE SubSeq(digits, zeros + 1, Len(digits))
    IN IF ~Digits(digits) THEN {}
       ELSE {IF signed /\ text[1] = "-" /\ number # <<"0">> THEN <<"-">> \o number ELSE number}

(* parse_cast_expression, find_cast_as_separator: the first AS that is in  *)
(* no quotes and no parentheses.                                           *)
CastParts(text) ==
    LET inner == SubSeq(text, 2, Len(text) - 1)
        separators == {i \in 1..(Len(inner) - 2) :
                          /\ SubSeq(inner, i, i + 2) = <<" ", "as", " ">>
                          /\ OpenQuotes(inner)[i] = ""
                          /\ Depths(inner)[i] = 0}
    IN IF Len(text) < 2 \/ text[1] # "cast(" \/ SE!Last(text) # ")" \/ separators = {} THEN {}
       ELSE LET at == CHOOSE i \in separators : \A j \in separators : i <= j
            IN {[literal |-> Trim(SubSeq(inner, 1, at - 1)),
                 type |-> Trim(SubSeq(inner, at + 3, Len(inner)))]}

(* Mutant: what is cast is not looked at.                                  *)
CastLiteralAny(text) == UNION {IntegerLiteral(SelectSeq(c.literal, LAMBDA ch : ch \in DOMAIN DigitValue)) : c \in CastParts(text)}

(* normalize_integer_cast_literal, canonical_type_name, is_integer_type    *)
CastLiteral(text) ==
    LET Quoted(t) == Len(t) >= 2 /\ t[1] = "'" /\ SE!Last(t) = "'"
        Inner(t) == SubSeq(t, 2, Len(t) - 1)
    IN UNION {IntegerLiteral(Inner(c.literal)) :
                 c \in {p \in CastParts(text) :
                           /\ p.type \in {<<t>> : t \in IntegerTypes}
                           /\ Quoted(p.literal)
                           /\ "'" \notin F!Range(Inner(p.literal))}}

(* canonical_raw_expr                                                      *)
Canonical(raw) ==
    LET text == CollapseWhitespace(StripOuterParens(CollapseWhitespace(raw)))
        literals == IF CastLiteral(text) # {} THEN CastLiteral(text) ELSE IntegerLiteral(text)
    IN IF literals = {} THEN text ELSE CHOOSE l \in literals : TRUE

(* exprs_equivalent                                                        *)
Equivalent(left, right) == left = right \/ Canonical(left) = Canonical(right)

-------------------------------------------------------------------------------
(* What an expression means to the server.                                 *)

(* Every character with the quote it is in; a blank outside of quotes only *)
(* parts what it stands between.                                           *)
Closing(open) == IF open = "[" THEN "]" ELSE open
ReadStep(state, ch) ==
    LET In(open) == [state EXCEPT !.read = Append(@, <<state.open, ch>>), !.open = open, !.escaped = FALSE]
    IN CASE state.escaped -> In(state.open)
         [] Escapes /\ state.open # "" /\ ch = "\\" -> [In(state.open) EXCEPT !.escaped = TRUE]
         [] state.open # "" /\ ch = Closing(state.open) -> In("")
         [] state.open = "" /\ (ch \in Quotes \/ (Brackets /\ ch = "[")) -> In(ch)
         [] state.open = "" /\ ch = " " /\ state.read # <<>> /\ SE!Last(state.read) = <<"", " ">> -> state
         [] OTHER -> In(state.open)

Read(text) == SE!FoldLeft(ReadStep, [read |-> <<>>, open |-> "", escaped |-> FALSE], text)

Depth(read, i) ==
    LET Count(chars) == Cardinality({j \in 1..i : read[j][1] = "" /\ read[j][2] \in chars})
    IN Count(Opening) - Count({")"})

WellFormed(text) ==
    LET r == Read(text)
    IN /\ r.read # <<>> /\ r.open = "" /\ Depth(r.read, Len(r.read)) = 0
       /\ \A i \in DOMAIN r.read : Depth(r.read, i) >= 0

(* A blank beside a parenthesis or at an end parts nothing.                *)
Parted(read) ==
    Pick(read, {i \in DOMAIN read :
        \/ read[i] # <<"", " ">>
        \/ /\ i \notin {1, Len(read)}
           /\ {read[i - 1], read[i + 1]} \cap {<<"", c>> : c \in Opening \cup {")"}} = {}})

RECURSIVE Unwrapped(_)
Unwrapped(r) ==
    IF r # <<>> /\ r[1] = <<"", "(">> /\ \A i \in 1..(Len(r) - 1) : Depth(r, i) > 0
    THEN Unwrapped(SE!Front(Tail(r)))
    ELSE r

(* The number a numeral stands for, blanks around it or not; {} for what   *)
(* is none.                                                                *)
NumberOf(numeral) ==
    LET text == Trim(numeral)
        signed == text # <<>> /\ text[1] \in {"-", "+"}
        digits == IF signed THEN Tail(text) ELSE text
        value == SE!FoldLeft(LAMBDA n, c : 10 * n + DigitValue[c], 0, digits)
    IN IF ~Digits(digits) THEN {} ELSE {IF signed /\ text[1] = "-" THEN -value ELSE value}

(* CAST('<numeral>' AS <type>): no unsigned number is negative.            *)
TooLarge == 1000
CastNumber(text) ==
    LET n == Len(text)
    IN IF n > 8 /\ SubSeq(text, 1, 2) = <<"cast(", "'">> /\ SubSeq(text, n - 5, n - 2) = <<"'", " ", "as", " ">>
       THEN {IF text[n - 1] = "unsigned" /\ v < 0 THEN TooLarge + v ELSE v : v \in NumberOf(SubSeq(text, 3, n - 6))}
       ELSE {}

(* A number, or what is read.                                              *)
Meaning(text) ==
    LET read == Unwrapped(Parted(Read(text).read))
        plain == [i \in DOMAIN read |-> read[i][2]]
    IN [numbers |-> NumberOf(plain) \cup CastNumber(plain),
        read |-> IF NumberOf(plain) \cup CastNumber(plain) = {} THEN read ELSE <<>>]

-------------------------------------------------------------------------------
Init ==
    /\ desired \in Expressions
    /\ exported = desired
    /\ edited = FALSE
    /\ changes = 0

Insert(text, i, ch) == SubSeq(text, 1, i) \o <<ch>> \o SubSeq(text, i + 1, Len(text))

Change(text) ==
    /\ changes < MaxChanges
    /\ exported' = text
    /\ changes' = changes + 1
    /\ UNCHANGED desired

(* Another blank beside one that only parts, or at an end.                 *)
RespellBlank ==
    /\ \E i \in 0..Len(exported) :
        /\ i \notin {0, Len(exported)} =>
            exported[i] = " " /\ Read(SubSeq(exported, 1, i)).open = ""
        /\ Change(Insert(exported, i, " "))
    /\ UNCHANGED edited

RespellParens == Change(<<"(">> \o exported \o <<")">>) /\ UNCHANGED edited

(* A number with another zero, or cast from a string.                      *)
RespellNumber ==
    /\ Digits(exported)
    /\ \/ Change(<<"0">> \o exported)
       \/ Change(<<"cast(", "'">> \o exported \o <<"'", " ", "as", " ", "int", ")">>)
    /\ UNCHANGED edited

Edit ==
    /\ \/ \E i \in 0..Len(exported), ch \in Letters : Change(Insert(exported, i, ch))
       \/ \E i \in DOMAIN exported, ch \in Letters : Change([exported EXCEPT ![i] = ch])
       \/ \E i \in DOMAIN exported : Change(SubSeq(exported, 1, i - 1) \o SubSeq(exported, i + 1, Len(exported)))
    /\ edited' = TRUE

Done == changes = MaxChanges /\ UNCHANGED vars

Next == RespellBlank \/ RespellParens \/ RespellNumber \/ Edit \/ Done

Spec == Init /\ [][Next]_vars

-------------------------------------------------------------------------------
(* Properties                                                              *)

(* The policy never hides a change: two expressions that the server reads  *)
(* as different ones are not equivalent.                                   *)
ChangeIsSeen ==
    WellFormed(desired) /\ WellFormed(exported) /\ Equivalent(desired, exported)
        => Meaning(desired) = Meaning(exported)

(* The spellings the policy is for are no changes, and they mean the same. *)
RespelledStaysEquivalent ==
    ~edited => Equivalent(desired, exported) /\ Meaning(desired) = Meaning(exported)
===============================================================================
