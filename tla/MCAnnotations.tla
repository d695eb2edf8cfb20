----------------------------- MODULE MCAnnotations -----------------------------
(* Texts of two and three statements, each laid out in one of several      *)
(* ways, for Annotations.                                                  *)
EXTENDS Annotations

AllDialects == {"mysql", "postgres", "sqlite", "mssql"}
TwoNames == {"a", "b"}

OnItsFirstLine(n) == <<n, "renamed", "nl", "column", "nl", ";", "nl">>
Before(n) == <<"renamed", "nl", n, "column", ";", "nl">>
OnTheNextLine(n) == <<n, "column", ";", "nl", "renamed", "nl">>
Layouts(n) == {
    OnItsFirstLine(n), Before(n), OnTheNextLine(n),
    <<n, "column", ";", "nl">>,
    <<n, "nl", "column", "renamed", "nl", ";", "nl">>,
    <<n, "nl", "column", "note", "nl", ";", "nl", "nl">>,
    <<n, "invalid", "nl", "/*", "nl", "*/", "column", ";", "nl">>,
    <<"/*", "*/", "renamed", "nl", n, "column", ";", "nl">>,
    <<n, "'", "renamed", "'", ";", "nl">>,
    <<n, "'", "nl", ";", "'", "nl", "column", ";", "nl">>,
    <<"note", "nl", n, "column", ";", "nl", ";", "nl">>}

(* A literal with a quote after a backslash.                               *)
Escaped(n) == <<n, "'", Backslashed, ";", "'", ";", "nl">>

(* Every statement is first, in the middle or last.  Not: an annotation on *)
(* the line of a column (dialect-postgres/src/parser.rs:170), on the first *)
(* line below a comment (parser.rs:79), behind a semicolon or with two     *)
(* statements on its line (annotation.rs:293); the text of one inside a    *)
(* literal of several lines or a block comment, an apostrophe in a block   *)
(* comment (annotation.rs:114); a backslash at the end of a literal where  *)
(* it escapes nothing (dialect-sqlite/src/parser.rs:100).                  *)
Texts2(layouts) == {l1 \o l2 : l1, l2 \in layouts}
WellPlaced ==
    LET layouts == Layouts("a") \cup Layouts("b")
    IN Texts2(layouts) \cup {l \o OnItsFirstLine("b") : l \in Texts2(layouts)}
WithEscapes ==
    UNION {{l \o Escaped(n) \o OnItsFirstLine("b"), Escaped(n) \o l} :
              l \in Layouts("a"), n \in TwoNames}

TextsOfDialects ==
    [d \in AllDialects |-> IF d = "mysql" THEN WellPlaced \cup WithEscapes ELSE WellPlaced]
===============================================================================
