------------------------------- MODULE MCBaselib ------------------------------
(* Markup and the logger for TLC, two parts of Baselib that share no state: part *)
(* says which of them this behaviour is about, the other stays as it began.      *)
EXTENDS Markup, LogManager, TLC

VARIABLE part

-----------------------------------------------------------------------------
(* One edit of a document with an element of every kind, two of the smallest.  *)

O(n) == <<"<", n>>
C(n) == <<"</", n>>
EmptyElem(n) == <<O(n), Slash, Gt>>
Elem(n, inner) == <<O(n), Gt>> \o inner \o <<C(n), Gt>>
Doc(text, n) == [text |-> text, edits |-> n]

MCDocs ==
    {Doc(<<>>, 2), Doc(EmptyElem("a"), 2),
     Doc(Elem("a", EmptyElem("b") \o <<Eol>> \o Elem("b", <<Text>>)), 1),
     Doc(Elem("a", Elem("b", EmptyElem("b")) \o <<Comment>>), 1)}
MCFragments ==
    {<<Eol>> \o Elem("b", EmptyElem("b")) \o <<Eol>> \o EmptyElem("b"), <<Text>>, <<O("b"), Gt>>}

-----------------------------------------------------------------------------
(* Cells that fill their packet, one of them below the level of the file.      *)

Cell(i, level) == [id |-> i, len |-> 1, known |-> TRUE, level |-> level]
MCCells == {Cell(1, 1), Cell(2, 9), Cell(3, 1)}

-----------------------------------------------------------------------------
MCInit == part \in {"markup", "log"} /\ LogInit /\ Init /\ (part = "log" => m_strDoc = <<>>)

MCNext ==
    /\ UNCHANGED part
    /\ \/ part = "markup" /\ Next /\ UNCHANGED logVars
       \/ part = "log" /\ LogNext /\ UNCHANGED vars

MCSpec == MCInit /\ [][MCNext]_<<part, vars, logVars>>
=============================================================================
