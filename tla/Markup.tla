-------------------------------- MODULE Markup --------------------------------
(***************************************************************************)
(* The XML document of Baselib/Markup.cpp: the text m_strDoc and, beside   *)
(* it, an index of element positions (ElemPosTree) that is parsed once and *)
(* then patched by every edit instead of being parsed again.               *)
(*                                                                         *)
(* The text is a sequence of units: <<"<", n>> and <<"</", n>> are the     *)
(* openings of a tag of name n, Slash and Gt its ends, Text a character of *)
(* data, Eol the MCD_EOL the edits put between elements.  Lengths and      *)
(* offsets count units.  Attr and the Val units after it are the one       *)
(* attribute a tag has; a comment is one unit, Comment.  File mode         *)
(* (MDF_READFILE, MDF_WRITEFILE) is left out.                              *)
(***************************************************************************)
EXTENDS Integers, Sequences, SequencesExt, FiniteSets, TLC

CONSTANTS
    Docs,       \* [text, edits]: what SetDoc is called with, and how many edits follow it
    Names,      \* tag names
    Fragments,  \* the texts AddSubDoc and SetElemContent are called with
    Positions,  \* the names SavePos is called with
    Careless    \* the calls the index does not survive, a subset of
                \*   "bare": an insertion without line ends into <a></a>,
                \*   "ill": a fragment that is ill-formed or holds no element,
                \*   "empty": SetData("") on the current text node

ASSUME MarkupAssumption ==
    /\ \A d \in Docs : d.edits \in Nat
    /\ Careless \subseteq {"bare", "ill", "empty"}

VARIABLES
    m_strDoc,
    elem,          \* m_pElemPosTree: elem[i] is ELEM(i); ELEM(0) is the document
    m_iPosFree, m_iPosDeleted,
    m_iPosParent, m_iPos, m_iPosChild,
    m_nNodeType, m_nNodeOffset, m_nNodeLength,
    edits,         \* a bound: the edits still to come before the next SetDoc
    saved          \* the saved position maps: a name's entry, or NotSaved

posVars == <<m_iPosParent, m_iPos, m_iPosChild, m_nNodeType, m_nNodeOffset, m_nNodeLength>>
vars == <<m_strDoc, elem, m_iPosFree, m_iPosDeleted, posVars, edits, saved>>

Gt == <<">">>
Slash == <<"/">>
Text == <<"t">>
Comment == <<"!">>
Attr == <<"at">>
Val == <<"v">>
Eol == <<"eol">>
NotSaved == [iPos |-> -1, kind |-> "none"]

-----------------------------------------------------------------------------
(* ElemPos *)

ClearVirtualParent ==
    [nStart |-> 0, nLength |-> 0, nStartTagLen |-> 0, nEndTagLen |-> 0, flags |-> {},
     iElemParent |-> 0, iElemChild |-> 0, iElemNext |-> 0, iElemPrev |-> 0]
IsEmptyElement(e) == e.nStartTagLen = e.nLength
StartContent(e) == e.nStart + e.nStartTagLen
ContentLen(e) == e.nLength - e.nStartTagLen - e.nEndTagLen
StartAfter(e) == e.nStart + e.nLength

\* ElemPosTree::GrowElemPosTree: an index nobody used yet becomes usable.
With(el, i, e) == (i :> e) @@ el

-----------------------------------------------------------------------------
(* TokenPos *)

At(doc, i) == IF i < Len(doc) THEN doc[i + 1] ELSE <<"end">>
IsTag(u) == u[1] \in {"<", "</", "!"}
TagEnd(doc, i) == CHOOSE j \in (i + 1)..Len(doc) : At(doc, j) = Gt /\ \A k \in i..(j - 1) : At(doc, k) # Gt

\* The first i' >= i where a tag starts, or the end of the text.
NextTag(doc, i) ==
    CHOOSE j \in i..Len(doc) : /\ j = Len(doc) \/ IsTag(At(doc, j))
                               /\ \A k \in i..(j - 1) : ~IsTag(At(doc, k))

\* ParseNode: the node at offset i.
ParseNode(doc, i) ==
    LET u == At(doc, i)
        Node(type, len) == [type |-> type, nStart |-> i, nLength |-> len]
        run == NextTag(doc, i)
    IN  CASE u[1] = "end" -> Node("end", 0)
          [] u[1] = "<" -> LET e == TagEnd(doc, i) IN
                           Node(IF At(doc, e - 1) = Slash THEN "empty" ELSE "element", e + 1 - i)
          [] u = Comment -> Node("comment", 1)
          [] u[1] = "</" -> Node("endtag", 2)
          [] OTHER -> Node(IF \E k \in i..(run - 1) : At(doc, k) = Text THEN "text" ELSE "space",
                           run - i)

\* WhitespaceToTag: past white space, if a tag or the end of the text follows it.
WhitespaceToTag(doc, i) ==
    LET t == NextTag(doc, i) IN IF \A k \in i..(t - 1) : At(doc, k) = Eol THEN t ELSE i

NameAt(doc, i) == doc[i + 1][2]

-----------------------------------------------------------------------------
(* x_ParseElem: the elements of doc are appended under `virtual`.  The parser *)
(* is [el, free, iPos, parent, root, stack, next]; x_GetFreePos is free + 1.  *)

StartTag(p, doc, virtual, node) ==
    LET i == p.free
        par == p.el[p.parent]
        first == par.iElemChild = 0
        last == IF first THEN i ELSE p.el[par.iElemChild].iElemPrev
        e == [nStart |-> node.nStart,
              nLength |-> IF node.type = "empty" THEN node.nLength ELSE 0,
              nStartTagLen |-> node.nLength, nEndTagLen |-> 0,
              flags |-> IF first THEN {"first"} ELSE {},
              iElemParent |-> p.parent, iElemChild |-> 0, iElemNext |-> 0, iElemPrev |-> last]
        linked == IF first THEN [p.el EXCEPT ![p.parent].iElemChild = i]
                  ELSE [p.el EXCEPT ![last].iElemNext = i, ![par.iElemChild].iElemPrev = i]
        opened == node.type = "element"
    IN  [p EXCEPT !.el = With(linked, i, e), !.free = i + 1,
                  !.root = IF @ = 0 THEN i ELSE @,
                  !.iPos = IF opened THEN i ELSE p.parent,
                  !.parent = IF opened THEN i ELSE @,
                  !.stack = IF opened THEN Append(@, NameAt(doc, node.nStart)) ELSE @]

\* An element without end tag: its children become its next siblings.
RECURSIVE Adopt(_, _, _, _)
Adopt(el, iPos, child, parent) ==
    IF child = 0 THEN el
    ELSE Adopt([el EXCEPT ![child].iElemParent = parent, ![child].iElemPrev = iPos,
                          ![iPos].iElemNext = child],
               child, el[child].iElemNext, parent)

RECURSIVE CloseNonEnded(_, _)
CloseNonEnded(p, level) ==
    IF Len(p.stack) <= level THEN p
    ELSE LET e == p.el[p.iPos]
             ill == IF "illdata" \in e.flags THEN {"illdata"} ELSE {}
             closed == [p.el EXCEPT ![p.iPos] = [e EXCEPT
                            !.nEndTagLen = 0, !.nLength = e.nStartTagLen, !.iElemChild = 0,
                            !.flags = (@ \union {"nonended"}) \ {"illdata"}],
                        ![e.iElemParent].flags = @ \union ill]
         IN  CloseNonEnded([p EXCEPT !.el = Adopt(closed, p.iPos, e.iElemChild, e.iElemParent),
                                     !.iPos = e.iElemParent, !.parent = e.iElemParent,
                                     !.stack = Front(@)],
                           level)

Ancestor(el, i, n) == FoldLeftDomain(LAMBDA a, k : el[a].iElemParent, i, [k \in 1..n |-> k])

\* The end tag of element m at the given level of the stack: the elements still
\* open inside it have none.
EndElem(p, virtual, node, level, m) ==
    LET Leave(q) == LET out == q.el[q.iPos].iElemParent
                    IN  [q EXCEPT !.parent = out, !.iPos = out, !.stack = Front(@)]
        ended == [p.el EXCEPT ![m].nLength = node.nStart - p.el[m].nStart + node.nLength,
                              ![m].nEndTagLen = node.nLength,
                              ![virtual].flags = IF Len(p.stack) > level THEN @ \union {"illformed"} ELSE @]
    IN  Leave(CloseNonEnded([p EXCEPT !.el = ended], level))

EndTag(p, doc, virtual, node) ==
    LET level == Max({0} \union {k \in DOMAIN p.stack : p.stack[k] = NameAt(doc, node.nStart)})
    IN  IF level = 0
        THEN [p EXCEPT !.el = [@ EXCEPT ![virtual].flags = @ \union {"illformed"},
                                        ![p.iPos].flags = @ \union {"illdata"}]]
        ELSE EndElem(p, virtual, node, level, Ancestor(p.el, p.iPos, Len(p.stack) - level))

EndOfDoc(p, virtual) ==
    CloseNonEnded(IF p.stack = <<>> THEN p
                  ELSE [p EXCEPT !.el = [@ EXCEPT ![virtual].flags = @ \union {"illformed"}]], 0)

RECURSIVE ParseFrom(_, _, _)
ParseFrom(p, doc, virtual) ==
    LET node == ParseNode(doc, p.next)
        q == [p EXCEPT !.next = @ + node.nLength]
    IN  CASE node.type = "end" -> EndOfDoc(p, virtual)
          [] node.type \in {"element", "empty"} -> ParseFrom(StartTag(q, doc, virtual, node), doc, virtual)
          [] node.type = "endtag" -> ParseFrom(EndTag(q, doc, virtual, node), doc, virtual)
          [] OTHER -> ParseFrom(q, doc, virtual)

x_ParseElem(el, free, virtual, doc) ==
    ParseFrom([el |-> el, free |-> free, iPos |-> virtual, parent |-> virtual, root |-> 0,
               stack |-> <<>>, next |-> 0], doc, virtual)

\* x_ParseDoc: the index of a document, and where its free entries start.
x_ParseDoc(doc) ==
    LET p == x_ParseElem(0 :> ClearVirtualParent, 1, 0, doc)
    IN  [el |-> [p.el EXCEPT ![0].nLength = Len(doc)], free |-> p.free]

IsWellFormed(el) ==
    /\ "illformed" \notin el[0].flags
    /\ el[0].iElemChild # 0 /\ el[el[0].iElemChild].iElemNext = 0

-----------------------------------------------------------------------------
(* The index is patched: every operator takes it and returns it.           *)

\* x_Adjust: nShift units were inserted (or removed) at iPos.  Starts behind it
\* move, and the lengths of the elements around it grow.
NextToAdjust(el, iPos, iPosTop, bPosTop, skip) ==
    LET RECURSIVE Up(_)
        Up(i) == LET par == el[i].iElemParent IN
                 IF par = iPosTop THEN par
                 ELSE IF el[par].iElemNext # 0 THEN el[par].iElemNext ELSE Up(par)
    IN  IF ~bPosTop /\ ~skip /\ el[iPos].iElemChild # 0 THEN el[iPos].iElemChild
        ELSE IF el[iPos].iElemNext # 0 THEN el[iPos].iElemNext
        ELSE Up(iPos)

RECURSIVE AdjustFrom(_, _, _, _, _)
AdjustFrom(el, iPos, iPosTop, skip, nShift) ==
    IF el[iPos].nStartTagLen = 0 THEN el
    ELSE LET bPosTop == iPos = iPosTop
             top == IF bPosTop THEN el[iPos].iElemParent ELSE iPosTop
             i == NextToAdjust(el, iPos, top, bPosTop, skip)
         IN  AdjustFrom(IF i # top THEN [el EXCEPT ![i].nStart = @ + nShift]
                        ELSE [el EXCEPT ![i].nLength = @ + nShift],
                        i, top, FALSE, nShift)
AdjustWithoutParent(el, iPos, nShift, bAfterPos) ==
    AdjustFrom(el, iPos, el[iPos].iElemParent, TRUE, nShift)
x_Adjust(el, iPos, nShift, bAfterPos) == AdjustFrom(el, iPos, el[iPos].iElemParent, bAfterPos, nShift)

x_AdjustForNode(el, iPosParent, iPos, nShift) ==
    LET child == el[iPosParent].iElemChild
    IN  IF iPos # 0 THEN x_Adjust(el, iPos, nShift, TRUE)
        ELSE IF child # 0 THEN x_Adjust([el EXCEPT ![child].nStart = @ + nShift], child, nShift, FALSE)
        ELSE x_Adjust([el EXCEPT ![iPosParent].nLength = @ + nShift], iPosParent, nShift, TRUE)

\* x_LinkElem: iPos becomes the sibling after iPosBefore, or the first child.
x_LinkElem(el, iPosParent, iPosBefore, iPos) ==
    LET first == el[iPosParent].iElemChild
        next == IF iPosBefore # 0 THEN el[iPosBefore].iElemNext ELSE first
        flags == el[iPos].flags \ {"first"}
        Toggle(f) == IF "first" \in f THEN f \ {"first"} ELSE f \union {"first"}
    IN  IF iPosBefore # 0
        THEN LET own == [el EXCEPT ![iPos].iElemParent = iPosParent, ![iPos].flags = flags,
                                   ![iPos].iElemNext = next]
                 back == IF next # 0 THEN [own EXCEPT ![next].iElemPrev = iPos]
                         ELSE [own EXCEPT ![first].iElemPrev = iPos]
             IN  [back EXCEPT ![iPosBefore].iElemNext = iPos, ![iPos].iElemPrev = iPosBefore]
        ELSE LET own == [el EXCEPT ![iPos].iElemParent = iPosParent,
                                   ![iPos].flags = flags \union {"first"},
                                   ![iPos].iElemNext = next,
                                   ![iPos].iElemPrev = IF next # 0 THEN el[next].iElemPrev ELSE iPos,
                                   ![iPosParent].iElemChild = iPos]
             IN  IF next = 0 THEN own
                 ELSE [own EXCEPT ![next].iElemPrev = iPos, ![next].flags = Toggle(@)]

\* x_ReleasePos on top of the list of deleted entries; s is [el, deleted].
x_ReleasePos(s, i) ==
    [el |-> [s.el EXCEPT ![i].iElemNext = s.deleted, ![i].flags = {"deleted"}], deleted |-> i]

\* x_ReleaseSubDoc: an element and all below it, depth first, children before parents.
RECURSIVE x_ReleaseSubDoc(_, _), ReleaseSiblings(_, _)
ReleaseSiblings(s, i) ==
    IF i = 0 THEN s ELSE ReleaseSiblings(x_ReleaseSubDoc(s, i), s.el[i].iElemNext)
x_ReleaseSubDoc(s, i) == x_ReleasePos(ReleaseSiblings(s, s.el[i].iElemChild), i)

\* x_UnlinkElem: iPos leaves its siblings and is released; its previous sibling.
PrevOf(el, iPos) == IF "first" \in el[iPos].flags THEN 0 ELSE el[iPos].iElemPrev
x_UnlinkElem(s, iPos) ==
    LET e == s.el[iPos]
        prev == PrevOf(s.el, iPos)
        unlinked ==
            IF prev = 0
            THEN IF e.iElemNext # 0
                 THEN [s.el EXCEPT ![e.iElemParent].iElemChild = e.iElemNext,
                                   ![e.iElemNext].iElemPrev = e.iElemPrev,
                                   ![e.iElemNext].flags = @ \union {"first"}]
                 ELSE [s.el EXCEPT ![e.iElemParent].iElemChild = 0]
            ELSE LET by == [s.el EXCEPT ![prev].iElemNext = e.iElemNext]
                 IN  IF e.iElemNext # 0 THEN [by EXCEPT ![e.iElemNext].iElemPrev = prev]
                     ELSE [by EXCEPT ![by[e.iElemParent].iElemChild].iElemPrev = prev]
    IN  x_ReleaseSubDoc([s EXCEPT !.el = unlinked], iPos)

\* x_CheckSavedPos: saved positions of released elements are dropped.
CheckNoSavedPos(el) == UNCHANGED saved
x_CheckSavedPos(el) ==
    saved' = [p \in Positions |->
                IF saved[p] # NotSaved /\ "deleted" \in el[saved[p].iPos].flags THEN NotSaved
                ELSE saved[p]]

x_DocChange(doc, nLeft, nReplace, str) ==
    SubSeq(doc, 1, nLeft) \o str \o SubSeq(doc, nLeft + nReplace + 1, Len(doc))

-----------------------------------------------------------------------------
(* x_InsertNew: a node [nStart, nLength, strMeta, insert, lines, replace] goes *)
(* into the text, before or after the current node or element, or into the    *)
(* parent's content.  It returns the text, the index (an empty parent <a/> is *)
(* split into <a> and </a>), the node's place, the sibling it comes after and *)
(* how much longer the text became.                                          *)
x_InsertNew(el, iPosParent, iPosRel, node) ==
    LET par == el[iPosParent]
        bEmptyParentTag == iPosParent # 0 /\ IsEmptyElement(par)
        bNoContentParentTags == iPosParent # 0 /\ ContentLen(par) = 0
        nonended == "nonended" \in par.flags
        place ==
            CASE iPosRel # 0 /\ node.nLength = 0 ->
                    IF node.insert THEN el[iPosRel].nStart ELSE StartAfter(el[iPosRel])
              [] ~(iPosRel # 0 /\ node.nLength = 0) /\ bEmptyParentTag ->
                    IF nonended THEN StartContent(par) ELSE StartContent(par) - 1
              [] ~bEmptyParentTag /\ node.nLength # 0 ->
                    IF node.insert THEN node.nStart ELSE node.nStart + node.nLength
              [] OTHER ->
                    IF node.insert \/ node.replace THEN StartContent(par)
                    ELSE StartAfter(par) - par.nEndTagLen
        atTag == IF node.lines /\ ~node.replace /\ ~bEmptyParentTag
                 THEN WhitespaceToTag(m_strDoc, place) ELSE place
        before ==
            IF node.nLength # 0 THEN iPosRel
            ELSE IF iPosRel # 0
                 THEN IF node.insert THEN PrevOf(el, iPosRel) ELSE iPosRel
                 ELSE IF ~node.insert /\ par.iElemChild # 0 THEN el[par.iElemChild].iElemPrev
                 ELSE 0
        nStart == IF node.lines /\ (bEmptyParentTag \/ bNoContentParentTags) THEN atTag + 1 ELSE atTag
        meta == IF node.lines THEN Append(node.strMeta, Eol) ELSE node.strMeta
        name == IF bEmptyParentTag THEN NameAt(m_strDoc, par.nStart) ELSE ""
        str == CASE bEmptyParentTag -> <<Gt>> \o (IF node.lines THEN <<Eol>> ELSE <<>>) \o meta \o <<<<"</", name>>>>
                 [] ~bEmptyParentTag /\ ~node.replace /\ bNoContentParentTags -> <<Eol>> \o meta
                 [] OTHER -> meta
        nInsertAt == CASE bEmptyParentTag -> StartAfter(par) - (IF nonended THEN 1 ELSE 2)
                       [] ~bEmptyParentTag /\ (node.replace \/ bNoContentParentTags) -> StartContent(par)
                       [] OTHER -> nStart
        nReplace == CASE bEmptyParentTag -> IF nonended THEN 0 ELSE 1
                      [] ~bEmptyParentTag /\ node.replace -> ContentLen(par)
                      [] OTHER -> 0
        split == [par EXCEPT !.flags = @ \ {"nonended"}, !.nEndTagLen = 2,
                             !.nStartTagLen = IF nonended THEN @ ELSE @ - 1]
    IN  [doc |-> x_DocChange(m_strDoc, nInsertAt, nReplace, str),
         el |-> IF bEmptyParentTag THEN [el EXCEPT ![iPosParent] = split] ELSE el,
         nStart |-> nStart, nLength |-> Len(node.strMeta), before |-> before,
         nAdjust |-> Len(str) - nReplace]

-----------------------------------------------------------------------------
(* Navigation *)

x_SetPos(iPosParent, iPos, iPosChild) ==
    /\ m_iPosParent' = iPosParent /\ m_iPos' = iPos /\ m_iPosChild' = iPosChild
    /\ m_nNodeOffset' = 0 /\ m_nNodeLength' = 0
    /\ m_nNodeType' = IF iPos # 0 THEN "element" ELSE "none"

\* x_FindElem: the next sibling, or the next one with the name; 0 if there is none.
RECURSIVE FirstNamed(_, _)
FirstNamed(i, name) ==
    IF i = 0 \/ NameAt(m_strDoc, elem[i].nStart) = name THEN i
    ELSE FirstNamed(elem[i].iElemNext, name)
x_FindElem(iPosParent, iPos, path) ==
    LET i == IF iPos # 0 THEN elem[iPos].iElemNext ELSE elem[iPosParent].iElemChild
    IN  IF path = "" THEN i ELSE FirstNamed(i, path)

Navigate == UNCHANGED <<m_strDoc, elem, m_iPosFree, m_iPosDeleted, edits>>

FindElem(path) ==
    LET i == x_FindElem(m_iPosParent, m_iPos, path)
    IN  /\ i # 0
        /\ x_SetPos(elem[i].iElemParent, i, 0)
        /\ Navigate /\ UNCHANGED saved

\* Without a main position the first element under the parent becomes it, found or not.
FindChildElem(path) ==
    LET main == IF m_iPos # 0 THEN m_iPos ELSE x_FindElem(m_iPosParent, 0, "")
        child == x_FindElem(main, IF m_iPos # 0 THEN m_iPosChild ELSE 0, path)
    IN  /\ IF child # 0
           THEN LET i == elem[child].iElemParent IN x_SetPos(elem[i].iElemParent, i, child)
           ELSE /\ m_iPos = 0 /\ main # 0
                /\ x_SetPos(m_iPosParent, main, 0)
        /\ Navigate /\ UNCHANGED saved

IntoElem ==
    /\ m_iPos # 0 /\ m_nNodeType = "element"
    /\ x_SetPos(m_iPos, m_iPosChild, 0)
    /\ Navigate /\ UNCHANGED saved

OutOfElem ==
    /\ m_iPosParent # 0
    /\ x_SetPos(elem[m_iPosParent].iElemParent, m_iPosParent, m_iPos)
    /\ Navigate /\ UNCHANGED saved

\* ResetPos, ResetMainPos and ResetChildPos
Reset ==
    /\ x_SetPos(0, 0, 0) \/ x_SetPos(m_iPosParent, 0, 0) \/ x_SetPos(m_iPosParent, m_iPos, 0)
    /\ Navigate /\ UNCHANGED saved

\* FindNode: from the current node, or behind the current element, on.
ToNode(iPos, node, type) ==
    /\ m_iPosParent' = m_iPosParent /\ m_iPos' = iPos /\ m_iPosChild' = 0
    /\ m_nNodeType' = type /\ m_nNodeOffset' = node.nStart /\ m_nNodeLength' = node.nLength
NotFound == [found |-> FALSE, iPos |-> 0, node |-> [type |-> "none", nStart |-> 0, nLength |-> 0]]
RECURSIVE FindNodeFrom(_, _, _)
FindNodeFrom(off, iPos, type) ==
    LET node == ParseNode(m_strDoc, off)
        next == IF iPos # 0 THEN elem[iPos].iElemNext ELSE elem[m_iPosParent].iElemChild
        par == elem[m_iPosParent]
        Found(i) == [found |-> TRUE, iPos |-> i, node |-> node]
    IN  CASE node.type = "end" -> NotFound
          [] node.type = "endtag" ->
                IF m_iPosParent # 0 /\ off = StartContent(par) + ContentLen(par) THEN NotFound
                ELSE IF type = "any" THEN Found(iPos)
                ELSE FindNodeFrom(off + node.nLength, iPos, type)
          [] node.type \in {"element", "empty"} ->
                IF next = 0 THEN NotFound
                ELSE IF type \in {"any", "element"} THEN Found(next)
                ELSE FindNodeFrom(StartAfter(elem[next]), next, type)
          [] OTHER -> IF type \in {"any", node.type} THEN Found(iPos)
                      ELSE FindNodeFrom(off + node.nLength, iPos, type)
FindNode(type) ==
    LET par == elem[m_iPosParent]
        start == CASE m_nNodeType \notin {"none", "element"} -> m_nNodeOffset + m_nNodeLength
                   [] m_nNodeType \in {"none", "element"} /\ m_iPos # 0 -> StartAfter(elem[m_iPos])
                   [] m_nNodeType \in {"none", "element"} /\ m_iPos = 0 /\ m_iPosParent # 0 -> StartContent(par)
                   [] OTHER -> m_nNodeOffset
        atParent == m_nNodeType \in {"none", "element"} /\ m_iPos = 0 /\ m_iPosParent # 0
        f == FindNodeFrom(start, m_iPos, type)
    IN  /\ ~(atParent /\ IsEmptyElement(par))
        /\ f.found
        /\ IF f.node.type \in {"element", "empty"} THEN x_SetPos(m_iPosParent, f.iPos, 0)
           ELSE ToNode(f.iPos, f.node, IF f.node.type = "endtag" THEN "lone" ELSE f.node.type)
        /\ Navigate /\ UNCHANGED saved

SavePos(name) ==
    /\ saved' = [saved EXCEPT ![name] =
                   CASE m_iPosChild # 0 -> [iPos |-> m_iPosChild, kind |-> "child"]
                     [] m_iPosChild = 0 /\ m_iPos # 0 -> [iPos |-> m_iPos, kind |-> "main"]
                     [] OTHER -> [iPos |-> m_iPosParent, kind |-> "parent"]]
    /\ Navigate /\ UNCHANGED posVars

RestorePos(name) ==
    /\ saved[name] # NotSaved
    /\ LET i == saved[name].iPos
           par == elem[i].iElemParent
       IN  CASE saved[name].kind = "child" -> x_SetPos(elem[par].iElemParent, par, i)
             [] saved[name].kind = "main" -> x_SetPos(par, i, 0)
             [] OTHER -> x_SetPos(i, 0, 0)
    /\ Navigate /\ UNCHANGED saved

-----------------------------------------------------------------------------
(* Edits.                                                                  *)

Room == edits > 0 /\ edits' = edits - 1

Parsed == [d \in Docs |-> x_ParseDoc(d.text)]
SetDoc(doc) ==
    /\ m_strDoc' = doc.text /\ elem' = Parsed[doc].el
    /\ m_iPosFree' = Parsed[doc].free /\ m_iPosDeleted' = 0
    /\ saved' = [n \in Positions |-> NotSaved] /\ edits' = doc.edits
    /\ x_SetPos(0, 0, 0)

\* The place of an insertion without line ends: see Careless.
BareInsert(parent, lines) ==
    ~lines /\ parent # 0 /\ ~IsEmptyElement(elem[parent]) /\ ContentLen(elem[parent]) = 0

NewNode(meta, insert, lines, current) ==
    [nStart |-> IF current THEN m_nNodeOffset ELSE 0,
     nLength |-> IF current THEN m_nNodeLength ELSE 0,
     strMeta |-> meta, insert |-> insert, lines |-> lines, replace |-> FALSE]
Replacement(meta) ==
    [nStart |-> 0, nLength |-> 0, strMeta |-> meta, insert |-> FALSE, lines |-> FALSE, replace |-> TRUE]

TagText(name, data) ==
    IF data = <<>> THEN <<<<"<", name>>, Slash, Gt>>
    ELSE <<<<"<", name>>, Gt>> \o data \o <<<<"</", name>>, Gt>>

\* x_AddElem: AddElem, InsertElem and their child forms.
AddElem(name, data, insert, child, lines) ==
    LET i == m_iPosFree
        parent == IF child THEN m_iPos ELSE m_iPosParent
        text == TagText(name, data)
        Elem(at) ==
             [ClearVirtualParent EXCEPT !.nStart = at, !.nLength = Len(text),
                                        !.nStartTagLen = IF data = <<>> THEN Len(text) ELSE 2,
                                        !.nEndTagLen = IF data = <<>> THEN 0 ELSE 2]
    IN  /\ Room /\ (child => m_iPos # 0)
        /\ "bare" \in Careless \/ ~BareInsert(parent, lines)
        /\ \E new \in {x_InsertNew(elem, parent, IF child THEN m_iPosChild ELSE m_iPos,
                                   NewNode(text, insert, lines, ~child))} :
             /\ m_strDoc' = new.doc
             /\ elem' = x_Adjust(x_LinkElem(With(new.el, i, Elem(new.nStart)), parent, new.before, i),
                                 i, new.nAdjust, FALSE)
        /\ m_iPosFree' = i + 1
        /\ IF child THEN x_SetPos(m_iPosParent, parent, i) ELSE x_SetPos(parent, i, 0)
        /\ UNCHANGED <<m_iPosDeleted, saved>>

\* A fragment is parsed under a virtual parent of its own.
ParseFragment(el, free, frag) ==
    LET p == x_ParseElem(With(el, free, ClearVirtualParent), free + 1, free, frag)
    IN  [el |-> p.el, free |-> p.free, iPos |-> p.root, virtual |-> free,
         ill |-> "illformed" \in p.el[free].flags]

RECURSIVE LinkAll(_, _, _, _)
LinkAll(el, parent, before, i) ==
    IF i = 0 THEN el ELSE LinkAll(x_LinkElem(el, parent, before, i), parent, i, el[i].iElemNext)

\* x_AddSubDoc: AddSubDoc, InsertSubDoc and their child forms.
AddSubDoc(frag, insert, child) ==
    LET parent == IF child THEN m_iPos ELSE m_iPosParent
        Inserted(p, whole, text) ==
            x_InsertNew([p.el EXCEPT ![parent].flags = @ \union (p.el[p.virtual].flags \intersect {"illdata"})],
                        parent, IF child THEN m_iPosChild ELSE m_iPos,
                        NewNode(text, insert, ~whole, ~child))
        Moved(el, i, shift) ==
            IF i = 0 \/ shift = 0 THEN el
            ELSE [x_Adjust(el, i, shift, FALSE) EXCEPT ![i].nStart = @ + shift]
    IN  /\ Room /\ (child => m_iPos # 0)
        /\ \E p \in {ParseFragment(elem, m_iPosFree, frag)} :
           \E whole \in {p.ill \/ p.iPos = 0} :
           \E from \in {IF whole THEN 0 ELSE p.el[p.iPos].nStart}, last \in {p.el[p.iPos].iElemPrev} :
           \E new \in {Inserted(p, whole, IF whole THEN frag ELSE SubSeq(frag, from + 1, StartAfter(p.el[last])))} :
           \E s \in {x_ReleasePos([el |-> LinkAll(Moved(new.el, p.iPos, new.nStart - from),
                                                  parent, new.before, p.iPos),
                                   deleted |-> m_iPosDeleted], p.virtual)} :
             /\ "ill" \in Careless \/ ~whole
             /\ "bare" \in Careless \/ ~BareInsert(parent, ~whole)
             /\ m_strDoc' = new.doc
             /\ elem' = x_Adjust(s.el, last, new.nAdjust, TRUE)
             /\ m_iPosFree' = p.free /\ m_iPosDeleted' = s.deleted
             /\ IF child THEN x_SetPos(m_iPosParent, parent, p.iPos) ELSE x_SetPos(m_iPosParent, p.iPos, 0)
        /\ UNCHANGED saved

RECURSIVE ReParent(_, _, _)
ReParent(el, i, parent) ==
    IF i = 0 THEN el ELSE ReParent([el EXCEPT ![i].iElemParent = parent], el[i].iElemNext, parent)

\* x_SetElemContent: what the current element holds is replaced.
SetElemContent(frag) ==
    LET i == m_iPos
        Moved(el, child, shift) == [x_Adjust(el, child, shift, FALSE) EXCEPT ![child].nStart = @ + shift]
    IN  /\ Room /\ i # 0 /\ m_nNodeLength = 0
        /\ \E s \in {ReleaseSiblings([el |-> elem, deleted |-> m_iPosDeleted], elem[i].iElemChild)} :
           \E p \in {ParseFragment(s.el, m_iPosFree, frag)} :
           \E new \in {x_InsertNew([p.el EXCEPT ![i].flags = (@ \ {"illdata"}) \union
                                                 (p.el[p.virtual].flags \intersect {"illdata"})],
                                   i, 0, Replacement(frag))} :
           \E r \in {x_ReleasePos([el |-> ReParent([Moved(new.el, p.iPos, new.nStart)
                                                       EXCEPT ![i].iElemChild = p.iPos], p.iPos, i),
                                   deleted |-> s.deleted], p.virtual)} :
             /\ "ill" \in Careless \/ (~p.ill /\ p.iPos # 0)
             /\ m_strDoc' = new.doc
             /\ elem' = [x_Adjust(r.el, i, new.nAdjust, TRUE) EXCEPT ![i].nLength = @ + new.nAdjust]
             /\ m_iPosFree' = p.free /\ m_iPosDeleted' = r.deleted
             /\ x_CheckSavedPos(s.el)
        /\ x_SetPos(m_iPosParent, i, 0)

\* x_SetData on an element without children (SetData, SetChildData) ...
SetData(i, data) ==
    /\ Room /\ i # 0 /\ ~(i = m_iPos /\ m_nNodeLength # 0)
    /\ elem[i].iElemChild = 0
    /\ \E new \in {x_InsertNew(elem, i, 0, Replacement(data))} :
         /\ m_strDoc' = new.doc
         /\ elem' = [x_Adjust(new.el, i, new.nAdjust, FALSE)
                        EXCEPT ![i].nLength = @ + new.nAdjust, ![i].flags = @ \ {"illdata"}]
    /\ UNCHANGED <<m_iPosFree, m_iPosDeleted, posVars, saved>>

\* ... and on the current text node or comment.
NodeText(type, data) == IF type = "comment" THEN <<Comment>> ELSE data
SetNodeData(data) ==
    LET text == NodeText(m_nNodeType, data) IN
    /\ Room /\ m_nNodeLength # 0 /\ m_nNodeType \in {"text", "space", "comment"}
    /\ "empty" \in Careless \/ text # <<>>
    /\ m_strDoc' = x_DocChange(m_strDoc, m_nNodeOffset, m_nNodeLength, text)
    /\ elem' = x_AdjustForNode(elem, m_iPosParent, m_iPos, Len(text) - m_nNodeLength)
    /\ m_nNodeLength' = Len(text)
    /\ UNCHANGED <<m_iPosFree, m_iPosDeleted, m_iPosParent, m_iPos, m_iPosChild, m_nNodeType,
                   m_nNodeOffset, saved>>

\* x_SetAttrib on an element: the attribute's value is replaced, or the attribute added.
SetAttrib(i, value) ==
    LET at == elem[i].nStart + 1
        has == At(m_strDoc, at) = Attr
        old == Cardinality({k \in at..TagEnd(m_strDoc, at) : At(m_strDoc, k) = Val})
        text == IF has THEN value ELSE <<Attr>> \o value
        nReplace == IF has THEN old ELSE 0
        nAdjust == Len(text) - nReplace
        grown == [elem EXCEPT ![i].nStartTagLen = @ + nAdjust, ![i].nLength = @ + nAdjust]
    IN  /\ Room /\ i # 0 /\ m_nNodeType = "element"
        /\ m_strDoc' = x_DocChange(m_strDoc, IF has THEN at + 1 ELSE at, nReplace, text)
        /\ elem' = x_Adjust(grown, i, nAdjust, FALSE)
        /\ UNCHANGED <<m_iPosFree, m_iPosDeleted, posVars, saved>>

\* x_RemoveElem, called by RemoveElem and RemoveChildElem: the element and the white
\* space behind it.
RemoveOnlyElem(i) ==
    LET e == elem[i]
        adjusted == x_Adjust(elem, i, -e.nLength, TRUE)
        s == x_UnlinkElem([el |-> adjusted, deleted |-> m_iPosDeleted], i)
    IN  /\ m_strDoc' = x_DocChange(m_strDoc, e.nStart, WhitespaceToTag(m_strDoc, StartAfter(e)) - e.nStart, <<>>)
        /\ elem' = s.el /\ m_iPosDeleted' = s.deleted
        /\ x_CheckSavedPos(s.el)
        /\ UNCHANGED m_iPosFree
x_RemoveElem(i) ==
    LET e == elem[i]
        nLen == WhitespaceToTag(m_strDoc, StartAfter(e)) - e.nStart
        s == x_UnlinkElem([el |-> x_Adjust(elem, i, -nLen, TRUE), deleted |-> m_iPosDeleted], i)
    IN  /\ m_strDoc' = x_DocChange(m_strDoc, e.nStart, nLen, <<>>)
        /\ elem' = s.el /\ m_iPosDeleted' = s.deleted
        /\ x_CheckSavedPos(s.el)
        /\ UNCHANGED m_iPosFree
RemoveElem ==
    /\ Room /\ m_iPos # 0 /\ m_nNodeType = "element"
    /\ x_RemoveElem(m_iPos)
    /\ x_SetPos(m_iPosParent, PrevOf(elem, m_iPos), 0)
RemoveChildElem ==
    /\ Room /\ m_iPosChild # 0
    /\ x_RemoveElem(m_iPosChild)
    /\ x_SetPos(m_iPosParent, m_iPos, PrevOf(elem, m_iPosChild))

\* x_AddNode: a text node, a comment or an empty element, after or before the current node.
AddNode(type, name, insert) ==
    LET text == CASE type = "text" -> <<Text>> [] type = "comment" -> <<Comment>>
                  [] OTHER -> TagText(name, <<>>)
        lines == type = "comment"
        i == m_iPosFree
        Elem(at) == [ClearVirtualParent EXCEPT !.nStart = at, !.nLength = Len(text),
                                               !.nStartTagLen = Len(text)]
    IN  /\ Room /\ ("bare" \in Careless \/ ~BareInsert(m_iPosParent, lines))
        /\ \E new \in {x_InsertNew(elem, m_iPosParent, m_iPos, NewNode(text, insert, lines, TRUE))} :
             /\ m_strDoc' = new.doc
             /\ IF type = "element"
                THEN /\ elem' = x_AdjustForNode(x_LinkElem(With(new.el, i, Elem(new.nStart)),
                                                           m_iPosParent, new.before, i),
                                                m_iPosParent, i, new.nAdjust)
                     /\ m_iPosFree' = i + 1
                     /\ x_SetPos(m_iPosParent, i, 0)
                ELSE /\ elem' = x_AdjustForNode(new.el, m_iPosParent, new.before, new.nAdjust)
                     /\ ToNode(new.before, new, type)
                     /\ UNCHANGED m_iPosFree
        /\ UNCHANGED <<m_iPosDeleted, saved>>

\* RemoveNode: the current node goes, the one before it becomes the current one.
RECURSIVE LastNodeBefore(_, _)
LastNodeBefore(off, stop) ==
    LET n == ParseNode(m_strDoc, off)
    IN  IF off >= stop THEN NotFound.node
        ELSE IF off + n.nLength >= stop THEN n ELSE LastNodeBefore(off + n.nLength, stop)
RemoveNode ==
    LET isElem == m_nNodeType = "element"
        off == IF isElem THEN elem[m_iPos].nStart ELSE m_nNodeOffset
        len == IF isElem THEN elem[m_iPos].nLength ELSE m_nNodeLength
        s == IF isElem THEN x_UnlinkElem([el |-> elem, deleted |-> m_iPosDeleted], m_iPos)
             ELSE [el |-> elem, deleted |-> m_iPosDeleted]
        prev == IF isElem THEN PrevOf(elem, m_iPos) ELSE m_iPos
        start == CASE prev # 0 -> StartAfter(s.el[prev])
                   [] prev = 0 /\ m_iPosParent # 0 -> StartContent(s.el[m_iPosParent])
                   [] OTHER -> 0
        n == LastNodeBefore(start, off)
        none == n.nLength = 0
    IN  /\ Room /\ (m_iPos # 0 \/ m_nNodeLength # 0) /\ m_nNodeType # "lone"
        /\ m_strDoc' = x_DocChange(m_strDoc, off, len, <<>>)
        /\ elem' = x_AdjustForNode(s.el, m_iPosParent, prev, -len)
        /\ m_iPosDeleted' = s.deleted
        /\ IF isElem THEN x_CheckSavedPos(s.el) ELSE UNCHANGED saved
        /\ ToNode(prev, [nStart |-> IF none THEN 0 ELSE n.nStart, nLength |-> IF none THEN 0 ELSE off - n.nStart],
                  CASE none /\ prev # 0 -> "element" [] none /\ prev = 0 -> "none" [] OTHER -> n.type)
        /\ UNCHANGED m_iPosFree

-----------------------------------------------------------------------------
Init ==
    \E doc \in Docs :
        LET p == x_ParseDoc(doc.text) IN
        /\ m_strDoc = doc.text /\ elem = p.el /\ m_iPosFree = p.free /\ m_iPosDeleted = 0
        /\ m_iPosParent = 0 /\ m_iPos = 0 /\ m_iPosChild = 0
        /\ m_nNodeType = "none" /\ m_nNodeOffset = 0 /\ m_nNodeLength = 0
        /\ saved = [n \in Positions |-> NotSaved] /\ edits = doc.edits

Values == {<<>>, <<Val>>}
Data == {<<>>, <<Text>>}
Navigation ==
    \/ \E n \in Names \union {""} : FindElem(n) \/ FindChildElem(n)
    \/ IntoElem \/ OutOfElem \/ Reset
    \/ \E t \in {"any", "text", "element"} : FindNode(t)
    \/ \E n \in Positions : SavePos(n) \/ RestorePos(n)
Edit ==
    \/ \E n \in Names, d \in Data, insert, child, lines \in BOOLEAN :
          AddElem(n, d, insert, child, lines)
    \/ \E f \in Fragments : \/ SetElemContent(f)
                            \/ \E insert, child \in BOOLEAN : AddSubDoc(f, insert, child)
    \/ \E d \in Data : SetData(m_iPos, d) \/ SetData(m_iPosChild, d) \/ SetNodeData(d)
    \/ \E v \in Values : SetAttrib(m_iPos, v) \/ SetAttrib(m_iPosChild, v)
    \/ RemoveElem \/ RemoveChildElem \/ RemoveNode
    \/ \E t \in {"text", "comment", "element"}, n \in Names, insert \in BOOLEAN : AddNode(t, n, insert)
Next == Navigation \/ Edit \/ \E doc \in Docs : SetDoc(doc)
Spec == Init /\ [][Next]_vars

-----------------------------------------------------------------------------
(* Properties. *)

TypeOK ==
    /\ {m_iPosParent, m_iPos, m_iPosChild, m_iPosDeleted} \subseteq DOMAIN elem
    /\ DOMAIN elem = 0..(m_iPosFree - 1)
    /\ m_nNodeType \in {"none", "element", "text", "space", "comment", "lone"}
    /\ m_nNodeOffset \in 0..Len(m_strDoc) /\ m_nNodeLength \in Nat
    /\ \A n \in Positions : saved[n] = NotSaved \/ saved[n].iPos \in DOMAIN elem

(* After any edits of a well-formed document the index is the one a fresh    *)
(* parse of the text would give: the same elements in the same tree at the   *)
(* same places, and the links between siblings and to the parent agree.      *)
RECURSIVE Siblings(_, _)
Siblings(el, i) == IF i = 0 THEN <<>> ELSE <<i>> \o Siblings(el, el[i].iElemNext)
RECURSIVE Tree(_, _)
Tree(el, parent) ==
    LET kids == Siblings(el, el[parent].iElemChild)
        Shape(k) ==
            LET e == el[kids[k]]
            IN  [at |-> <<e.nStart, e.nLength, e.nStartTagLen, e.nEndTagLen>>,
                 linked |-> /\ e.iElemParent = parent
                            /\ e.iElemPrev = kids[IF k = 1 THEN Len(kids) ELSE k - 1]
                            /\ k = 1 <=> "first" \in e.flags
                            /\ "deleted" \notin e.flags,
                 below |-> Tree(el, kids[k])]
    IN  [k \in DOMAIN kids |-> Shape(k)]
AsParsed == Tree(elem, 0) = Tree(x_ParseDoc(m_strDoc).el, 0)
IndexMatchesDoc ==
    "illformed" \notin elem[0].flags =>
        /\ AsParsed
        /\ StartAfter(elem[0]) = Len(m_strDoc) /\ elem[0].nStart = 0

(* The current position and every saved one are elements of the document,    *)
(* the child below the main element and that below the parent, and a current *)
(* node that is not an element lies in the text between them.                *)
RECURSIVE InTree(_, _)
InTree(i, n) == i = 0 \/ (n > 0 /\ "deleted" \notin elem[i].flags /\ InTree(elem[i].iElemParent, n - 1))
PositionsAlive ==
    /\ \A i \in {m_iPosParent, m_iPos, m_iPosChild} : InTree(i, m_iPosFree)
    /\ m_iPos # 0 => elem[m_iPos].iElemParent = m_iPosParent
    /\ m_iPosChild # 0 => elem[m_iPosChild].iElemParent = m_iPos
    /\ \A n \in Positions : saved[n] # NotSaved => InTree(saved[n].iPos, m_iPosFree)
    /\ m_nNodeLength # 0 =>
          /\ m_iPos # 0 => m_nNodeOffset >= StartAfter(elem[m_iPos])
          /\ m_iPosParent # 0 => /\ m_nNodeOffset >= StartContent(elem[m_iPosParent])
                                 /\ m_nNodeOffset + m_nNodeLength <=
                                      StartAfter(elem[m_iPosParent]) - elem[m_iPosParent].nEndTagLen
=============================================================================
