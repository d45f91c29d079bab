----------------------------- MODULE SquadFiles -----------------------------
(***************************************************************************)
(* The tables of team.md and routing.md as ralph-triage.js and             *)
(* squad-triage.yml read them.                                             *)
(*                                                                         *)
(* A document is a sequence of lines. Every comparison of the code is      *)
(* between lower-case strings, so all text is in lower case here; cells    *)
(* are given without the blanks, backquotes and links the code strips.     *)
(***************************************************************************)
EXTENDS Integers, Sequences, SequencesExt

Heading(title) == [kind |-> "heading", title |-> title, cells |-> <<>>]
TableRow(cells) == [kind |-> "row", title |-> "", cells |-> cells]
Separator(width) == TableRow([i \in 1..width |-> "---"])

IsSeparator(cells) == \A i \in DOMAIN cells : cells[i] = "---"

(* String.includes.                                                        *)
Includes(text, part) ==
    \E i \in 0..(Len(text) - Len(part)) : SubSeq(text, i + 1, i + Len(part)) = part

IncludesAny(text, parts) == \E p \in parts : Includes(text, p)

-----------------------------------------------------------------------------
(* Tables. A table is the sequence of the rows of a section, its headers   *)
(* first and separators left out, or empty if there is none.               *)

ParseTableSection(doc, header) ==
    LET start == SelectInSeq(doc, LAMBDA l : l.kind = "heading" /\ l.title = header)
        after == IF start = 0 THEN <<>> ELSE SubSeq(doc, start + 1, Len(doc))
        end == SelectInSeq(after, LAMBDA l : l.kind = "heading")
        section == IF end = 0 THEN after ELSE SubSeq(after, 1, end - 1)
        rows == SelectSeq(section, LAMBDA l : l.kind = "row" /\ ~IsSeparator(l.cells))
    IN [i \in DOMAIN rows |-> rows[i].cells]

FirstPositive(indices) ==
    LET hits == SelectSeq(indices, LAMBDA i : i > 0)
    IN IF hits = <<>> THEN 0 ELSE Head(hits)

(* The column of the first candidate that some header includes, or 0.      *)
FindColumnIndex(headers, candidates) ==
    FirstPositive([c \in DOMAIN candidates |->
                      SelectInSeq(headers, LAMBDA h : Includes(h, candidates[c]))])

Cell(row, column) == IF column \in DOMAIN row THEN row[column] ELSE ""

(* The entries Entry makes of the rows that have both of the columns.      *)
Entries(table, first, second, Entry(_)) ==
    IF table = <<>> \/ first = 0 \/ second = 0 THEN <<>>
    ELSE LET rows == SelectSeq(Tail(table),
                        LAMBDA r : Cell(r, first) # "" /\ Cell(r, second) # "")
         IN [i \in DOMAIN rows |-> Entry(rows[i])]

-----------------------------------------------------------------------------
(* team.md                                                                 *)

LabelOf(name) == "squad:" \o name

Member(name, role) == [name |-> name, role |-> role, label |-> LabelOf(name)]

NoMember == Member("", "")

ParseRoster(team) ==
    LET members == ParseTableSection(team, "members")
        table == IF members # <<>> THEN members
                 ELSE ParseTableSection(team, "team roster")
        headers == IF table = <<>> THEN <<>> ELSE Head(table)
        nameIndex == FindColumnIndex(headers, <<"name">>)
        roleIndex == FindColumnIndex(headers, <<"role">>)
        listed == Entries(table, nameIndex, roleIndex,
                          LAMBDA r : Member(r[nameIndex], r[roleIndex]))
    IN SelectSeq(listed, LAMBDA m : m.name \notin {"scribe", "ralph"})

MemberLabels(roster) == {m.label : m \in ToSet(roster)}

(* squad-triage.yml reads the first two filled cells of every row below    *)
(* either heading, whatever the headers of the table say.                  *)
WorkflowRoster(team) ==
    LET IsMembers(i) == team[i].title \in {"members", "team roster"}
        headings == {i \in DOMAIN team : team[i].kind = "heading"}
        InMembers(i) ==
            LET before == {j \in headings : j < i}
                start == {j \in before : IsMembers(j)}
            IN /\ start # {}
               /\ \A j \in before : IsMembers(j) \/ \A k \in start : j < k
        rows == SelectSeq([i \in DOMAIN team |-> [line |-> team[i], in |-> InMembers(i)]],
                   LAMBDA x : /\ x.in
                              /\ x.line.kind = "row"
                              /\ \A c \in ToSet(x.line.cells) :
                                    ~Includes(c, "---") /\ ~Includes(c, "name"))
        cells == [i \in DOMAIN rows |-> SelectSeq(rows[i].line.cells, LAMBDA c : c # "")]
        members == SelectSeq(cells, LAMBDA c : Len(c) >= 2 /\ c[1] # "scribe")
    IN [i \in DOMAIN members |-> Member(members[i][1], members[i][2])]

-----------------------------------------------------------------------------
(* routing.md                                                              *)

(* Keywords maps a cell of examples to the sequence splitKeywords cuts it  *)
(* into.                                                                   *)
ParseRoutingRules(routing, Keywords) ==
    LET table == ParseTableSection(routing, "work type -> agent")
        headers == IF table = <<>> THEN <<>> ELSE Head(table)
        workTypeIndex == FindColumnIndex(headers, <<"work type", "type">>)
        agentIndex == FindColumnIndex(headers, <<"agent", "route to", "route">>)
        examplesIndex == FindColumnIndex(headers, <<"examples", "example">>)
    IN Entries(table, workTypeIndex, agentIndex,
               LAMBDA r : [agentName |-> r[agentIndex],
                           keywords |-> IF examplesIndex = 0 THEN <<>>
                                        ELSE Keywords[Cell(r, examplesIndex)]])

ParseModuleOwnership(routing) ==
    LET table == ParseTableSection(routing, "module ownership")
        headers == IF table = <<>> THEN <<>> ELSE Head(table)
        moduleIndex == FindColumnIndex(headers, <<"module", "path">>)
        primaryIndex == FindColumnIndex(headers, <<"primary">>)
        secondaryIndex == FindColumnIndex(headers, <<"secondary">>)
        Owner(cell) == IF cell = "-" THEN "" ELSE cell
    IN Entries(table, moduleIndex, primaryIndex,
               LAMBDA r : [modulePath |-> r[moduleIndex],
                           primary |-> r[primaryIndex],
                           secondary |-> Owner(Cell(r, secondaryIndex))])
=============================================================================
