------------------------------ MODULE Resolution ------------------------------
(***************************************************************************)
(* resolve: which of the assertions that apply at a valid time and a       *)
(* system time is the answer, under a policy, and which contradict it. The *)
(* query orders its rows by authority and system time, whose ties the      *)
(* database may break either way; the program picks from them. Times are   *)
(* the milliseconds of BitemporalStore.                                    *)
(***************************************************************************)
EXTENDS BitemporalStore, SequencesExt

CONSTANT
    Content     \* assertion -> [object, authority, status, validFrom, validTo]

ASSUME ResolutionAssumption == \A a \in Assertion : Content[a].authority \in Int

Policy == {"none", "latest", "highest_authority"}

-----------------------------------------------------------------------------
(* resolve *)

Valid(a, v) ==
    /\ Content[a].validFrom <= v
    /\ Content[a].validTo = None \/ Content[a].validTo > v

Shown(a) == Content[a].status \notin {"quarantined", "deleted"}

\* The WHERE clause.
Candidates(T, v) == {a \in Visible(T) : Valid(a, v) /\ Shown(a)}

MoreAuthority(a, b) ==
    \/ Content[a].authority > Content[b].authority
    \/ Content[a].authority = Content[b].authority /\ from[a] > from[b]

Later(a, b) == from[a] > from[b]

\* ORDER BY authority DESC, system_from DESC, in every order that this allows.
Results(T, v) ==
    {rows \in SetToSeqs(Candidates(T, v)) :
        \A m, n \in DOMAIN rows : m < n => ~MoreAuthority(rows[n], rows[m])}

\* The head of a stable sort: the first row among the best.
FirstOf(rows, best) == rows[SelectInSeq(rows, LAMBDA a : a \in best)]

\* Mutant: the first row of the result is the answer.
ChooseFirst(rows) == rows[1]

ChooseLatest(rows) ==
    FirstOf(rows, {a \in ToSet(rows) : \A b \in ToSet(rows) : ~Later(b, a)})

ChooseHighestAuthority(rows) ==
    FirstOf(rows, {a \in ToSet(rows) : \A b \in ToSet(rows) : ~MoreAuthority(b, a)})

Objects(S) == {Content[a].object : a \in S}

Answer(status, selected, conflicts) ==
    [status |-> status, selected |-> selected, conflicts |-> conflicts]

\* resolveCandidates
ResolveCandidates(rows, policy) ==
    LET all == ToSet(rows)
        selected == IF policy = "latest" THEN ChooseLatest(rows) ELSE ChooseHighestAuthority(rows)
    IN
    CASE all = {} -> Answer("unknown", None, {})
      [] Cardinality(Objects(all)) = 1 -> Answer("known", ChooseLatest(rows), {})
      [] Cardinality(Objects(all)) > 1 /\ policy = "none" -> Answer("conflicted", None, all)
      [] OTHER -> Answer("resolved_with_conflict", selected,
                         {a \in all : Content[a].object # Content[selected].object})

\* What resolve may answer, for system time T and valid time v.
Answers(T, v, policy) == {ResolveCandidates(rows, policy) : rows \in Results(T, v)}

-----------------------------------------------------------------------------
(* Correctness *)

\* resolve at any system time, valid time and policy: nothing that applies is of
\* greater authority, or from a later millisecond, than what is selected; what
\* contradicts it, and nothing else, is reported, never a version beside the one
\* that superseded it; and there is no answer where the policy gives none. The rows
\* are those of the states without transactions, to which a rollback leads.
SelectionFollowsPolicy ==
    (\A w \in Writer : pc[w] = "idle") /\ (\A r \in Reader : asked[r] = None) =>
        \A T \in Time, v \in Time, policy \in Policy : \A r \in Answers(T, v, policy) :
            LET C == Candidates(T, v)
                agree == \A a, b \in C : Content[a].object = Content[b].object
            IN
            /\ r.status \in {"known", "unknown"} <=> agree
            /\ r.selected = None <=> C = {} \/ (~agree /\ policy = "none")
            /\ \A a \in r.conflicts : Descendants(a) \cap C = {a}
            /\ r.selected # None =>
                /\ r.selected \in C
                /\ r.conflicts = {a \in C : Content[a].object # Content[r.selected].object}
                /\ \A a \in C :
                    IF ~agree /\ policy = "highest_authority"
                    THEN Content[a].authority <= Content[r.selected].authority
                    ELSE from[a] <= from[r.selected]

=============================================================================
