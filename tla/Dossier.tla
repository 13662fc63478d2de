------------------------------ MODULE Dossier ------------------------------
(***************************************************************************)
(* The dossier of a campaign (athena-api/src/dossier.rs): which experiments *)
(* a curation keeps, the document in Markdown and in LaTeX, and the checks *)
(* it must pass. A document is a record of its sections, and a section is   *)
(* what it says of the campaign, not how it is laid out.                    *)
(*                                                                         *)
(* `exps` is a sequence of experiments, in the order of their creation; of  *)
(* one, `lineage` is its relation to its parent, `best` and `metric` are    *)
(* the two places of its objective, `parameter` is the setting that varies, *)
(* `at` is when a condition of it last changed. `spec` is a ResearchReport. *)
(***************************************************************************)
EXTENDS Integers, Sequences, SequencesExt, FiniteSets, FiniteSetsExt

CONSTANTS
    None,    \* what is not recorded
    Object   \* a JSON object, where a number is looked for

\* The lists of a report's spec: an empty one keeps every experiment.
\* `about`: the experiment a document is narrowed to; `control`: a text of the
\* frontmatter holds a control character; `cites`: the keys its sections cite.
Curation(Names, Keys) ==
    [included : SUBSET Names, excluded : SUBSET Names, about : Names \cup {None},
     control : BOOLEAN, cites : SUBSET Keys, references : SUBSET Keys,
     seeded : BOOLEAN]

-----------------------------------------------------------------------------
(* The experiments of a document.                                            *)

Named(exps) == {exps[i].name : i \in DOMAIN exps}

\* descendants_of, in rounds: what derives from what is already there.
DescendantsOf(exps, root) ==
    LET within[n \in 0..Len(exps)] ==
            IF n = 0 THEN {root}
            ELSE within[n - 1] \cup
                 {exps[i].name : i \in {j \in DOMAIN exps :
                    exps[j].lineage # None /\ exps[j].parent \in within[n - 1]}}
    IN within[Len(exps)]

\* The filter of curate.
Kept(exps, spec) ==
    {n \in IF spec.about = None THEN Named(exps)
           ELSE Named(exps) \cap DescendantsOf(exps, spec.about) :
        /\ spec.included = {} \/ n \in spec.included
        /\ n \notin spec.excluded}

\* Those with one of these names, in the same order.
Only(exps, names) ==
    LET upTo[n \in 0..Len(exps)] ==
            IF n = 0 THEN <<>>
            ELSE IF exps[n].name \in names THEN Append(upTo[n - 1], exps[n]) ELSE upTo[n - 1]
    IN upTo[Len(exps)]

Curate(exps, spec) == Only(exps, Kept(exps, spec))

\* best_objective: a `best` that is no number gives way to the metric.
Objective(e) == IF e.best \in {None, Object} THEN e.metric ELSE e.best

\* data_cutoff.
Cutoff(exps) == Max({0} \cup {exps[i].at : i \in DOMAIN exps})

\* build_forest: who has no parent in the document is a root.
IsRoot(exps, e) == e.lineage # None /\ e.parent \notin Named(exps)

\* attach: the tree under each root, as the paths from the root to its nodes;
\* a node no root reaches is on no path.
Forest(exps) ==
    LET child(e, p) == e.lineage # None /\ e.parent = p
        paths[n \in 1..Len(exps)] ==
            IF n = 1
            THEN {<<exps[i].name>> : i \in {j \in DOMAIN exps : IsRoot(exps, exps[j])}}
            ELSE UNION {{Append(p, exps[i].name) :
                            i \in {j \in DOMAIN exps : child(exps[j], Last(p))}} :
                        p \in paths[n - 1]}
    IN UNION {paths[n] : n \in 1..Len(exps)}

-----------------------------------------------------------------------------
(* The sections.                                                             *)

Collect(exps, Say(_)) == [i \in DOMAIN exps |-> Say(exps[i])]

Frontmatter(campaign, exps, spec) ==
    [status |-> IF campaign.phase = "Completed" THEN "stable" ELSE "draft",
     at |-> Cutoff(exps), about |-> spec.about, sources |-> spec.references,
     control |-> spec.control]

\* The table of experiments, and the journal, which repeats it in prose.
Table(exps) ==
    Collect(exps, LAMBDA e : [name |-> e.name, objective |-> Objective(e),
                              phase |-> e.phase, decision |-> e.decision])

\* render_tree_node reads `best` alone.
TreeObjective(e) == IF e.best = Object THEN None ELSE e.best

SearchTree(exps) ==
    [paths |-> Forest(exps),
     objective |-> Collect(exps, TreeObjective),
     relations |-> Collect(exps, LAMBDA e : e.lineage)]

Results(campaign) ==
    [best |-> campaign.best, biased |-> campaign.objective]

\* The benchmark runs of the experiments, which the index points to as well.
Benchmarks(exps, runs) ==
    Collect(exps, LAMBDA e : {r \in runs : r.target = e.name})

\* Environment, cost, and the URIs of the artifacts.
Reproducibility(exps) == Collect(exps, LAMBDA e : e.artifacts)

CitationCheck(spec) == [undefined |-> spec.cites \ spec.references,
                        uncited |-> spec.references \ spec.cites]

CitationsOk(spec) == spec.cites = spec.references

\* The section is part of the list of references.
Reconciliation(spec) ==
    IF spec.references # {} /\ ~CitationsOk(spec) THEN CitationCheck(spec) ELSE None

\* cites_to_footnotes, over the sections: every well-formed key, defined or not.
Footnotes(spec) == spec.cites

\* The setting that varies against the objective, when two points can be drawn.
Figure(exps) ==
    LET points == {i \in DOMAIN exps : Objective(exps[i]) # None}
    IN IF Cardinality({exps[i].parameter : i \in DOMAIN exps}) >= 2 /\ Cardinality(points) >= 2
       THEN {<<exps[i].parameter, Objective(exps[i])>> : i \in points}
       ELSE {}

\* render: `exps` are those the curation keeps of the campaign's, `all` in number.
Markdown(campaign, exps, all, runs, spec) ==
    [frontmatter |-> Frontmatter(campaign, exps, spec),
     curated |-> <<Len(exps), all>>,
     footnotes |-> Footnotes(spec),
     table |-> Table(exps),
     tree |-> SearchTree(exps),
     results |-> Results(campaign),
     benchmarks |-> Benchmarks(exps, runs),
     reproducibility |-> Reproducibility(exps),
     seeded |-> spec.seeded,
     references |-> spec.references,
     reconciliation |-> Reconciliation(spec)]

\* render_latex: no frontmatter, no tree, and of the results the biased one.
Latex(campaign, exps, all, runs, spec) ==
    [curated |-> <<Len(exps), all>>,
     citations |-> spec.cites,
     table |-> Table(exps),
     best |-> <<campaign.best, campaign.objective>>,
     benchmarks |-> Benchmarks(exps, runs),
     figure |-> Figure(exps),
     reproducibility |-> Reproducibility(exps),
     seeded |-> spec.seeded,
     bibliography |-> spec.references,
     reconciliation |-> Reconciliation(spec)]

-----------------------------------------------------------------------------
(* The checks.                                                               *)

\* okf_check: both other rules, a closed block and a type, are what render
\* writes first.
Violations(doc) == IF doc.frontmatter.control THEN {"utf8-content"} ELSE {}

\* link_warnings: a citation without a definition, a URI with nothing after
\* its scheme.
LinkWarnings(doc) ==
    (doc.footnotes \ doc.references) \cup
    {doc.reproducibility[i] : i \in {j \in DOMAIN doc.reproducibility :
                                        doc.reproducibility[j] = "Malformed"}}

\* The length of both texts, in experiments: each is told once in either.
Size(doc, tex) == Len(doc.table) + Len(tex.table)
=============================================================================
