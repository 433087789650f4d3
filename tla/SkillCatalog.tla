---------------------------- MODULE SkillCatalog ----------------------------
(* The skills of a workspace where no product layer is registered (the SDK): *)
(* tools/skills.py reads them from .koraku/skills/<slug>/SKILL.md, puts them *)
(* into the prompt as far as they fit, in a text that is cached with the     *)
(* newest of their times, and gives one of them whole to SkillLoad. Whoever  *)
(* edits the directory is external, as is its file system, the times of      *)
(* which are no finer than a tick.                                           *)
EXTENDS Naturals, Sequences, SequencesExt

CONSTANTS Slugs,       \* names of skills, in the order of a directory
          Bundled,     \* those that come with the program
          Sizes,       \* what a skill may be: its size, cut at per_skill_cap
          MaxTotal,    \* skill_catalog_total_max_chars
          MaxTime,     \* bound on the clock
          MaxEdits     \* bound on the edits in a tick

VARIABLES clock,
          edits,       \* edits in this tick
          files,       \* the SKILL.md there are: [some slugs -> [text, at]]
          folders,     \* the directories there are
          root,        \* time of the directory of skills
          pc,          \* where a load of the catalog is
          stamp,       \* the newest of the times it saw
          catalog,     \* _skill_catalog_cache of the workspace: [stamp, it] or Unset
          shown,       \* the catalog in the last prompt
          blurred      \* an edit since stamp left no trace in it

disk == <<clock, edits, files, folders, root>>
vars == <<disk, pc, stamp, catalog, shown, blurred>>

Unset == [none |-> TRUE]
Nothing == [blocks |-> <<>>, total |-> 0, seen |-> {}, hidden |-> {}, full |-> FALSE, cut |-> FALSE]

Init ==
    /\ clock = 1 /\ edits = 0
    /\ files = [s \in {} |-> Unset] /\ folders = {} /\ root = 1
    /\ pc = "idle" /\ stamp = 0
    /\ catalog = Unset /\ shown = Nothing /\ blurred = FALSE
----------------------------------------------------------------------------
(* The directory.                                                           *)

Edit == edits < MaxEdits /\ edits' = edits + 1

\* Edits in the tick of the newest time do not change it, nor does a deletion
\* in a directory of its own.
Blur(quiet) == blurred' = (blurred \/ clock <= stamp \/ quiet)

Write ==
    /\ Edit
    /\ \E s \in ToSet(Slugs), size \in Sizes :
         /\ files' = [r \in DOMAIN files \cup {s} |-> IF r = s THEN [text |-> size, at |-> clock] ELSE files[r]]
         /\ folders' = folders \cup {s}
         /\ root' = IF s \in folders THEN root ELSE clock
    /\ Blur(FALSE)
    /\ UNCHANGED <<clock, pc, stamp, catalog, shown>>

\* The SKILL.md alone, or its directory.
Delete ==
    /\ Edit
    /\ \E s \in DOMAIN files :
         /\ files' = [r \in DOMAIN files \ {s} |-> files[r]]
         /\ \/ folders' = folders /\ root' = root /\ Blur(TRUE)
            \/ folders' = folders \ {s} /\ root' = clock /\ Blur(FALSE)
    /\ UNCHANGED <<clock, pc, stamp, catalog, shown>>

Tick ==
    /\ clock < MaxTime
    /\ clock' = clock + 1 /\ edits' = 0
    /\ UNCHANGED <<files, folders, root, pc, stamp, catalog, shown, blurred>>
----------------------------------------------------------------------------
(* The catalog.                                                             *)

Blocks(there, of(_)) == [i \in 1..Len(there) |-> [slug |-> there[i], text |-> of(there[i])]]
InOrder(ss) == SelectSeq(Slugs, LAMBDA s : s \in ss)
WorkspaceBlocks == Blocks(InOrder(DOMAIN files), LAMBDA s : files[s].text)
BundledBlocks == Blocks(InOrder(DOMAIN Bundled), LAMBDA s : Bundled[s])

\* A block that does not fit ends its list.
AddBlock(c, b) ==
    IF c.full \/ b.slug \in c.hidden THEN c
    ELSE IF c.total + b.text > MaxTotal
    THEN [c EXCEPT !.full = TRUE, !.cut = TRUE, !.seen = @ \cup {b.slug}]
    ELSE [c EXCEPT !.blocks = Append(@, b), !.total = @ + b.text, !.seen = @ \cup {b.slug}]

\* _load_skill_catalog_uncached: those of the workspace, then the bundled ones
\* that none seen before replaces.
Catalog ==
    LET own == FoldLeft(AddBlock, Nothing, WorkspaceBlocks)
    IN  FoldLeft(AddBlock, [own EXCEPT !.hidden = own.seen, !.full = FALSE], BundledBlocks)

\* _skills_tree_max_mtime.
Newest == CHOOSE t \in {root} \cup {files[s].at : s \in DOMAIN files} :
              t >= root /\ \A s \in DOMAIN files : t >= files[s].at

\* load_skill_prompt_section: the times are seen before the texts are read.
See ==
    /\ pc = "idle"
    /\ stamp' = Newest
    /\ IF catalog # Unset /\ catalog.stamp = Newest
       THEN pc' = pc /\ shown' = catalog.it /\ blurred' = blurred
       ELSE pc' = "read" /\ blurred' = FALSE /\ UNCHANGED shown
    /\ UNCHANGED <<disk, catalog>>

Build ==
    /\ pc = "read"
    /\ catalog' = [stamp |-> stamp, it |-> Catalog]
    /\ shown' = Catalog
    /\ pc' = "idle"
    /\ UNCHANGED <<disk, stamp, blurred>>

\* resolve_skill_body.
LoadSkill(s) ==
    IF s \in DOMAIN files THEN files[s].text ELSE IF s \in DOMAIN Bundled THEN Bundled[s] ELSE 0

Next == Write \/ Delete \/ Tick \/ See \/ Build
----------------------------------------------------------------------------
\* The catalog of a prompt stays within its budget. As long as it is cached for
\* the times there are, every skill in it is the one SkillLoad gives, and none
\* that SkillLoad gives is missing if nothing was cut; but for edits the times
\* do not tell, and for skills that were cut and make way for the bundled ones
\* of their name (skills.py:163, 245).
CatalogTrue ==
    /\ shown.total <= MaxTotal
    /\ pc = "idle" /\ catalog # Unset /\ catalog.stamp = Newest /\ ~blurred /\ ~catalog.it.cut =>
         /\ \A i \in DOMAIN catalog.it.blocks : catalog.it.blocks[i].text = LoadSkill(catalog.it.blocks[i].slug)
         /\ \A s \in DOMAIN files \cup DOMAIN Bundled : s \in catalog.it.seen
=============================================================================
