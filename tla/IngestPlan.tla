----------------------------- MODULE IngestPlan -----------------------------
(* How a batch of files becomes games: build_ingest_plan of                 *)
(* src/services/library/ingest/planner.rs and the modules it calls.  A      *)
(* batch is a sequence of files; a file is a record                         *)
(*   name    its name, unique in a directory                                *)
(*   title   the number of its title, in the order of the titles            *)
(*   tail    the disc named by a marker at the end of the title, or 0       *)
(*   tokens  the bracketed tokens after it: <<class, value, count>>         *)
(*   stem    what the name is without its last extension                    *)
(*   ext     the last extension, in lower case                              *)
(*   split   it is a volume of a split archive                              *)
(*   refs    the names its manifest lists, in order                         *)
(*   valid   its manifest parses                                            *)
(* The planner works on positions in the batch; 0 is the playlist that      *)
(* Teatro writes itself, whose name is not in the batch.                    *)
EXTENDS SequencesExt, Integers, FiniteSets

(* A loop over positions 1..n that carries a value: TLC keeps the table of  *)
(* plans in LibraryScan only if the loop is a function, not a library fold. *)
Loop(n, start, Body(_, _)) ==
    LET after[k \in 0..n] == IF k = 0 THEN start ELSE Body(after[k - 1], k)
    IN after[n]

DiscImages == {"chd", "iso", "img", "cso", "rvz"}
Descriptors == {"cue", "gdi"}
Manifests == Descriptors \cup {"m3u"}

-----------------------------------------------------------------------------
(* File names: services/ingest/filename.rs *)

TokensOf(file, class) == SelectSeq(file.tokens, LAMBDA t : t[1] = class)

(* parse: the last disc token counts; without one, a marker at the end of   *)
(* the title does and is taken off it.  Every other token tells one edition *)
(* of a title from another.                                                 *)
Parse(file) ==
    LET discs == TokensOf(file, "disc")
        tagged == discs # <<>>
        edition == SelectSeq(file.tokens, LAMBDA t : t[1] # "disc")
    IN [disc  |-> IF tagged THEN Last(discs)[2] ELSE file.tail,
        count |-> IF tagged THEN Last(discs)[3] ELSE 0,
        set   |-> <<file.title, IF tagged THEN file.tail ELSE 0, edition>>]

-----------------------------------------------------------------------------
(* Vocabulary of the planner *)

Missing == -1

Resolve(batch, name) ==
    IF \E i \in DOMAIN batch : batch[i].name = name
      THEN CHOOSE i \in DOMAIN batch : batch[i].name = name
      ELSE Missing

IsDescriptor(file) == file.ext \in Descriptors
HasReferences(file) == IsDescriptor(file) /\ file.refs # <<>>

IndependentRole(file) ==
    CASE file.ext = "m3u"        -> "launch_manifest"
      [] IsDescriptor(file)      -> "descriptor"
      [] file.ext \in DiscImages -> "disc_image"
      [] OTHER                   -> "content"

PlanFile(key, role, sort) == [key |-> key, role |-> role, sort |-> sort]

(* The plan of one game while it is put together. *)
Draft(used, files) == [used |-> used, files |-> files, deps |-> {}, errors |-> {}]

Refuse(draft, code) == [draft EXCEPT !.errors = @ \cup {code}]

Take(draft, i, role, sort, parent) ==
    [draft EXCEPT !.used = @ \cup {i},
                  !.files = Append(@, PlanFile(i, role, sort)),
                  !.deps = @ \cup {<<parent, i>>}]

-----------------------------------------------------------------------------
(* ingest/descriptors.rs *)

AddDescriptorDependencies(batch, d, base, draft) ==
    LET AddTrack(acc, k) ==
          LET i == Resolve(batch, batch[d].refs[k]) IN
          IF i = Missing THEN Refuse(acc, "missing_manifest_dependency")
          ELSE IF i \in acc.used THEN Refuse(acc, "file_used_by_multiple_groups")
          ELSE Take(acc, i, "track", base + k - 1, d)
    IN IF batch[d].refs = <<>> THEN Refuse(draft, "empty_manifest")
       ELSE Loop(Len(batch[d].refs), draft, AddTrack)

PlanDescriptor(batch, d, used) ==
    AddDescriptorDependencies(batch, d, 1,
        Draft(used \cup {d}, <<PlanFile(d, "descriptor", 0)>>))

-----------------------------------------------------------------------------
(* ingest/disc_sets.rs *)

(* A disc of a playlist and, below a descriptor, its tracks. *)
AddDisc(batch, i, k, role, parent, draft) ==
    LET taken == Take(draft, i, role, 10 + 10 * (k - 1), parent)
    IN IF IsDescriptor(batch[i])
         THEN AddDescriptorDependencies(batch, i, 11 + 10 * (k - 1), taken)
         ELSE taken

MutUsedEntry(i, draft, m) == FALSE
(* add_reference lets a playlist list itself. *)
InAnotherGroup(i, draft, m) == i \in draft.used /\ i # m

PlanM3u(batch, m, used) ==
    LET Role(i) == IF IsDescriptor(batch[i]) THEN "descriptor"
                   ELSE IF batch[i].ext \in DiscImages THEN "disc_image" ELSE "content"
        AddReference(acc, k) ==
          LET i == Resolve(batch, batch[m].refs[k]) IN
          IF i = Missing THEN Refuse(acc, "missing_manifest_dependency")
          ELSE IF InAnotherGroup(i, acc, m) THEN Refuse(acc, "file_used_by_multiple_groups")
          ELSE AddDisc(batch, i, k, Role(i), m, acc)
    IN IF batch[m].refs = <<>>
         THEN Refuse(Draft(used, <<>>), "empty_manifest")
         ELSE Loop(Len(batch[m].refs),
                   Draft(used \cup {m}, <<PlanFile(m, "launch_manifest", 0)>>), AddReference)

(* generated_m3u_candidate_key: the discs nothing has used yet. *)
Candidate(batch, i, used) ==
    /\ i \notin used /\ batch[i].ext # "m3u"
    /\ Parse(batch[i]).disc # 0
    /\ batch[i].ext \in DiscImages \/ HasReferences(batch[i])

(* generated_m3u_candidate_groups: several discs of one set, or one disc    *)
(* that says that there are more, in the order of the discs; the sets in    *)
(* the order of their titles.                                               *)
CandidateGroups(batch, used) ==
    LET set == [i \in DOMAIN batch |-> Parse(batch[i])]
        members(i) == {j \in DOMAIN batch : Candidate(batch, j, used) /\ set[j].set = set[i].set}
        before(i, j) == set[i].disc < set[j].disc \/ (set[i].disc = set[j].disc /\ i < j)
        group(i) == SetToSortSeq(members(i), before)
        several(g) == Len(g) > 1 \/ set[g[1]].count > 1 \/ set[g[1]].disc > 1
        groups == {g \in {group(i) : i \in {j \in DOMAIN batch : Candidate(batch, j, used)}} :
                     several(g)}
    IN SetToSortSeq(groups, LAMBDA g, h :
         \/ batch[g[1]].title < batch[h[1]].title
         \/ batch[g[1]].title = batch[h[1]].title /\ g[1] < h[1])

(* validate_generated_disc_set with generated_disc_count *)
DiscSetErrors(batch, discs) ==
    LET parsed == {Parse(batch[discs[k]]) : k \in DOMAIN discs}
        present == {p.disc : p \in parsed}
        count == Max({Len(discs)} \cup present \cup {p.count : p \in parsed})
    IN (IF Cardinality(present) < Len(discs) THEN {"duplicate_disc_index"} ELSE {})
         \cup (IF (1..count) \subseteq present THEN {} ELSE {"missing_disc_file"})

PlanGeneratedM3u(batch, discs, used) ==
    LET Role(i) == IF IsDescriptor(batch[i]) THEN "descriptor" ELSE "disc_image"
        AddCandidate(acc, k) == AddDisc(batch, discs[k], k, Role(discs[k]), 0, acc)
        errors == DiscSetErrors(batch, discs)
    IN IF errors # {}
         THEN [Draft(used, <<>>) EXCEPT !.errors = errors]
         ELSE Loop(Len(discs), Draft(used, <<PlanFile(0, "launch_manifest", 0)>>), AddCandidate)

-----------------------------------------------------------------------------
(* ingest/planner.rs *)

(* collect_planned_rom: what a refused draft used stays used. *)
Collect(plan, draft) ==
    IF draft.errors = {}
      THEN [plan EXCEPT !.used = draft.used,
                        !.roms = Append(@, [files |-> draft.files, deps |-> draft.deps])]
      ELSE [plan EXCEPT !.used = draft.used, !.errors = @ \cup draft.errors]

PlanPlaylists(batch, plan) ==
    Loop(Len(batch), plan, LAMBDA acc, i :
        IF batch[i].ext = "m3u" /\ i \notin acc.used
          THEN Collect(acc, PlanM3u(batch, i, acc.used)) ELSE acc)

PlanDiscSets(batch, plan) ==
    LET groups == CandidateGroups(batch, plan.used)
    IN Loop(Len(groups), plan, LAMBDA acc, k :
              Collect(acc, PlanGeneratedM3u(batch, groups[k], acc.used)))

PlanDescriptors(batch, plan) ==
    Loop(Len(batch), plan, LAMBDA acc, i :
        IF HasReferences(batch[i]) /\ i \notin acc.used
          THEN Collect(acc, PlanDescriptor(batch, i, acc.used)) ELSE acc)

PlanSingles(batch, plan) ==
    Loop(Len(batch), plan, LAMBDA acc, i :
        IF i \in acc.used THEN acc
        ELSE Collect(acc, Draft(acc.used \cup {i},
                                <<PlanFile(i, IndependentRole(batch[i]), 0)>>)))

(* A subchannel file goes to the first game with a disc of its name, and    *)
(* the game it would have been alone goes away.                             *)
Owns(batch, rom, s) ==
    \E k \in DOMAIN rom.files :
      LET f == rom.files[k] IN
        /\ f.role \in {"descriptor", "disc_image"} /\ f.key # 0
        /\ batch[f.key].stem = batch[s].stem

AttachSidecars(batch, plan) ==
    LET Alone(rom, s) == Len(rom.files) = 1 /\ rom.files[1].key = s
        Attach(roms, s) ==
          IF batch[s].ext # "sbi" \/ \A r \in DOMAIN roms : ~Owns(batch, roms[r], s)
            THEN roms
            ELSE LET owner == Min({r \in DOMAIN roms : Owns(batch, roms[r], s)})
                     last == Max({roms[owner].files[k].sort : k \in DOMAIN roms[owner].files})
                     sidecar == PlanFile(s, "metadata_sidecar", last + 1)
                 IN SelectSeq([roms EXCEPT ![owner].files = Append(@, sidecar)],
                              LAMBDA rom : ~Alone(rom, s))
    IN [plan EXCEPT !.roms = Loop(Len(batch), plan.roms, Attach)]

(* prepare_inputs: what is wrong with the files themselves. *)
InputErrors(batch) ==
    LET HasTwin(i) == \E j \in DOMAIN batch : j # i /\ batch[j].name = batch[i].name
    IN (IF \E i \in DOMAIN batch : HasTwin(i) THEN {"duplicate_file_name"} ELSE {})
         \cup (IF \E i \in DOMAIN batch : batch[i].split
                 THEN {"unsupported_split_archive"} ELSE {})
         \cup (IF \E i \in DOMAIN batch : batch[i].ext \in Manifests /\ ~batch[i].valid
                 THEN {"invalid_manifest"} ELSE {})

NoPlan == [used |-> {}, roms |-> <<>>, errors |-> {}]

BuildPlan(batch) ==
    IF InputErrors(batch) # {}
      THEN [NoPlan EXCEPT !.errors = InputErrors(batch)]
      ELSE AttachSidecars(batch, PlanSingles(batch, PlanDescriptors(batch,
             PlanDiscSets(batch, PlanPlaylists(batch, NoPlan)))))
=============================================================================
