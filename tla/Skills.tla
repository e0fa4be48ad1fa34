------------------------------- MODULE Skills -------------------------------
(***************************************************************************)
(* The skill catalog (skills/runtime.go).  Nothing is cached: every        *)
(* request asks the Skills Manager's CLI which skills are enabled and      *)
(* reads the SKILL.md of each of them twice, for its metadata and for its  *)
(* hash; loading a skill reads it a third time.  Meanwhile skills are      *)
(* edited, removed, enabled and disabled by others.                        *)
(*                                                                         *)
(* What a file says is the number of edits it has seen, and the name of    *)
(* the skill, which any edit may change and two skills may share.  Names   *)
(* are numbered in the order of the list and are taken to differ in more   *)
(* than case.  Requests share nothing in the Bridge, so one at a time      *)
(* shows what each can meet.                                               *)
(***************************************************************************)
EXTENDS Integers, FiniteSets

CONSTANTS
  Count,       \* how many skills there are
  Names,       \* how many names there are
  PageSize,    \* limit of a client that walks through the list
  FirstNames,  \* skill -> name: what the files may say at first
  MaxEdits     \* bound: no file is edited once one has been that often

Skills == 1 .. Count
SkillNames == 1 .. Names

ASSUME CountAssumption == Count \in Nat /\ Names \in Nat
ASSUME NamesAssumption == FirstNames \subseteq [Skills -> SkillNames]
ASSUME PageAssumption == PageSize \in Nat \ {0}
ASSUME EditsAssumption == MaxEdits \in Nat

VARIABLES
  enabled,    \* what the Skills Manager has enabled
  readable,   \* the skills whose SKILL.md is there
  version,    \* skill -> edits of its SKILL.md
  name,       \* skill -> the name its SKILL.md gives it
  reading,    \* the request under way and how it ended; begun and stayed are history
  walk        \* a client's walk through the list, page by page, with no other call in
              \* between; stayed and moved are history

library == <<enabled, readable, version, name>>
skillsVars == <<library, reading, walk>>

NoReading == [at |-> "none"]
NoRecords == [s \in {} |-> [name |-> 0, meta |-> 0, hash |-> 0]]

Listed == enabled \cap readable
Ambiguous(S, names) == \E r, s \in S : r # s /\ names[r] = names[s]

NoWalk == [over |-> TRUE, seen |-> {}, stayed |-> {}, moved |-> FALSE]
NewWalk == [offset |-> 0, seen |-> {}, over |-> FALSE, stayed |-> Listed,
            moved |-> Ambiguous(Listed, name)]

SkillsInit ==
  /\ enabled = Skills
  /\ readable = Skills
  /\ version = [s \in Skills |-> 0]
  /\ name \in FirstNames
  /\ reading = NoReading
  /\ walk = NoWalk

----------------------------------------------------------------------------
(***************************************************************************)
(* Those who change the library.  What they do between two requests they   *)
(* may as well do when the second has begun.                               *)
(***************************************************************************)

\* What stayed is still there under its name.  Others are moved in the list by
\* one that is taken off it or renamed, and two of one name may change places.
Change(on, there, contents, names) ==
  /\ reading.at \notin {"none", "done"}
  /\ <<on, there, contents, names>> # library
  /\ enabled' = on
  /\ readable' = there
  /\ version' = contents
  /\ name' = names
  /\ LET still(S) == {s \in S \cap on \cap there : names[s] = name[s]}
     IN  /\ reading' = [reading EXCEPT !.stayed = still(@)]
         /\ walk' = IF walk.over THEN walk ELSE
              [walk EXCEPT !.stayed = still(@),
                           !.moved = \/ @
                                     \/ ~(enabled \subseteq on /\ readable \subseteq there)
                                     \/ \E s \in Listed : names[s] # name[s]
                                     \/ Ambiguous(on \cap there, names)]

Enable(s) == Change(enabled \cup {s}, readable, version, name)
Disable(s) == Change(enabled \ {s}, readable, version, name)
Delete(s) == Change(enabled, readable \ {s}, version, name)

\* The file is written, in one piece.
Edit(s) ==
  /\ \A r \in Skills : version[r] < MaxEdits
  /\ \E n \in SkillNames :
       Change(enabled, readable \cup {s}, [version EXCEPT ![s] = @ + 1], [name EXCEPT ![s] = n])

LibraryChanges == \E s \in Skills : Enable(s) \/ Disable(s) \/ Delete(s) \/ Edit(s)

----------------------------------------------------------------------------
(***************************************************************************)
(* A request: kind is "list", "route", "load" or "resource", wanted the    *)
(* name of the skill that is asked for.                                    *)
(***************************************************************************)

AskSkills(kind, wanted) ==
  /\ reading' = [at |-> "cli", kind |-> kind, wanted |-> wanted, begun |-> version,
                 stayed |-> Listed]
  /\ walk' = CASE kind # "list" -> NoWalk
              [] kind = "list" /\ walk.over -> NewWalk
              [] OTHER -> walk
  /\ UNCHANGED library

At(place) == reading.at = place

\* How the request ends: the records it shows and the edit its text shows.
Done(code, records, text) ==
  /\ reading' = [at |-> "done", kind |-> reading.kind, wanted |-> reading.wanted,
                 begun |-> reading.begun, stayed |-> reading.stayed,
                 code |-> code, records |-> records, text |-> text]
  /\ UNCHANGED library

RefuseSkills(code) == Done(code, NoRecords, {}) /\ UNCHANGED walk

\* The library or the CLI is not there, fails, or prints what is not understood.
CliFails == At("cli") /\ RefuseSkills("skills_unavailable")

\* The loop over the enabled skills that the CLI named; todo is left of them.
Collecting(todo, records) ==
  [at |-> "text", kind |-> reading.kind, wanted |-> reading.wanted, begun |-> reading.begun,
   stayed |-> reading.stayed, todo |-> todo, records |-> records]

CliAnswers ==
  /\ At("cli")
  /\ reading' = Collecting(enabled, NoRecords)
  /\ UNCHANGED <<library, walk>>

\* os.ReadFile for the metadata; a skill without SKILL.md is passed over.
ReadText ==
  /\ At("text")
  /\ \E s \in reading.todo :
       reading' = IF s \in readable
                  THEN [at |-> "hash", kind |-> reading.kind, wanted |-> reading.wanted,
                        begun |-> reading.begun, stayed |-> reading.stayed,
                        todo |-> reading.todo, records |-> reading.records,
                        current |-> s, meta |-> version[s], name |-> name[s]]
                  ELSE Collecting(reading.todo \ {s}, reading.records)
  /\ UNCHANGED <<library, walk>>

\* Mutant of ReadHash: the record takes the place of those read before.
ReadHashReplaces ==
  /\ At("hash")
  /\ LET s == reading.current
     IN  IF s \in readable
         THEN /\ reading' = Collecting(reading.todo \ {s}, [r \in {s} |->
                   [name |-> reading.name, meta |-> reading.meta, hash |-> version[s]]])
              /\ UNCHANGED <<library, walk>>
         ELSE RefuseSkills("skills_unavailable")

\* hashFile reads it again; the whole request fails if it is gone.
ReadHash ==
  /\ At("hash")
  /\ LET s == reading.current
     IN  IF s \in readable
         THEN /\ reading' = Collecting(reading.todo \ {s}, [r \in DOMAIN reading.records \cup {s} |->
                   IF r = s THEN [name |-> reading.name, meta |-> reading.meta, hash |-> version[s]]
                            ELSE reading.records[r]])
              /\ UNCHANGED <<library, walk>>
         ELSE RefuseSkills("skills_unavailable")

Collected == At("text") /\ reading.todo = {}

Only(S) == [s \in S \cap DOMAIN reading.records |-> reading.records[s]]

\* The records in the order of their names; where two have one name, sort.Slice
\* may leave either before the other.
Tiebreaks == {tie \in [Skills -> Skills] : \A r, s \in Skills : tie[r] = tie[s] => r = s}

Before(r, s, tie) ==
  LET first == reading.records[r].name
      second == reading.records[s].name
  IN  first < second \/ (first = second /\ tie[r] < tie[s])

\* SkillsList: the next page of the walk.
Page(tie) ==
  LET found == DOMAIN reading.records
      place(s) == Cardinality({r \in found : Before(r, s, tie)})
      upto == IF walk.offset + PageSize < Cardinality(found)
              THEN walk.offset + PageSize
              ELSE Cardinality(found)
  IN  [shown |-> {s \in found : place(s) \in walk.offset .. upto - 1},
       upto |-> upto, more |-> upto < Cardinality(found)]

Show(page, offset) ==
  /\ Done("ok", Only(page.shown), {})
  /\ walk' = [walk EXCEPT !.offset = offset, !.seen = @ \cup page.shown, !.over = ~page.more]

\* Mutant of AnswerList: next_offset is one past the skill that is next.
AnswerListSkips ==
  /\ Collected
  /\ reading.kind = "list"
  /\ \E tie \in Tiebreaks : Show(Page(tie), Page(tie).upto + 1)

AnswerList ==
  /\ Collected
  /\ reading.kind = "list"
  /\ \E tie \in Tiebreaks : Show(Page(tie), Page(tie).upto)

\* Which skills score, and are not cut off by the limit, depends on the texts.
AnswerRoute ==
  /\ Collected
  /\ reading.kind = "route"
  /\ \E chosen \in SUBSET Skills : Done("ok", Only(chosen), {})
  /\ UNCHANGED walk

\* record: one of the records has the name, or no enabled skill has it.
FindRecord ==
  /\ Collected
  /\ reading.kind \in {"load", "resource"}
  /\ LET named == {s \in DOMAIN reading.records : reading.records[s].name = reading.wanted}
     IN  IF named # {}
         THEN /\ \E s \in named : reading' = [reading EXCEPT !.at = "file", !.records = Only({s})]
              /\ UNCHANGED <<library, walk>>
         ELSE RefuseSkills("skill_unavailable")

\* Mutant of LoadText: the text that was read for the metadata.
LoadTextFromRecord ==
  /\ At("file")
  /\ reading.kind = "load"
  /\ \E s \in DOMAIN reading.records : Done("ok", reading.records, {reading.records[s].meta})
  /\ UNCHANGED walk

LoadText ==
  /\ At("file")
  /\ reading.kind = "load"
  /\ \E s \in DOMAIN reading.records :
       IF s \in readable
       THEN Done("ok", reading.records, {version[s]}) /\ UNCHANGED walk
       ELSE RefuseSkills("skills_unavailable")

\* A file of the skill other than its SKILL.md, hashed from what was read.
LoadResource ==
  /\ At("file")
  /\ reading.kind = "resource"
  /\ \E code \in {"ok", "resource_unavailable"} : RefuseSkills(code)

SkillsStep ==
  ReadText \/ ReadHash \/ AnswerList \/ AnswerRoute \/ FindRecord \/ LoadText \/ LoadResource

----------------------------------------------------------------------------
(***************************************************************************)
(* Properties.                                                             *)
(***************************************************************************)

\* Nothing shown is older than the request: neither the metadata and hashes of
\* the catalog nor a skill's text; and a text is not older than the hash it
\* comes with.  Edits that fall between the reads may make it newer.
FreshAnswers ==
  At("done") =>
    \A s \in DOMAIN reading.records :
      LET record == reading.records[s]
      IN  /\ reading.begun[s] <= record.meta
          /\ record.meta <= record.hash
          /\ \A t \in reading.text : record.hash <= t

\* A skill that is denied (skill_unavailable) was, at some time of the request,
\* not enabled, not there or not of that name, whatever else changed meanwhile.
DeniedSkillsWereAway ==
  At("done") /\ reading.code = "skill_unavailable" =>
    \A s \in reading.stayed : name[s] # reading.wanted

\* A client that follows next_offset to the end has seen every skill that was
\* there all the while, even if others were added between the pages or during
\* one, unless skills were moved past its offset: by one that was disabled,
\* deleted or renamed, or because two had the same name.
PagesMissNothing == walk.over /\ ~walk.moved => walk.stayed \subseteq walk.seen
=============================================================================
