--------------------------- MODULE ResearchMemory ---------------------------
(***************************************************************************)
(* The agent's long-term memory, src/src/research_cycle/research_memory.py:*)
(* a dictionary of entries, the order they were recorded in, and the JSON  *)
(* file both are written to as a whole.  Opening the file for writing      *)
(* truncates it, so recording and saving are two steps.                    *)
(***************************************************************************)
EXTENDS Integers, Sequences, FiniteSets, ResearchDomain

VARIABLES
  entries,   \* entry id (the cycle's number) -> entry, in this process
  byDate,    \* _by_date: the ids in the order they were recorded
  file       \* the JSON file: what a reader would find in it

memoryVars == <<entries, byDate, file>>

(* An entry pairs the cycle's own thesis with the outcome the cycle        *)
(* determined, which is that of the thesis before it (None: no outcome).   *)
Entry == [thesis : Thesis, outcomeOf : Thesis \cup {None}, verified : BOOLEAN]

NoEntries == [id \in {} |-> None]

EmptyFile == [readable |-> TRUE, entries |-> NoEntries, byDate |-> <<>>]
Truncated == [EmptyFile EXCEPT !.readable = FALSE]

EntryMap(m) == DOMAIN m \subseteq Nat /\ \A id \in DOMAIN m : m[id] \in Entry

MemoryTypeOK ==
  /\ EntryMap(entries)
  /\ byDate \in Seq(Nat)
  /\ file.readable \in BOOLEAN /\ EntryMap(file.entries) /\ file.byDate \in Seq(Nat)

MemoryInit ==
  /\ entries = NoEntries
  /\ byDate = <<>>
  /\ file = EmptyFile

(* Mutant: the new id goes to the front of the list.                       *)
RecordEntryFirst(id, entry) ==
  /\ entries' = [i \in DOMAIN entries \cup {id} |->
                   IF i = id THEN entry ELSE entries[i]]
  /\ byDate' = <<id>> \o byDate
  /\ file' = Truncated

(* record_entry, up to the point where _save has opened the file with "w". *)
RecordEntry(id, entry) ==
  /\ entries' = [i \in DOMAIN entries \cup {id} |->
                   IF i = id THEN entry ELSE entries[i]]
  /\ byDate' = Append(byDate, id)
  /\ file' = Truncated

(* json.dump has written everything the process holds.                     *)
SaveCompletes ==
  /\ file' = [readable |-> TRUE, entries |-> entries, byDate |-> byDate]
  /\ UNCHANGED <<entries, byDate>>

(* json.dump raises (a full disk): _save logs it and returns normally.     *)
SaveBreaksOff == UNCHANGED memoryVars

(* __init__ then _load in a new process: the order is read back and the    *)
(* entries are not; an unreadable file gives neither.                      *)
Load ==
  /\ entries' = NoEntries
  /\ byDate' = IF file.readable THEN file.byDate ELSE <<>>
  /\ UNCHANGED file

-----------------------------------------------------------------------------
(* get_recent(n): the entries of the last n ids, newest first, ids without *)
(* an entry dropped; for n = 0 the slice is the whole list.                *)
Recall(n) ==
  LET first == IF n \in 1..Len(byDate) THEN Len(byDate) - n + 1 ELSE 1
      known == {i \in first..Len(byDate) : byDate[i] \in DOMAIN entries}
      Place(k) == CHOOSE i \in known : Cardinality({later \in known : later > i}) = k - 1
  IN  [k \in 1..Cardinality(known) |-> entries[byDate[Place(k)]].thesis]
=============================================================================
