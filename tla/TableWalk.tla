------------------------------- MODULE TableWalk -------------------------------
(***************************************************************************)
(* An ARP or MAC table as heap objects, with the receiver thread that adds *)
(* entries and the CLI thread that prints them.  Neither takes a lock, so  *)
(* the writer's pointer stores happen one at a time and the reader's loop  *)
(* runs between them.                                                      *)
(***************************************************************************)
EXTENDS Integers, FiniteSets, Sequences

CONSTANTS
  Cell,      \* heap blocks for entries (with the glue in them)
  Base,      \* arp_entries or mac_entries of the table
  NULL,
  Key, Value,
  Free,      \* the contents of a block that is not allocated
  ReplacesEqual
    \* TRUE for the ARP table, whose memcmp also compares the glue of a listed
    \* entry with that of a new one; FALSE for the MAC table

ASSUME TableAssumption ==
  /\ IsFiniteSet(Cell)
  /\ Base \notin Cell /\ NULL \notin Cell /\ NULL # Base
  /\ Free \notin Key \X Value /\ Free \notin Value
  /\ ReplacesEqual \in BOOLEAN

VARIABLES
  node,      \* node.left[c] is c->left, node.right[c] is c->right
  entry,     \* [Cell -> <<key, value>> or Free]
  writer,    \* where the receiver thread is in the add, its new and old entry
  todo,      \* pointer stores it has still to do before the next step
  reader,    \* the CLI thread: current and, once read, next
  printed,   \* what the walk has printed
  kept,      \* entries that were listed since the walk began
  raced      \* the receiver thread did something during the walk

vars == <<node, entry, writer, todo, reader, printed, kept, raced>>

Idle == [at |-> "idle", new |-> NULL, old |-> NULL]

(* A store writes one pointer of one object.                               *)
Store(h, st) == [h EXCEPT ![st.field] = [h[st.field] EXCEPT ![st.of] = st.to]]

StoreTo(field, of, to) == [field |-> field, of |-> of, to |-> to]

Object == Cell \cup {Base}

(* The object to the right of c, if there is one.                          *)
Right(h, c) == {h.right[c]} \ {NULL}

(* The entries a loop along the right pointers of h visits from object c:  *)
(* what lies to the right of c, and to the right of what it visits.        *)
RightOf(h, c, seen) == Right(h, c) \subseteq seen /\ \A d \in seen : Right(h, d) \subseteq seen
Chain(h, c) == {d \in Object : \A seen \in SUBSET Object : RightOf(h, c, seen) => d \in seen}

(* The pointers of h after the stores: in each what was stored last.       *)
Hits(stores, field, of) == {k \in 1..Len(stores) : stores[k].field = field /\ stores[k].of = of}
Settled(h, stores, field, of) ==
  LET hits == Hits(stores, field, of) IN
  IF hits = {} THEN h[field][of]
  ELSE stores[CHOOSE k \in hits : \A j \in hits : j <= k].to
After(h, stores) ==
  [left  |-> [c \in Object |-> Settled(h, stores, "left", c)],
   right |-> [c \in Object |-> Settled(h, stores, "right", c)]]

(* What is listed once the pending stores are done.                        *)
Entries == Chain(After(node, todo), Base)

(* The entry with the key.                                                 *)
Hit(entries, k) ==
  LET hits == {c \in entries : entry[c][1] = k} IN
  IF hits = {} THEN NULL ELSE CHOOSE c \in hits : TRUE

(* mac_table_lookup, arp_table_lookup: the writer's own look-up, between   *)
(* adds, when no store is pending.                                         *)
lookup(k) == Hit(Entries, k)
-----------------------------------------------------------------------------
(* The stores of remove_doubly_linkedlist.                                 *)
UnlinkStores(c) ==
  LET l == node.left[c]  r == node.right[c] IN
  IF r = NULL
  THEN <<StoreTo("right", l, NULL), StoreTo("left", c, NULL)>>
  ELSE <<StoreTo("right", l, r), StoreTo("left", r, l),
         StoreTo("left", c, NULL), StoreTo("right", c, NULL)>>

(* Mutant: base->right is read again after it was overwritten.             *)
LinkStoresReread(new) ==
  IF node.right[Base] = NULL
  THEN <<StoreTo("right", Base, new), StoreTo("left", new, Base)>>
  ELSE <<StoreTo("right", Base, new), StoreTo("left", new, Base),
         StoreTo("right", new, new), StoreTo("left", new, new)>>

(* The stores of doubly_linkedlist_add_next(base, new).                    *)
LinkStores(new) ==
  LET temp == node.right[Base] IN
  IF temp = NULL
  THEN <<StoreTo("right", Base, new), StoreTo("left", new, Base)>>
  ELSE <<StoreTo("right", Base, new), StoreTo("left", new, Base),
         StoreTo("right", new, temp), StoreTo("left", temp, new)>>

Init ==
  /\ node = [left  |-> [c \in Object |-> NULL],
             right |-> [c \in Object |-> NULL]]
  /\ entry = [c \in Cell |-> Free]
  /\ writer = Idle /\ todo = <<>>
  /\ reader = [at |-> "idle", current |-> NULL, next |-> NULL]
  /\ printed = {} /\ kept = {} /\ raced = FALSE

(* The receiver thread: calloc and fill a new entry.                       *)
Allocate(k, v) ==
  /\ writer = Idle
  /\ \E new \in Cell :
       /\ entry[new] = Free
       /\ node' = [left  |-> [node.left EXCEPT ![new] = NULL],
                   right |-> [node.right EXCEPT ![new] = NULL]]
       /\ entry' = [entry EXCEPT ![new] = <<k, v>>]
       /\ writer' = [at |-> "lookup", new |-> new, old |-> NULL]
  /\ raced' = TRUE
  /\ UNCHANGED <<todo, reader, printed, kept>>

(* Mutant: an old entry with another value stays in the table.             *)
AddKeepsOld ==
  /\ writer.at = "lookup"
  /\ writer' = [writer EXCEPT !.at = "link"] /\ todo' = LinkStores(writer.new)
  /\ raced' = TRUE
  /\ UNCHANGED <<node, entry, reader, printed, kept>>

(* Mutant: the caller does not free an entry that was not added.           *)
AddLeaksEqual ==
  /\ writer.at = "lookup"
  /\ LET new == writer.new  old == lookup(entry[new][1]) IN
     \/ /\ old = NULL
        /\ writer' = [writer EXCEPT !.at = "link"] /\ todo' = LinkStores(new) /\ UNCHANGED kept
     \/ /\ old # NULL /\ ~ReplacesEqual /\ entry[old] = entry[new]
        /\ writer' = Idle /\ UNCHANGED <<todo, kept>>
     \/ /\ old # NULL /\ (ReplacesEqual \/ entry[old] # entry[new])
        /\ writer' = [at |-> "unlink", new |-> new, old |-> old] /\ todo' = UnlinkStores(old)
        /\ kept' = kept \ {old}
  /\ raced' = TRUE
  /\ UNCHANGED <<node, entry, reader, printed>>

(* The table's add compares with the old entry: an equal new one is freed  *)
(* again, otherwise the old one is unlinked first, if there is one.        *)
Add ==
  /\ writer.at = "lookup"
  /\ LET new == writer.new  old == lookup(entry[new][1]) IN
     \/ /\ old = NULL
        /\ writer' = [writer EXCEPT !.at = "link"] /\ todo' = LinkStores(new)
        /\ UNCHANGED <<entry, kept>>
     \/ /\ old # NULL /\ ~ReplacesEqual /\ entry[old] = entry[new]
        /\ entry' = [entry EXCEPT ![new] = Free] /\ writer' = Idle
        /\ UNCHANGED <<todo, kept>>
     \/ /\ old # NULL /\ (ReplacesEqual \/ entry[old] # entry[new])
        /\ writer' = [at |-> "unlink", new |-> new, old |-> old] /\ todo' = UnlinkStores(old)
        /\ kept' = kept \ {old} /\ UNCHANGED entry
  /\ raced' = TRUE
  /\ UNCHANGED <<node, reader, printed>>

StoreOne ==
  /\ todo # <<>>
  /\ node' = Store(node, Head(todo)) /\ todo' = Tail(todo)
  /\ raced' = TRUE
  /\ UNCHANGED <<entry, writer, reader, printed, kept>>

(* free(old), which leaves the glue at the end of the block as it was;     *)
(* then the new entry is put at the front.                                 *)
FreeOld ==
  /\ writer.at = "unlink" /\ todo = <<>>
  /\ entry' = [entry EXCEPT ![writer.old] = Free]
  /\ writer' = [writer EXCEPT !.at = "link", !.old = NULL] /\ todo' = LinkStores(writer.new)
  /\ raced' = TRUE
  /\ UNCHANGED <<node, reader, printed, kept>>

Added ==
  /\ writer.at = "link" /\ todo = <<>>
  /\ writer' = Idle
  /\ raced' = TRUE
  /\ UNCHANGED <<node, entry, todo, reader, printed, kept>>
-----------------------------------------------------------------------------
(* Mutant: the loop starts at the second entry.                            *)
StartAtSecond ==
  /\ reader.at = "idle"
  /\ reader' = [at |-> "loop", next |-> NULL,
                current |-> IF node.right[Base] = NULL THEN NULL ELSE node.right[node.right[Base]]]
  /\ printed' = {} /\ kept' = Entries \ {writer.new} /\ raced' = (writer # Idle)
  /\ UNCHANGED <<node, entry, writer, todo>>

(* The CLI thread: dump_arp_table or dump_mac_table starts at the base, ... *)
StartWalk ==
  /\ reader.at = "idle"
  /\ reader' = [at |-> "loop", current |-> node.right[Base], next |-> NULL]
  /\ printed' = {} /\ kept' = Entries \ {writer.new} /\ raced' = (writer # Idle)
  /\ UNCHANGED <<node, entry, writer, todo>>

(* ... reads the next pointer before it uses the current entry, ...        *)
ReadNext ==
  /\ reader.at = "loop" /\ reader.current # NULL
  /\ reader' = [reader EXCEPT !.at = "print", !.next = node.right[reader.current]]
  /\ UNCHANGED <<node, entry, writer, todo, printed, kept, raced>>

(* ... prints whatever the block holds, ...                                *)
PrintEntry ==
  /\ reader.at = "print"
  /\ printed' = printed \cup {entry[reader.current]}
  /\ reader' = [at |-> "loop", current |-> reader.next, next |-> NULL]
  /\ UNCHANGED <<node, entry, writer, todo, kept, raced>>

(* ... and ends at NULL.                                                   *)
EndWalk ==
  /\ reader.at = "loop" /\ reader.current = NULL
  /\ reader' = [reader EXCEPT !.at = "idle"]
  /\ UNCHANGED <<node, entry, writer, todo, printed, kept, raced>>

ReceiverThread ==
  \/ \E k \in Key, v \in Value : Allocate(k, v)
  \/ Add \/ StoreOne \/ FreeOld \/ Added

CliThread == StartWalk \/ ReadNext \/ PrintEntry \/ EndWalk

Next == ReceiverThread \/ CliThread

Spec == Init /\ [][Next]_vars
-----------------------------------------------------------------------------
(* For the receiver thread, which alone writes, the table is a function    *)
(* that changes in one step, however many stores the change takes: no key  *)
(* is ever held twice, and replacing one entry loses no other.             *)
Table ==
  LET entries == Entries IN
  [k \in Key |->
     LET old == Hit(entries, k) IN
     IF writer # Idle /\ entry[writer.new][1] = k THEN entry[writer.new][2]
     ELSE IF old = NULL THEN Free ELSE entry[old][2]]

(* The add under way.                                                      *)
Pending == IF writer = Idle THEN Free ELSE entry[writer.new]

A == INSTANCE AtomicTable WITH None <- Free, table <- Table, pending <- Pending

ImplementsAtomicTable == A!Spec

(* Every allocated entry is listed or in the hands of the add, and no      *)
(* listed entry is freed: the add neither leaks nor frees too early.       *)
NothingLeaks ==
  {c \in Cell : entry[c] # Free} = Entries \cup ({writer.new, writer.old} \ {NULL})

(* Between any two stores the right pointers of all objects, also of freed *)
(* ones that the reader may still hold, lead to NULL: a walk that the      *)
(* receiver thread leaves alone from here on ends.                         *)
WalksEnd == \A c \in Cell : c \notin Chain(node, c)

(* A walk during which the receiver thread did nothing prints the table.   *)
WalkAtEnd == reader.at = "loop" /\ reader.current = NULL

UndisturbedWalkPrintsTable ==
  WalkAtEnd /\ ~raced => printed = {entry[c] : c \in Entries}

(* "Iterates over the doubly linked list from the begining to end": a walk *)
(* prints every entry that was listed all the while.  It does not: the     *)
(* walk ends early at an entry that was just unlinked, or at a new one     *)
(* whose right pointer is not yet stored.                                  *)
WalkPrintsKeptEntries ==
  WalkAtEnd => \A c \in kept : entry[c] \in printed
=============================================================================
