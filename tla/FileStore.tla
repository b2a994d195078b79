------------------------------ MODULE FileStore ------------------------------
(***************************************************************************)
(* What the SDK's users may rely on when they store and fetch files,       *)
(* whatever the network does and however many requests it takes: a name is *)
(* handed out for a whole file only, and a file that is fetched by name is *)
(* the file of that name, all of it and in order.  A fetch may fail; it    *)
(* may also hand back the bytes of the manifest instead of the file.       *)
(***************************************************************************)
CONSTANTS
  Op,             \* operations
  Name,           \* names of files: hashes
  Content,        \* contents of files
  Contents,       \* Contents[h]: the content that h names
  Early           \* names of the files there from the start

VARIABLES
  shelf,          \* names of the files that can be fetched
  ask,            \* ask[o]: what o is asked to do
  outcome         \* outcome[o]: how it ended

store == <<shelf, ask, outcome>>

Nothing == [do |-> "nothing"]
Asks == [do: {"other"}] \cup [do: {"put"}, content: Content] \cup [do: {"get"}, name: Name]
Open == [is |-> "open"]

Init ==
  /\ shelf = Early
  /\ ask = [o \in Op |-> Nothing]
  /\ outcome = [o \in Op |-> Open]

Begin(o) ==
  /\ ask[o] = Nothing
  /\ \E a \in Asks : ask' = [ask EXCEPT ![o] = a]
  /\ UNCHANGED <<shelf, outcome>>

\* A whole file appears at once, because somebody asked for it.
Publish(o) ==
  /\ ask[o].do = "put"
  /\ \E h \in Name \ shelf :
       Contents[h] = ask[o].content /\ shelf' = shelf \cup {h}
  /\ UNCHANGED <<ask, outcome>>

End(o, result) ==
  /\ outcome[o] = Open
  /\ outcome' = [outcome EXCEPT ![o] = result]
  /\ UNCHANGED <<shelf, ask>>

\* The name handed out is that of the file to be stored, and it is there.
Named(o) ==
  /\ ask[o].do = "put"
  /\ \E h \in shelf : Contents[h] = ask[o].content /\ End(o, [is |-> "named", name |-> h])

\* What is fetched is the file of the name asked for, and it is there.
Fetched(o) ==
  /\ ask[o].do = "get"
  /\ ask[o].name \in shelf
  /\ End(o, [is |-> "file", content |-> Contents[ask[o].name]])

Misfetched(o) == ask[o].do = "get" /\ End(o, [is |-> "manifest"])
Failed(o) == ask[o] # Nothing /\ End(o, [is |-> "failed"])
Other(o) == ask[o].do = "other" /\ End(o, [is |-> "other"])

Next ==
  \E o \in Op :
    \/ Begin(o) \/ Publish(o)
    \/ Named(o) \/ Fetched(o) \/ Misfetched(o) \/ Failed(o) \/ Other(o)

Spec == Init /\ [][Next]_store
=============================================================================
