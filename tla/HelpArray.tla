----------------------------- MODULE HelpArray -----------------------------
(***************************************************************************)
(* The help queue as the server keeps it, an array of entries, and what    *)
(* makes it fit to be seen as a set.  HelpQueue has the operations.        *)
(***************************************************************************)
EXTENDS HelpEntries, Sequences

VARIABLES version,    \* HelpQueue.version
          entries,    \* HelpQueue.entries
          accepted    \* history: requests accepted so far

arrayVars == <<version, entries, accepted>>

View == [version |-> version, entries |-> {entries[i] : i \in DOMAIN entries}]

Desk == INSTANCE HelpDesk WITH desk <- View, nreq <- accepted

\* The element HelpRoom schedules for is the array's first.
HeadAgrees == entries # <<>> => HeadEntry(View) = Head(entries)

\* Operation by operation the array is the set of entries of HelpEntries.
ImplementsDesk == Desk!Spec
============================================================================
