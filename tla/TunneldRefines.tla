--------------------------- MODULE TunneldRefines ---------------------------
(***************************************************************************)
(* Tunneld implements NameService: the mapping.  A handler has been asked  *)
(* from the Get that found another key until its Rotate, is let in from    *)
(* the step that reaches reg.add, and serves its name while the registry   *)
(* says so; every other step of a handler is invisible.                    *)
(***************************************************************************)
EXTENDS Tunneld

ASSUME RecordAssumption ==
  /\ None \notin [name : Uniques, key : Keys]
  /\ None \notin [name : Uniques, key : Keys, from : Keys \cup {None}]

askedBy(c) ==
  IF pc[c] \in {"challenge", "proof", "rotate"}
  THEN [name |-> req[c].unique, key |-> req[c].key, from |-> existing[c]]
  ELSE None

grantedTo(c) ==
  IF pc[c] \in {"add"} \cup Registered
  THEN [name |-> req[c].unique, key |-> req[c].key]
  ELSE None

allAsked == [c \in Conns |-> askedBy(c)]

allGranted == [c \in Conns |-> grantedTo(c)]

Abstract == INSTANCE NameService
            WITH Sessions <- Conns, Names <- Uniques, owner <- store,
                 asked <- allAsked, granted <- allGranted, live <- sessions

\* handleRegister, the registry and the store together keep the promise of
\* NameService, however handlers interleave, lose their peers or are cut off
\* by a restart: a free name goes to one claimant, an owned one passes on
\* only by a met challenge, and a session serves a name only after it was let
\* in and alone.
ImplementsNameService == Abstract!Spec
=============================================================================
