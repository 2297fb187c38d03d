---------------------------- MODULE MCRepositories ----------------------------
(* One pull request, two operations at a time.  Any two operations may     *)
(* meet but two changes of the registry, of which one is a registration.   *)
EXTENDS RepositoriesProperties
Registrar == CHOOSE t \in Tasks: TRUE
AllKinds ==
  [t \in Tasks |->
     IF t = Registrar THEN {"register", "primary", "forget", "unregister", "open", "delete"}
     ELSE {"register", "open", "refresh", "delete", "cleanup"}]
=============================================================================
