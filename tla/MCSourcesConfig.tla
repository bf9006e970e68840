--------------------------- MODULE MCSourcesConfig --------------------------
(* Small instances of SourcesConfig. *)
EXTENDS SourcesConfig

CONSTANTS alice, bob

\* One id: of a github and local pair, of alice's library, of the libraries that
\* members add, and of their default libraries.
MCDefaultId == [u \in Users |-> "notes"]
MCShipped == [id : {"notes"}, owner : {Nobody}, shared : {TRUE}, number : {1, 2}]
MCKept == [id : {"notes"}, owner : {alice}, shared : {TRUE}, number : {1}]

MCOps == {"webAdd", "webUpdate", "webDelete", "custom", "create", "restore", "adminDelete",
          "anyShare", "anyDelete", "userAdd", "userShare", "userDelete"}

=============================================================================
