---------------------------- MODULE MCRequestPath ----------------------------
(***************************************************************************)
(* Requests for commands, files and the health of a sandbox, the scopes    *)
(* for them granted apart, and the file systems their files may be in.     *)
(***************************************************************************)
EXTENDS RequestPath

MCScopes == {"commands", "files", "health", "sandbox"}
MCGrants == {{"commands", "sandbox"}, {"files", "health"}}

(* Every endpoint as it is meant to be called, a body that cannot be read, *)
(* a wrong method, a path that begins with two slashes, one that is not    *)
(* clean, and one only the proxy knows.                                    *)
Spelled(slashes, name, method, wellFormed) ==
  [path |-> [slashes |-> slashes, name |-> name], method |-> method,
   wellFormed |-> wellFormed]
Shape(name, method, wellFormed) == Spelled(1, name, method, wellFormed)

MCShapes ==
  {Shape("commands", "POST", TRUE), Shape("commands", "POST", FALSE),
   Shape("commands", "GET", TRUE), Shape("files/read", "GET", TRUE),
   Shape("files/write", "POST", TRUE), Shape("healthz", "GET", TRUE),
   Shape("healthz", "POST", TRUE), Shape("process", "POST", TRUE),
   Shape("files/../commands", "POST", TRUE), Spelled(2, "commands", "POST", TRUE)}

(* The root and a directory beside it.  In the root, a and b are missing,  *)
(* files, directories, or links: to each other or themselves, to the root, *)
(* out of it, and to nothing; a directory a may hold another b.            *)
MCRoot == <<"root">>
In(name) == <<"root", name>>

Fixed == {<<"root">>, <<"out">>, <<"out", "b">>}

LinkTargets == {MCRoot, In("a"), In("b"), <<"out">>, <<"out", "b">>, <<"out", "none">>}

Entries == {Dir, File(1), File(MaxFileLen + 1)} \cup {Link(to) : to \in LinkTargets}

MCTrees ==
  UNION {{[p \in Fixed \cup present |->
             IF p \in present THEN node[p]
             ELSE IF p = <<"out", "b">> THEN File(1) ELSE Dir] :
           node \in {f \in [present -> Entries] :
                       <<"root", "a", "b">> \in present => f[In("a")] = Dir}} :
         present \in {s \in SUBSET {In("a"), In("b"), <<"root", "a", "b">>} :
                        <<"root", "a", "b">> \in s => In("a") \in s}}

MCRequested == UNION {[1..n -> {"a", "b", ".."}] : n \in 0..3}
==============================================================================
