---------------------------- MODULE SandboxFiles ----------------------------
(***************************************************************************)
(* ReadFile and WriteFile of ProcessExecutor (internal/envd/executor.go)   *)
(* over a file system with symbolic links, as operators on trees.  A path  *)
(* is the sequence of its names from the top, a tree maps the paths that   *)
(* exist to nodes, and the contents of a file are its length.  What the    *)
(* kernel does with a path is defined apart from what the code checks.     *)
(***************************************************************************)
EXTENDS Integers, Sequences

CONSTANTS
  Root,         \* the sandbox's directory, canonical and existing
  MaxFileLen,   \* the longest file that is read or written
  MaxLinks,     \* how many links are followed before giving up
  Trees,        \* file systems a command can leave behind
  Requested     \* paths a caller asks for

FilePaths == Seq(STRING)

Dir == [kind |-> "dir"]
File(length) == [kind |-> "file", length |-> length]
Link(to) == [kind |-> "link", to |-> to]
Missing == [kind |-> "missing"]

Node(tree, p) ==
  IF p = << >> THEN Dir ELSE IF p \in DOMAIN tree THEN tree[p] ELSE Missing

(* The first k names of a path, and the ones after them. *)
Ancestor(p, k) == SubSeq(p, 1, k)
Below(p, k) == SubSeq(p, k + 1, Len(p))

IsNode(node) ==
  \/ node.kind = "dir" /\ node = Dir
  \/ node.kind = "file" /\ node.length \in Nat
  \/ node.kind = "link" /\ node.to \in FilePaths

(* Whatever exists is in a directory, and the root is one. *)
IsTree(tree) ==
  /\ DOMAIN tree \subseteq FilePaths \ {<< >>}
  /\ \A p \in DOMAIN tree :
       /\ IsNode(tree[p])
       /\ \A k \in 0..(Len(p) - 1) : Node(tree, Ancestor(p, k)) = Dir
  /\ Node(tree, Root) = Dir

ASSUME TreesAreFileSystems == \A tree \in Trees : IsTree(tree)
ASSUME PathsAreSequences == Root \in FilePaths /\ Requested \subseteq FilePaths
ASSUME FileBounds == MaxFileLen \in Nat /\ MaxLinks \in Nat

Found(path) == [err |-> "none", path |-> path]
Failure(err) == [err |-> err]

(* The result is an error, or what is made of the path that was found. *)
Then(result, Use(_)) == IF result.err = "none" THEN Use(result.path) ELSE result
----------------------------------------------------------------------------
(* The kernel, and filepath.EvalSymlinks.  A path is followed through its  *)
(* directories up to the first name that is not one.                       *)
Reach(tree, p) ==
  CHOOSE k \in 0..Len(p) :
    /\ \A j \in 0..(k - 1) : Node(tree, Ancestor(p, j)) = Dir
    /\ k = Len(p) \/ Node(tree, Ancestor(p, k)) # Dir

ReachedNode(tree, p) == Node(tree, Ancestor(p, Reach(tree, p)))

(* If that is a link, what it says takes the place of the names so far. *)
Redirect(tree, p) ==
  IF ReachedNode(tree, p).kind = "link"
  THEN ReachedNode(tree, p).to \o Below(p, Reach(tree, p)) ELSE p

(* The path after each link, and where it leads; names that are missing    *)
(* stay.                                                                   *)
Redirected(tree, p) ==
  LET after[n \in 0..MaxLinks] == IF n = 0 THEN p ELSE Redirect(tree, after[n - 1])
  IN  after

Place(tree, p) == Redirected(tree, p)[MaxLinks]

(* What there is to find at a path whose links have been followed. *)
Lookup(tree, p) ==
  CASE ReachedNode(tree, p).kind = "link" -> Failure("too many links")
    [] ReachedNode(tree, p).kind = "missing" -> Failure("not exist")
    [] ReachedNode(tree, p).kind = "file" /\ Reach(tree, p) < Len(p) ->
         Failure("not a directory")
    [] OTHER -> Found(p)

EvalSymlinks(tree, p) == Lookup(tree, Place(tree, p))

(* The last name of a path is not followed. *)
Lstat(tree, p) ==
  IF p = << >> THEN Found(p)
  ELSE Then(EvalSymlinks(tree, Ancestor(p, Len(p) - 1)), LAMBDA parent :
    IF Node(tree, parent) # Dir THEN Failure("not a directory")
    ELSE IF Node(tree, Append(parent, p[Len(p)])) = Missing THEN Failure("not exist")
    ELSE Found(p))
----------------------------------------------------------------------------
WithinRoot(p) == Len(Root) <= Len(p) /\ Ancestor(p, Len(Root)) = Root

(* filepath.Join and Clean: .. takes back the name before it. *)
Cleaned(path) ==
  LET at[n \in 0..Len(path)] ==
        IF n = 0 THEN Root
        ELSE IF path[n] # ".." THEN Append(at[n - 1], path[n])
        ELSE IF at[n - 1] = << >> THEN << >>
        ELSE Ancestor(at[n - 1], Len(at[n - 1]) - 1)
  IN  at[Len(path)]

(* The deepest ancestor that exists is resolved, the rest appended. *)
Deepest(tree, target) ==
  CHOOSE k \in 0..Len(target) :
    /\ Lstat(tree, Ancestor(target, k)).err # "not exist"
    /\ \A j \in (k + 1)..Len(target) :
         Lstat(tree, Ancestor(target, j)).err = "not exist"

(* Mutated: the links of the deepest ancestor that exists are not resolved. *)
EvalLexically(tree, target) == Found(target)

EvalWithinRoot(tree, target) ==
  LET k == Deepest(tree, target) IN
  Then(Lstat(tree, Ancestor(target, k)), LAMBDA p :
    Then(EvalSymlinks(tree, p), LAMBDA resolved : Found(resolved \o Below(target, k))))

SafePath(tree, path) ==
  IF path = << >> THEN Failure("invalid")
  ELSE IF ~WithinRoot(Cleaned(path)) THEN Failure("permission")
  ELSE Then(EvalWithinRoot(tree, Cleaned(path)), LAMBDA resolved :
         IF WithinRoot(resolved) THEN Found(Cleaned(path)) ELSE Failure("permission"))

(* createPath takes the same steps, so it fails where safePath has failed. *)
CreatePath(tree, path) == SafePath(tree, path)

(* Mutated: a file as long as the limit is too long. *)
TooLongToRead(length) == length >= MaxFileLen

TooLarge(length) == length > MaxFileLen

ReadFile(tree, path) ==
  Then(SafePath(tree, path), LAMBDA p :
    Then(EvalSymlinks(tree, p), LAMBDA at :
      IF Node(tree, at) = Dir THEN Failure("invalid")
      ELSE IF TooLarge(Node(tree, at).length) THEN Failure("too large")
      ELSE [err |-> "none", path |-> at, length |-> Node(tree, at).length]))

(* The directories above p, and what MkdirAll and WriteFile make of them.  *)
Parents(p) == {Ancestor(p, k) : k \in 1..(Len(p) - 1)}

Stored(tree, p, length) ==
  [q \in DOMAIN tree \cup Parents(p) \cup {p} |->
     IF q = p THEN File(length)
     ELSE IF q \in DOMAIN tree THEN tree[q] ELSE Dir]

StoredAt(tree, place, length) ==
  IF Node(tree, place) = Dir THEN Failure("is a directory")
  ELSE [err |-> "none", tree |-> Stored(tree, place, length)]

OrCreated(tree, path, safe) ==
  IF safe.err = "not exist" THEN CreatePath(tree, path) ELSE safe

WriteFile(tree, path, length) ==
  IF length > MaxFileLen THEN Failure("too large")
  ELSE Then(OrCreated(tree, path, SafePath(tree, path)), LAMBDA p :
         StoredAt(tree, Place(tree, p), length))
----------------------------------------------------------------------------
Lengths == {0, MaxFileLen, MaxFileLen + 1}

ReadsInside(read) == read.err = "none" => WithinRoot(read.path)

WritesInside(tree, written) ==
  written.err = "none" =>
    \A p \in DOMAIN tree \cup DOMAIN written.tree :
      ~WithinRoot(p) => /\ p \in DOMAIN tree \cap DOMAIN written.tree
                        /\ written.tree[p] = tree[p]

(* Nothing outside the root is read or changed, and a path is refused only *)
(* if it really leads outside.                                             *)
Contained ==
  \A tree \in Trees, path \in Requested :
    /\ ReadsInside(ReadFile(tree, path))
    /\ WritesInside(tree, WriteFile(tree, path, 0))
    /\ SafePath(tree, path).err = "permission" =>
         \/ ~WithinRoot(Cleaned(path))
         \/ ~WithinRoot(Place(tree, Cleaned(path)))

(* What has been written under a path is read from it. *)
ReadsBack(path, length, written) ==
  written.err = "none" =>
    \E read \in {ReadFile(written.tree, path)} :
      read.err = "none" /\ read.length = length

RoundTrip ==
  \A tree \in Trees, path \in Requested, length \in Lengths :
    ReadsBack(path, length, WriteFile(tree, path, length))
=============================================================================
