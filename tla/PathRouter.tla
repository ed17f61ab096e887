----------------------------- MODULE PathRouter -----------------------------
(***************************************************************************)
(* The filesystem permission rules: XXRouter (util/router.h), a tree of    *)
(* path segments with one handle per operation and a cache of the paths    *)
(* that were found, and PermissionMiddlewareHandle                         *)
(* (middlewares/permission.h), which asks it before a filesystem tool      *)
(* runs.  A path is a sequence of segments (getChild skips leading slashes *)
(* and takes a run of slashes for one); Star is the wildcard.  An agent    *)
(* has one router; the cache is a static thread_local of the template, so  *)
(* all the routers a thread uses share it.                                 *)
(***************************************************************************)
EXTENDS Integers, FiniteSets, Sequences

CONSTANTS
  Routers,      \* the routers of the agents in one process
  Kinds,        \* the operations a handle is for: "read" and "write"
  Segments,     \* the names in the rules and the questions
  Star,         \* the wildcard "*"
  Depth,        \* longest path
  MaxRules,     \* bound of the model: rules set in one router
  Cleared       \* whether somebody calls clear(); nobody in the repository does

Permissions == {"allow", "deny", "interrupt"}
NoRule == "none"

Paths == UNION {[1 .. n -> Segments] : n \in 1 .. Depth}
RulePaths == UNION {[1 .. n -> Segments \union {Star}] : n \in 1 .. Depth}

VARIABLES
  rule,      \* per router: the handles of the nodes that exist
  cache,     \* cacheMap: the node (and its router) a path was found at
  lookup     \* the last question of a tool: the router asked, the path, the
             \* kind, the handle get returned and whether the tool may run

vars == <<rule, cache, lookup>>

NoLookup == [router |-> "nowhere", handle |-> NoRule, allowed |-> FALSE]
NoHandles == [k \in Kinds |-> NoRule]
Bare == [n \in {<<>>} |-> NoHandles]     \* the root alone

TypeOK ==
  /\ \A r \in Routers : /\ DOMAIN rule[r] \subseteq RulePaths \union {<<>>}
                        /\ \A n \in DOMAIN rule[r], k \in Kinds :
                             rule[r][n][k] \in Permissions \union {NoRule}
  /\ DOMAIN cache \subseteq Paths
  /\ lookup.handle \in Permissions \union {NoRule} /\ lookup.allowed \in BOOLEAN

(***************************************************************************)
(* The tree.  A node is named by the segments that lead to it.             *)
(***************************************************************************)
Heads(p) == {SubSeq(p, 1, n) : n \in 0 .. Len(p)}

\* getChild without do_add: a literal child first, never back from it; the
\* wildcard, met anywhere, stands for the rest of the path.
Find(tree, path) ==
  LET known == {p \in Heads(path) : p \in DOMAIN tree}
      deep == CHOOSE p \in known : \A q \in known : Len(q) <= Len(p)
  IN  IF deep = path THEN {path}
      ELSE {Append(deep, Star)} \intersect DOMAIN tree

\* getChild with do_add: the nodes that were missing, without handles.
Grown(tree, path) ==
  [n \in DOMAIN tree \union Heads(path) |->
     IF n \in DOMAIN tree THEN tree[n] ELSE NoHandles]

(***************************************************************************)
(* add, remove, clear                                                      *)
(***************************************************************************)
\* Slip: the paths that the rule does not match are kept.
KeepsOthers(p) == [q \in DOMAIN cache \ {p} |-> cache[q]]

\* What add and remove leave of the thread's cache.
CacheCleared(p) == << >>

AddRule(r, p, k, op) ==
  /\ Cardinality({n \in DOMAIN rule[r] : rule[r][n] # NoHandles}) < MaxRules
  /\ rule' = [rule EXCEPT ![r] = [Grown(@, p) EXCEPT ![p][k] = op]]
  /\ cache' = CacheCleared(p)
  /\ UNCHANGED lookup

\* remove looks like get: a path no rule names takes the wildcard's handle.
\* (Not found, it returns nothing: the guard leaves that call out.)
RemoveRule(r, p, k) ==
  \E n \in Find(rule[r], p) :
    /\ rule' = [rule EXCEPT ![r][n][k] = NoRule]
    /\ cache' = CacheCleared(p)
    /\ UNCHANGED lookup

\* clear deletes the nodes and leaves the cache.
Clear(r) ==
  /\ Cleared
  /\ rule' = [rule EXCEPT ![r] = Bare]
  /\ UNCHANGED <<cache, lookup>>

(***************************************************************************)
(* get, and the question of a tool                                         *)
(***************************************************************************)
\* The node get takes: the cached one when the path is cached.
Node(r, p) ==
  IF p \in DOMAIN cache THEN {cache[p]}
  ELSE {[router |-> r, node |-> n] : n \in Find(rule[r], p)}

Alive(at) == at.node \in DOMAIN rule[at.router]

\* The handle at a node; a deleted node holds anything.
Handles(at, k) ==
  IF Alive(at) THEN {rule[at.router][at.node][k]} ELSE Permissions \union {NoRule}

\* A permission found is cached; an empty one is not.
Get(r, p, k, h) ==
  IF Node(r, p) = {} THEN h = NoRule /\ UNCHANGED cache
  ELSE \E at \in Node(r, p) :
         /\ h \in Handles(at, k)
         /\ cache' = IF h = NoRule \/ p \in DOMAIN cache THEN cache
                     ELSE [q \in DOMAIN cache \union {p} |-> IF q = p THEN at ELSE cache[q]]

\* No rule means allowed; an interrupt is put to the prompter on the bus, and
\* refused when there is none.
Allowed(h) ==
  CASE h \in {"allow", NoRule} -> {TRUE}
    [] h = "deny" -> {FALSE}
    [] h = "interrupt" -> BOOLEAN

\* defOnFilesystemHandle.  The edit tool asks twice: to read, then to write.
Asks(r, p, k) ==
  \E h \in Permissions \union {NoRule} :
    /\ Get(r, p, k, h)
    /\ \E yes \in Allowed(h) :
         lookup' = [router |-> r, path |-> p, kind |-> k, handle |-> h,
                    allowed |-> yes]
    /\ UNCHANGED rule

Init ==
  /\ rule = [r \in Routers |-> Bare]
  /\ cache = << >>
  /\ lookup = NoLookup

Next ==
  \E r \in Routers :
    \/ Clear(r)
    \/ \E p \in RulePaths, k \in Kinds :
         \/ \E op \in Permissions : AddRule(r, p, k, op)
         \/ RemoveRule(r, p, k)
    \/ \E p \in Paths, k \in Kinds : Asks(r, p, k)

Spec == Init /\ [][Next]_vars

(***************************************************************************)
(* Properties                                                              *)
(***************************************************************************)
(* What the cache holds is what a search of the tree finds: the rules of   *)
(* the last add or remove are the ones the next question is judged by.     *)
CacheFresh ==
  \A p \in DOMAIN cache :
    \E r \in Routers : \E n \in Find(rule[r], p) : cache[p] = [router |-> r, node |-> n]

(* (Does not hold with two routers, nor with clear().)  A question is      *)
(* answered from the rules of the router that is asked.                    *)
AnsweredByRules ==
  lookup' # lookup =>
    \/ Find(rule[lookup'.router], lookup'.path) = {} /\ lookup'.handle = NoRule
    \/ \E n \in Find(rule[lookup'.router], lookup'.path) :
         lookup'.handle = rule[lookup'.router][n][lookup'.kind]

OwnRules == [][AnsweredByRules]_vars

Matches(n, p) == Len(n) <= Len(p) /\ \A i \in 1 .. Len(n) : n[i] \in {p[i], Star}

(* (Does not hold.)  permission.h:49: the longest matching rule decides.   *)
LongestRule ==
  \A r \in Routers, p \in Paths, k \in Kinds :
    LET ruled == {n \in DOMAIN rule[r] : Matches(n, p) /\ rule[r][n][k] # NoRule}
    IN  ruled # {} => \E n \in Find(rule[r], p) :
                        /\ n \in ruled
                        /\ \A m \in ruled : Len(m) <= Len(n)
=============================================================================
