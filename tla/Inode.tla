------------------------------- MODULE Inode --------------------------------
(***************************************************************************)
(* The inode table and the system calls that change the directory tree:     *)
(* iget, ilock, iput, namex, ialloc, dirlink and their callers in           *)
(* kernel/fs.c and kernel/sysfile.c, run by concurrent processes that hold  *)
(* per-inode sleep-locks.  An in-memory inode is named by its inum.  A step *)
(* is the code between two points at which the process may block or at      *)
(* which another process may see the table; the remaining steps of a        *)
(* process are run[p].code, a sequence of <<step, inode>> pairs.            *)
(*                                                                          *)
(* A directory maps names to inums, 0 meaning no entry; file content is     *)
(* the subject of FileData, the transactions are atomic because of Log:     *)
(* the last end_op() makes the current disk durable.                        *)
(***************************************************************************)
EXTENDS Integers, Sequences, FiniteSets

CONSTANTS
  Procs, Nobody,
  NInodes,        \* sb.ninodes - 1
  NINODE,         \* size of itable
  Names,          \* entry names, "." and ".." among them
  Calls,          \* system calls that processes make: [sys, path, new]
  Image,          \* the tree at boot
  MaxCalls, MaxCrashes

VARIABLES
  disk,           \* inode -> [type, nlink, ents], as the buffer cache has it
  durable,        \* the same, as of the last commit
  ref, valid, ic, lock,   \* itable: ref, valid, cached type and nlink, holder
  cwd, file,      \* per process: current directory, the inode of its open file
  outstanding,    \* log.outstanding, the set of processes inside an operation
  run,            \* per process: remaining code and locals
  calls, crashes

vars == <<disk, durable, ref, valid, ic, lock, cwd, file, outstanding, run,
          calls, crashes>>
table == <<ref, valid, ic, lock>>

ROOT == 1
Inums == 1..NInodes
Free == [type |-> "none", nlink |-> 0, ents |-> [n \in Names |-> 0]]
Idle == [code |-> <<>>, ip |-> 0, dp |-> 0, old |-> 0, path |-> <<>>, name |-> ".",
         parent |-> FALSE, fail |-> <<>>, sys |-> "none", new |-> <<>>]

BootRef == [i \in Inums |-> IF i = ROOT THEN Cardinality(Procs) ELSE 0]
NoCopy == [i \in Inums |-> [type |-> "none", nlink |-> 0]]

Init ==
  /\ disk = Image /\ durable = Image
  /\ ref = BootRef /\ valid = [i \in Inums |-> FALSE] /\ ic = NoCopy
  /\ lock = [i \in Inums |-> Nobody]
  /\ cwd = [p \in Procs |-> ROOT] /\ file = [p \in Procs |-> 0]
  /\ outstanding = {} /\ run = [p \in Procs |-> Idle]
  /\ calls = 0 /\ crashes = 0
-----------------------------------------------------------------------------
Op(p) == IF run[p].code = <<>> THEN "user" ELSE Head(run[p].code)[1]
Arg(p) == Head(run[p].code)[2]
Rest(p) == Tail(run[p].code)
Do(step) == <<step, 0>>
Put(i) == <<"put", i>>
UnlockPut(i) == <<"unlockput", i>>

(* iget() and idup().                                                      *)
Get(i) == ref' = [ref EXCEPT ![i] = @ + 1]

(* The last reference goes: iget() would find the entry empty and start     *)
(* again with valid = 0.                                                   *)
Unget(i) ==
  /\ ref' = [ref EXCEPT ![i] = @ - 1]
  /\ valid' = [valid EXCEPT ![i] = @ /\ ref[i] > 1]
  /\ ic' = [ic EXCEPT ![i] = IF ref[i] > 1 THEN @ ELSE NoCopy[i]]

(* ilock(): wait for the sleep-lock, then read the inode if it is not      *)
(* valid.  After it the table's copy is Loaded(i).                         *)
CanLock(i) == lock[i] = Nobody
Loaded(i) ==
  IF valid[i] THEN ic[i] ELSE [type |-> disk[i].type, nlink |-> disk[i].nlink]
Locked(i, holder, copy) ==
  /\ CanLock(i)
  /\ valid' = [valid EXCEPT ![i] = TRUE]
  /\ ic' = [ic EXCEPT ![i] = copy]
  /\ lock' = [lock EXCEPT ![i] = holder]

(* iupdate() of inode i, whose cached copy becomes c.                      *)
Updated(d, i, c) == [d EXCEPT ![i].type = c.type, ![i].nlink = c.nlink]
Links(c, n) == [c EXCEPT !.nlink = @ + n]

(* dirlookup() and dirlink() of an entry, 0 for none; the inode ialloc()    *)
(* finds among the free ones.                                              *)
dirlookup(d, name) == disk[d].ents[name]
dirlink(dd, d, name, i) == [dd EXCEPT ![d].ents[name] = i]
FreeInodes == {i \in Inums : disk[i].type = "none"}
ialloc == CHOOSE i \in FreeInodes : \A j \in FreeInodes : i <= j

IsDirEmpty(i) == \A n \in Names \ {".", ".."} : disk[i].ents[n] = 0
-----------------------------------------------------------------------------
(* The steps of a system call after namex()'s first lookup.                *)
Code(sys) ==
  CASE sys = "link"   -> <<Do("walk"), Do("linkip"), Do("walk"), Do("linkdp")>>
    [] sys = "unlink" -> <<Do("walk"), Do("unlinkdp")>>
    [] sys \in {"mkdir", "mknod", "create"} -> <<Do("walk"), Do("createdp")>>
    [] sys = "open"   -> <<Do("walk"), Do("openip")>>
    [] sys = "chdir"  -> <<Do("walk"), Do("chdirip")>>

(* begin_op(), and namex()'s start: iget the root or idup the current      *)
(* directory.                                                              *)
Begin(p, c) ==
  /\ Op(p) = "user" /\ calls < MaxCalls
  /\ calls' = calls + 1
  /\ outstanding' = outstanding \cup {p}
  /\ LET start == IF c.abs THEN ROOT ELSE cwd[p]
     IN /\ Get(start)
        /\ run' = [run EXCEPT ![p] =
             [Idle EXCEPT !.code = Code(c.sys), !.ip = start, !.path = c.path,
                          !.parent = c.sys \in {"unlink", "mkdir", "mknod", "create"},
                          !.fail = <<Do("end")>>, !.sys = c.sys, !.new = c.new]]
  /\ UNCHANGED <<disk, durable, valid, ic, lock, cwd, file, crashes>>

(* sys_close(): the descriptor goes first, then fileclose() drops the      *)
(* inode in a transaction.                                                 *)
Close(p) ==
  /\ Op(p) = "user" /\ calls < MaxCalls /\ file[p] # 0
  /\ calls' = calls + 1
  /\ outstanding' = outstanding \cup {p}
  /\ run' = [run EXCEPT ![p] = [Idle EXCEPT !.code = <<Put(file[p]), Do("end")>>]]
  /\ file' = [file EXCEPT ![p] = 0]
  /\ UNCHANGED <<disk, durable, table, cwd, crashes>>

(* end_op(): the last one commits.  chdir() sets p->cwd after it.          *)
End(p) ==
  /\ Op(p) = "end"
  /\ outstanding' = outstanding \ {p}
  /\ durable' = IF outstanding = {p} THEN disk ELSE durable
  /\ cwd' = [cwd EXCEPT ![p] = IF Arg(p) # 0 THEN Arg(p) ELSE @]
  /\ run' = [run EXCEPT ![p] = Idle]
  /\ UNCHANGED <<disk, table, file, calls, crashes>>
-----------------------------------------------------------------------------
(* One turn of namex()'s loop.  The inode is locked, examined and unlocked *)
(* in one step: nothing blocks in between.  Its iput() is a step of its    *)
(* own.                                                                    *)
Walk(p) == LET r == run[p]  i == r.ip IN
  /\ Op(p) = "walk" /\ r.path # <<>>
  /\ Locked(i, Nobody, Loaded(i))
  /\ LET next == dirlookup(i, Head(r.path))
     IN IF Loaded(i).type = "dir" /\ r.parent /\ Len(r.path) = 1
        THEN /\ run' = [run EXCEPT ![p] = [r EXCEPT !.code = Tail(@), !.dp = i, !.ip = 0,
                                            !.name = Head(r.path), !.path = <<>>]]
             /\ UNCHANGED ref
        ELSE IF Loaded(i).type = "dir" /\ next # 0
        THEN /\ Get(next)
             /\ run' = [run EXCEPT ![p] = [r EXCEPT !.code = <<Put(i)>> \o @, !.ip = next,
                                            !.path = Tail(@)]]
        ELSE /\ run' = [run EXCEPT ![p] = [r EXCEPT !.code = <<Put(i)>> \o r.fail,
                                            !.ip = 0, !.path = <<>>]]
             /\ UNCHANGED ref
  /\ UNCHANGED <<disk, durable, cwd, file, outstanding, calls, crashes>>

(* The path is used up: namei() returns ip, nameiparent() fails.           *)
WalkEnds(p) == LET r == run[p] IN
  /\ Op(p) = "walk" /\ r.path = <<>>
  /\ run' = [run EXCEPT ![p] = IF r.parent
                               THEN [r EXCEPT !.code = <<Put(r.ip)>> \o r.fail, !.ip = 0]
                               ELSE [r EXCEPT !.code = Tail(@)]]
  /\ UNCHANGED <<disk, durable, table, cwd, file, outstanding, calls, crashes>>
-----------------------------------------------------------------------------
Mut_LastUse(i) == valid[i] /\ ic[i].nlink = 0
(* iput(): drop the reference, or start to free the inode when it is the   *)
(* last one and there are no links.                                        *)
LastUse(i) == ref[i] = 1 /\ valid[i] /\ ic[i].nlink = 0

Iput(p) == LET i == Arg(p) IN
  /\ Op(p) = "put"
  /\ IF LastUse(i)
     THEN /\ run' = [run EXCEPT ![p].code = <<<<"free", i>>, <<"freed", i>>, <<"drop", i>>>>
                                            \o Tail(@)]
          /\ lock' = [lock EXCEPT ![i] = p] /\ UNCHANGED <<ref, valid, ic>>
     ELSE /\ Unget(i) /\ UNCHANGED lock
          /\ run' = [run EXCEPT ![p].code = Tail(@)]
  /\ UNCHANGED <<disk, durable, cwd, file, outstanding, calls, crashes>>

(* itrunc(), type = 0, iupdate(): from here ialloc() may reuse the inode.  *)
IputFree(p) == LET i == Arg(p) IN
  /\ Op(p) = "free"
  /\ disk' = [disk EXCEPT ![i] = Free]
  /\ ic' = [ic EXCEPT ![i].type = "none"]
  /\ run' = [run EXCEPT ![p].code = Tail(@)]
  /\ UNCHANGED <<durable, ref, valid, lock, cwd, file, outstanding, calls, crashes>>

IputFreed(p) == LET i == Arg(p) IN
  /\ Op(p) = "freed"
  /\ valid' = [valid EXCEPT ![i] = FALSE]
  /\ lock' = [lock EXCEPT ![i] = Nobody]
  /\ run' = [run EXCEPT ![p].code = Tail(@)]
  /\ UNCHANGED <<disk, durable, ref, ic, cwd, file, outstanding, calls, crashes>>

IputDrop(p) ==
  /\ Op(p) = "drop"
  /\ Unget(Arg(p))
  /\ run' = [run EXCEPT ![p].code = Tail(@)]
  /\ UNCHANGED <<disk, durable, lock, cwd, file, outstanding, calls, crashes>>

(* iunlockput().                                                           *)
IunlockPut(p) == LET i == Arg(p) IN
  /\ Op(p) = "unlockput"
  /\ lock' = [lock EXCEPT ![i] = Nobody]
  /\ run' = [run EXCEPT ![p].code = <<Put(i)>> \o Tail(@)]
  /\ UNCHANGED <<disk, durable, ref, valid, ic, cwd, file, outstanding, calls, crashes>>
-----------------------------------------------------------------------------
Mut_LinkIp(p) == LET r == run[p]  i == r.ip IN
  /\ Op(p) = "linkip"
  /\ Locked(i, Nobody, Loaded(i))
  /\ IF Loaded(i).type = "dir"
     THEN /\ UNCHANGED ref
          /\ run' = [run EXCEPT ![p] = [r EXCEPT !.code = <<Put(i), Do("end")>>, !.ip = 0]]
     ELSE /\ Get(ROOT)
          /\ run' = [run EXCEPT ![p] = [r EXCEPT !.code = Tail(@), !.ip = ROOT, !.parent = TRUE,
                                         !.path = r.new, !.old = i,
                                         !.fail = <<Do("linkbad")>>]]
  /\ UNCHANGED <<disk, durable, cwd, file, outstanding, calls, crashes>>
(* sys_link(): count the link first, then look for the new name's          *)
(* directory.                                                              *)
LinkIp(p) == LET r == run[p]  i == r.ip  c == Links(Loaded(i), 1) IN
  /\ Op(p) = "linkip"
  /\ IF Loaded(i).type = "dir"
     THEN /\ Locked(i, Nobody, Loaded(i)) /\ UNCHANGED <<disk, ref>>
          /\ run' = [run EXCEPT ![p] = [r EXCEPT !.code = <<Put(i), Do("end")>>, !.ip = 0]]
     ELSE /\ Locked(i, Nobody, c) /\ disk' = Updated(disk, i, c)
          /\ Get(ROOT)
          /\ run' = [run EXCEPT ![p] = [r EXCEPT !.code = Tail(@), !.ip = ROOT, !.parent = TRUE,
                                         !.path = r.new, !.old = i,
                                         !.fail = <<Do("linkbad")>>]]
  /\ UNCHANGED <<durable, cwd, file, outstanding, calls, crashes>>

(* dirlink() fails if the name exists, or if the directory cannot grow.    *)
LinkDp(p) == LET r == run[p]  d == r.dp IN
  /\ Op(p) = "linkdp"
  /\ Locked(d, Nobody, Loaded(d))
  /\ \/ /\ run' = [run EXCEPT ![p] = [r EXCEPT !.code = <<Put(d), Do("linkbad")>>, !.dp = 0]]
        /\ UNCHANGED disk
     \/ /\ dirlookup(d, r.name) = 0
        /\ disk' = dirlink(disk, d, r.name, r.old)
        /\ run' = [run EXCEPT ![p] = [r EXCEPT !.code = <<Put(d), Put(r.old), Do("end")>>,
                                               !.dp = 0, !.old = 0]]
  /\ UNCHANGED <<durable, ref, cwd, file, outstanding, calls, crashes>>

LinkBad(p) == LET r == run[p]  i == r.old  c == Links(Loaded(i), -1) IN
  /\ Op(p) = "linkbad"
  /\ Locked(i, Nobody, c) /\ disk' = Updated(disk, i, c)
  /\ run' = [run EXCEPT ![p] = [r EXCEPT !.code = <<Put(i), Do("end")>>, !.old = 0]]
  /\ UNCHANGED <<durable, ref, cwd, file, outstanding, calls, crashes>>

(* sys_unlink(): the directory stays locked while the inode is locked.     *)
UnlinkDp(p) == LET r == run[p]  d == r.dp  i == dirlookup(d, r.name) IN
  /\ Op(p) = "unlinkdp"
  /\ IF r.name \in {".", ".."} \/ i = 0
     THEN /\ Locked(d, Nobody, Loaded(d)) /\ UNCHANGED ref
          /\ run' = [run EXCEPT ![p] = [r EXCEPT !.code = <<Put(d), Do("end")>>, !.dp = 0]]
     ELSE /\ Locked(d, p, Loaded(d)) /\ Get(i)
          /\ run' = [run EXCEPT ![p] = [r EXCEPT !.code = <<Do("unlinkip")>>, !.ip = i]]
  /\ UNCHANGED <<disk, durable, cwd, file, outstanding, calls, crashes>>

UnlinkIp(p) == LET r == run[p]  i == r.ip  d == r.dp  dir == Loaded(i).type = "dir" IN
  /\ Op(p) = "unlinkip" /\ CanLock(i)
  /\ valid' = [valid EXCEPT ![i] = TRUE]
  /\ IF dir /\ ~IsDirEmpty(i)
     THEN /\ ic' = [ic EXCEPT ![i] = Loaded(i)] /\ lock' = [lock EXCEPT ![i] = p]
          /\ run' = [run EXCEPT ![p] = [r EXCEPT !.ip = 0, !.dp = 0,
                       !.code = <<UnlockPut(i), UnlockPut(d), Do("end")>>]]
          /\ UNCHANGED disk
     ELSE /\ LET dc == Links(ic[d], IF dir THEN -1 ELSE 0)
             IN /\ ic' = [ic EXCEPT ![i] = Loaded(i), ![d] = dc]
                /\ disk' = Updated([disk EXCEPT ![d].ents[r.name] = 0], d, dc)
          /\ lock' = [lock EXCEPT ![i] = p, ![d] = Nobody]
          /\ run' = [run EXCEPT ![p] = [r EXCEPT !.code = <<Put(d), Do("unlinked")>>,
                                                 !.dp = 0]]
  /\ UNCHANGED <<durable, ref, cwd, file, outstanding, calls, crashes>>

Unlinked(p) == LET r == run[p]  i == r.ip  c == Links(ic[i], -1) IN
  /\ Op(p) = "unlinked"
  /\ ic' = [ic EXCEPT ![i] = c] /\ disk' = Updated(disk, i, c)
  /\ lock' = [lock EXCEPT ![i] = Nobody]
  /\ run' = [run EXCEPT ![p] = [r EXCEPT !.code = <<Put(i), Do("end")>>, !.ip = 0]]
  /\ UNCHANGED <<durable, ref, valid, cwd, file, outstanding, calls, crashes>>
-----------------------------------------------------------------------------
TypeOf(sys) == CASE sys = "mkdir" -> "dir" [] sys = "mknod" -> "device" [] OTHER -> "file"

(* create(): find the name, or ialloc() an inode with the directory locked. *)
CreateDp(p) == LET r == run[p]  d == r.dp  found == dirlookup(d, r.name) IN
  /\ Op(p) = "createdp"
  /\ IF found # 0
     THEN /\ Locked(d, Nobody, Loaded(d)) /\ Get(found) /\ UNCHANGED disk
          /\ run' = [run EXCEPT ![p] = [r EXCEPT !.code = <<Put(d), Do("createfound")>>,
                                                 !.ip = found, !.dp = 0]]
     ELSE IF FreeInodes = {}
     THEN /\ Locked(d, Nobody, Loaded(d)) /\ UNCHANGED <<ref, disk>>
          /\ run' = [run EXCEPT ![p] = [r EXCEPT !.code = <<Put(d), Do("end")>>, !.dp = 0]]
     ELSE LET i == ialloc
          IN /\ Locked(d, p, Loaded(d)) /\ Get(i)
             /\ disk' = [disk EXCEPT ![i] = [Free EXCEPT !.type = TypeOf(r.sys)]]
             /\ run' = [run EXCEPT ![p] = [r EXCEPT !.code = <<Do("createip")>>, !.ip = i]]
  /\ UNCHANGED <<durable, cwd, file, outstanding, calls, crashes>>

CreateFound(p) == LET r == run[p]  i == r.ip IN
  /\ Op(p) = "createfound"
  /\ IF r.sys = "create" /\ Loaded(i).type # "dir"
     THEN /\ Locked(i, p, Loaded(i))
          /\ run' = [run EXCEPT ![p].code = <<Do("openfd")>>]
     ELSE /\ Locked(i, Nobody, Loaded(i))
          /\ run' = [run EXCEPT ![p] = [r EXCEPT !.code = <<Put(i), Do("end")>>, !.ip = 0]]
  /\ UNCHANGED <<disk, durable, ref, cwd, file, outstanding, calls, crashes>>

(* The new inode gets its entries, the directory's own last; dirlink() may *)
(* run out of blocks, and then the inode is given up.                      *)
CreateIp(p) == LET r == run[p]  i == r.ip  d == r.dp  dir == r.sys = "mkdir"
                   c == [Loaded(i) EXCEPT !.nlink = 1]
                   dc == Links(ic[d], IF dir THEN 1 ELSE 0)
                   dots == [Free.ents EXCEPT !["."] = i, ![".."] = d]
                   made == IF dir THEN [disk EXCEPT ![i].ents = dots] ELSE disk IN
  /\ Op(p) = "createip" /\ CanLock(i)
  /\ valid' = [valid EXCEPT ![i] = TRUE]
  /\ \/ /\ ic' = [ic EXCEPT ![i] = [c EXCEPT !.nlink = 0]]
        /\ disk' = Updated(made, i, [c EXCEPT !.nlink = 0])
        /\ lock' = [lock EXCEPT ![i] = p]
        /\ run' = [run EXCEPT ![p] = [r EXCEPT !.ip = 0, !.dp = 0,
                     !.code = <<UnlockPut(i), UnlockPut(d), Do("end")>>]]
     \/ /\ ic' = [ic EXCEPT ![i] = c, ![d] = dc]
        /\ disk' = dirlink(Updated(Updated(made, i, c), d, dc), d, r.name, i)
        /\ lock' = [lock EXCEPT ![i] = p, ![d] = Nobody]
        /\ run' = [run EXCEPT ![p] =
             IF r.sys = "create" THEN [r EXCEPT !.code = <<Put(d), Do("openfd")>>, !.dp = 0]
             ELSE [r EXCEPT !.code = <<Put(d), UnlockPut(i), Do("end")>>, !.ip = 0, !.dp = 0]]
  /\ UNCHANGED <<durable, ref, cwd, file, outstanding, calls, crashes>>

(* sys_open() of an existing path; a directory can only be read.           *)
OpenIp(p) == LET r == run[p]  i == r.ip IN
  /\ Op(p) = "openip"
  /\ \/ /\ Locked(i, p, Loaded(i))
        /\ run' = [run EXCEPT ![p].code = <<Do("openfd")>>]
     \/ /\ Loaded(i).type = "dir" /\ Locked(i, Nobody, Loaded(i))
        /\ run' = [run EXCEPT ![p] = [r EXCEPT !.code = <<Put(i), Do("end")>>, !.ip = 0]]
  /\ UNCHANGED <<disk, durable, ref, cwd, file, outstanding, calls, crashes>>

(* filealloc() and fdalloc(), with ip locked; a process has one descriptor. *)
OpenFd(p) == LET r == run[p]  i == r.ip IN
  /\ Op(p) = "openfd"
  /\ IF file[p] # 0
     THEN /\ UNCHANGED <<file, lock>>
          /\ run' = [run EXCEPT ![p] = [r EXCEPT !.code = <<UnlockPut(i), Do("end")>>, !.ip = 0]]
     ELSE /\ file' = [file EXCEPT ![p] = i]
          /\ lock' = [lock EXCEPT ![i] = Nobody]
          /\ run' = [run EXCEPT ![p] = [r EXCEPT !.code = <<Do("end")>>, !.ip = 0]]
  /\ UNCHANGED <<disk, durable, ref, valid, ic, cwd, outstanding, calls, crashes>>

(* sys_chdir(): the old directory is put before p->cwd changes.            *)
ChdirIp(p) == LET r == run[p]  i == r.ip IN
  /\ Op(p) = "chdirip"
  /\ Locked(i, Nobody, Loaded(i))
  /\ IF Loaded(i).type # "dir"
     THEN /\ run' = [run EXCEPT ![p] = [r EXCEPT !.code = <<Put(i), Do("end")>>, !.ip = 0]]
          /\ UNCHANGED cwd
     ELSE /\ run' = [run EXCEPT ![p] = [r EXCEPT !.code = <<Put(cwd[p]), <<"end", i>>>>,
                                                 !.ip = 0]]
          /\ cwd' = [cwd EXCEPT ![p] = 0]
  /\ UNCHANGED <<disk, durable, ref, file, outstanding, calls, crashes>>
-----------------------------------------------------------------------------
(* Power failure and restart: memory is gone, the log restores the last    *)
(* commit.                                                                 *)
Crash ==
  /\ crashes < MaxCrashes
  /\ crashes' = crashes + 1
  /\ disk' = durable
  /\ ref' = BootRef /\ valid' = [i \in Inums |-> FALSE] /\ ic' = NoCopy
  /\ lock' = [i \in Inums |-> Nobody]
  /\ cwd' = [p \in Procs |-> ROOT] /\ file' = [p \in Procs |-> 0]
  /\ outstanding' = {} /\ run' = [p \in Procs |-> Idle]
  /\ UNCHANGED <<durable, calls>>

Step(p) ==
  \/ \E c \in Calls : Begin(p, c)
  \/ Close(p) \/ End(p) \/ Walk(p) \/ WalkEnds(p)
  \/ Iput(p) \/ IputFree(p) \/ IputFreed(p) \/ IputDrop(p) \/ IunlockPut(p)
  \/ LinkIp(p) \/ LinkDp(p) \/ LinkBad(p)
  \/ UnlinkDp(p) \/ UnlinkIp(p) \/ Unlinked(p)
  \/ CreateDp(p) \/ CreateFound(p) \/ CreateIp(p)
  \/ OpenIp(p) \/ OpenFd(p) \/ ChdirIp(p)

(* Every call has returned.                                                *)
Done == calls = MaxCalls /\ (\A p \in Procs : Op(p) = "user") /\ UNCHANGED vars

Next == Crash \/ Done \/ \E p \in Procs : Step(p)

Spec == Init /\ [][Next]_vars
-----------------------------------------------------------------------------
Count(S) == Cardinality(S)

(* The pointers to inodes that code, descriptors and directories hold, 0   *)
(* for none, with the place each is in.                                    *)
Pointers == UNION {
  {<<p, "cwd", 0, cwd[p]>>, <<p, "file", 0, file[p]>>, <<p, "ip", 0, run[p].ip>>,
   <<p, "dp", 0, run[p].dp>>, <<p, "old", 0, run[p].old>>}
  \cup {<<p, "code", k, run[p].code[k][2]>> :
          k \in {j \in DOMAIN run[p].code : run[p].code[j][1] \notin {"free", "freed"}}} : p \in Procs}

(* ip->ref is exactly the number of pointers to the inode: no path leaks a *)
(* reference or drops one it does not have, and NINODE entries are enough  *)
(* for the inodes in use.                                                  *)
RefExact ==
  LET pointers == Pointers
  IN /\ \A i \in Inums : ref[i] = Count({x \in pointers : x[4] = i})
     /\ Count({i \in Inums : ref[i] > 0}) <= NINODE

(* "Must be called after every change to an ip->xxx field that lives on    *)
(* disk": a valid table entry nobody has locked equals the disk's inode.   *)
CacheMatchesDisk ==
  \A i \in Inums : ref[i] > 0 /\ valid[i] /\ lock[i] = Nobody =>
    ic[i] = [type |-> disk[i].type, nlink |-> disk[i].nlink]

(* The inode a process is about to ilock(), 0 if none.                     *)
Wants(p) ==
  CASE Op(p) = "walk" /\ run[p].path # <<>> -> run[p].ip
    [] Op(p) \in {"linkip", "unlinkip", "createfound", "createip", "openip", "chdirip"} -> run[p].ip
    [] Op(p) \in {"linkdp", "unlinkdp", "createdp"} -> run[p].dp
    [] Op(p) = "linkbad" -> run[p].old
    [] OTHER -> 0

(* None of the panics of these functions is reachable: ilock() never finds *)
(* an inode without a type, dirlookup() never searches something that is   *)
(* not a directory, unlink() never finds an inode without links, and the   *)
(* acquiresleep() in iput() never has to wait while itable.lock is held.   *)
FsNeverPanics ==
  \A p \in Procs : LET i == Wants(p) IN
    /\ i # 0 /\ CanLock(i) => ref[i] > 0 /\ Loaded(i).type # "none"
    /\ Op(p) \in {"linkdp", "unlinkdp", "createdp"} /\ CanLock(i) => Loaded(i).type = "dir"
    /\ Op(p) = "unlinkip" /\ CanLock(i) => Loaded(i).nlink >= 1
    /\ Op(p) = "put" /\ LastUse(Arg(p)) => CanLock(Arg(p))

(* The entries that count as links: the names, and the ".." of each        *)
(* directory that has a name (of the root itself, too).                    *)
Target(d, x) == d[x[1]].ents[x[2]]
Entries(d) ==
  LET dirs == {k \in Inums : d[k].type = "dir"}
      named == {x \in dirs \X (Names \ {".", ".."}) : Target(d, x) # 0}
      found == {ROOT} \cup {Target(d, x) : x \in named}
  IN named \cup {x \in (dirs \cap found) \X {".."} : Target(d, x) # 0}

(* No directory entry names a free inode at any instant, although link()   *)
(* and unlink() change the entry and the link count in different steps.    *)
(* (".." of a directory that is itself unlinked is not covered.)           *)
NoDanglingEntry == \A x \in Entries(disk) : disk[Target(disk, x)].type # "none"

(* After any crash an inode has at least as many links as there are        *)
(* entries for it, so that no sequence of unlinks frees it too early.      *)
DurableLinkCounts ==
  LET entries == Entries(durable)
  IN \A i \in Inums : durable[i].type # "none" =>
       durable[i].nlink >= Count({x \in entries : Target(durable, x) = i})

(* The inode cache as a whole: exact counts, no stale copy, no panic.      *)
InodesSafe == RefExact /\ CacheMatchesDisk /\ FsNeverPanics

(* Directory entries and link counts agree while calls are half done and   *)
(* after any crash.                                                        *)
LinksDurable == NoDanglingEntry /\ DurableLinkCounts
=============================================================================
