--------------------------- MODULE FileDescriptor ---------------------------
(***************************************************************************)
(* class FileDescriptor and its FDWrapper (libsponge/util/                 *)
(* file_descriptor.hh, file_descriptor.cc): reference-counted handles on   *)
(* kernel descriptors, in one process whose kernel gives a freed number to *)
(* the next file it opens.                                                 *)
(*                                                                         *)
(* A handle is a FileDescriptor object; it points to a wrapper, or to none *)
(* before its construction, after its destruction and once it has been     *)
(* moved from.  The file a wrapper was constructed for is remembered in    *)
(* own[w], which no member of the code holds: the code knows the number    *)
(* only.  A call on a handle that points nowhere is undefined and not      *)
(* modelled.  A call that throws is one that changes less: nothing records *)
(* the exception.                                                          *)
(***************************************************************************)
EXTENDS Naturals, FiniteSets, FiniteSetsExt

CONSTANTS Handle,        \* FileDescriptor objects
          None,          \* a null _internal_fd; a number that is not open
          MaxFd,         \* descriptor numbers are 0..MaxFd
          MaxFiles,      \* bound on the files ever opened; one wrapper each
          CountMod,      \* the range of the unsigned service counts
          MaxWritev      \* bound on the system calls of one write()

ASSUME FileDescriptorAssumption ==
  /\ MaxFd \in Nat /\ MaxFiles \in Nat
  /\ CountMod \in Nat \ {0} /\ MaxWritev \in Nat
  /\ None \notin 1..MaxFiles

VARIABLES
  table,     \* kernel: the file each number stands for
  opened,    \* kernel: files opened so far, 1..opened
  handle,    \* handle[h]: the wrapper _internal_fd points to
  wrapper,   \* wrapper[w]: the members of w, and whether w is constructed
  touched,   \* the file the last step reached through which wrapper
  lapsed     \* history: a close() has failed, or a call has followed a close()

vars == <<table, opened, handle, wrapper, touched, lapsed>>

FdNum == 0..MaxFd
File == 1..MaxFiles
Wrapper == 1..MaxFiles

WrapperState ==
  [fd : FdNum, eof : BOOLEAN, closed : BOOLEAN,
   read_count : 0..CountMod - 1, write_count : 0..CountMod - 1, live : BOOLEAN]

\* The FDWrapper constructor.
NewWrapper(n, live) ==
  [fd |-> n, eof |-> FALSE, closed |-> FALSE,
   read_count |-> 0, write_count |-> 0, live |-> live]

\* Wrapper w is constructed on the w-th file that is opened.
own(w) == w

IsOpen(file) == \E n \in FdNum : table[n] = file

Points(w) == {h \in Handle : handle[h] = w}

NoTouch == [via |-> None, file |-> None]

Init ==
  /\ table = [n \in FdNum |-> None]
  /\ opened = 0
  /\ handle = [h \in Handle |-> None]
  /\ wrapper = [w \in Wrapper |-> NewWrapper(0, FALSE)]
  /\ touched = NoTouch
  /\ lapsed = FALSE
-----------------------------------------------------------------------------
(***************************************************************************)
(* close(2).  When it fails with anything but EBADF, Linux has released    *)
(* the number all the same.                                                *)
(***************************************************************************)
CloseResult(n) == IF table[n] = None THEN {"EBADF"} ELSE {"ok", "EIO"}

\* A call on the number of w: the file it reaches through which wrapper.
Touch(w) == [via |-> w, file |-> table[wrapper[w].fd]]

\* The system call made by FDWrapper::close(), which does not look at _closed.
CloseNumber(numbers, s) == [numbers EXCEPT ![s.fd] = None]

MustCloseAlways(s) == TRUE

MustCloseNever(s) == FALSE

\* The test of FDWrapper::~FDWrapper().
MustClose(s) == ~s.closed

\* FDWrapper::~FDWrapper() of a wrapper in state s, which swallows what
\* close() throws.  The flags and counts go with the memory.
Destroyed(numbers, s) == IF MustClose(s) THEN CloseNumber(numbers, s) ELSE numbers

Dead(s) == NewWrapper(s.fd, FALSE)

Destroy(w) ==
  /\ wrapper' = [wrapper EXCEPT ![w] = Dead(@)]
  /\ table' = Destroyed(table, wrapper[w])

AnyReference(h) == handle[h] # None

\* h is the only shared_ptr to its wrapper.
LastReference(h) == handle[h] # None /\ Points(handle[h]) = {h}

\* The shared_ptr of h lets go of its wrapper: the last one destroys it.
LetGo(h) ==
  IF LastReference(h) THEN Destroy(handle[h]) ELSE UNCHANGED <<table, wrapper>>

TouchedByLetGo(h) ==
  IF LastReference(h) /\ MustClose(wrapper[handle[h]]) THEN Touch(handle[h]) ELSE NoTouch
-----------------------------------------------------------------------------
(***************************************************************************)
(* The operations of FileDescriptor.                                       *)
(***************************************************************************)

FreeNumbers == {n \in FdNum : table[n] = None}

\* FileDescriptor(fd), on a number the kernel has just returned: the lowest
\* free one.  With none free open(2) returns -1, and the constructor throws.
Construct(h) ==
  /\ handle[h] = None
  /\ opened < MaxFiles
  /\ touched' = NoTouch
  /\ IF FreeNumbers = {}
     THEN UNCHANGED <<table, opened, handle, wrapper>>
     ELSE /\ opened' = opened + 1
          /\ table' = [table EXCEPT ![Min(FreeNumbers)] = opened']
          /\ wrapper' = [wrapper EXCEPT ![opened'] = NewWrapper(Min(FreeNumbers), TRUE)]
          /\ handle' = [handle EXCEPT ![h] = opened']
  /\ UNCHANGED lapsed

\* TunTapFD(devname, is_tun), whose ioctl(2) fails: the exception leaves the
\* constructor when the FileDescriptor in it exists, so its destructor runs.
\* (When the ioctl(2) succeeds, or open(2) fails, it is Construct.)
TunTapFDThrows(h) ==
  LET s == NewWrapper(Min(FreeNumbers), TRUE) IN
  /\ handle[h] = None
  /\ opened < MaxFiles /\ FreeNumbers # {}
  /\ opened' = opened + 1
  /\ wrapper' = [wrapper EXCEPT ![opened'] = Dead(s)]
  /\ table' = Destroyed([table EXCEPT ![s.fd] = opened'], s)
  /\ touched' = IF MustClose(s) THEN [via |-> opened', file |-> opened'] ELSE NoTouch
  /\ UNCHANGED <<handle, lapsed>>

\* duplicate(): another reference to the same wrapper.
duplicate(h, g) ==
  /\ handle[h] # None /\ handle[g] = None
  /\ handle' = [handle EXCEPT ![g] = handle[h]]
  /\ touched' = NoTouch
  /\ UNCHANGED <<table, opened, wrapper, lapsed>>

\* g = std::move(h), or the construction of g from h: g lets go of what it
\* had, and h is left pointing nowhere.
Move(h, g) ==
  /\ h # g /\ handle[h] # None
  /\ LetGo(g)
  /\ touched' = TouchedByLetGo(g)
  /\ handle' = [handle EXCEPT ![g] = handle[h], ![h] = None]
  /\ UNCHANGED <<opened, lapsed>>

\* ~FileDescriptor()
Drop(h) ==
  /\ handle[h] # None
  /\ LetGo(h)
  /\ touched' = TouchedByLetGo(h)
  /\ handle' = [handle EXCEPT ![h] = None]
  /\ UNCHANGED <<opened, lapsed>>

\* A call on h; whether close() has been called before is up to the caller.
Call(h) ==
  /\ handle[h] # None
  /\ lapsed' = (lapsed \/ wrapper[handle[h]].closed)

\* Socket(FileDescriptor &&fd, domain, type): g takes over the descriptor of
\* h, then asks for its domain and type.  If either call fails, or the answer
\* is another one, the exception takes the descriptor with it: h is left
\* pointing nowhere in any case.
Adopt(h, g) ==
  /\ h # g /\ handle[g] = None
  /\ Call(h)
  /\ touched' = Touch(handle[h])
  /\ \/ /\ touched'.file # None
        /\ handle' = [handle EXCEPT ![g] = handle[h], ![h] = None]
        /\ UNCHANGED <<table, wrapper>>
     \/ /\ LetGo(h)
        /\ handle' = [handle EXCEPT ![h] = None]
  /\ UNCHANGED opened

\* FDWrapper::close(): if close(2) fails the exception leaves the flags as
\* they were.
close(h) ==
  LET w == handle[h] IN
  /\ w # None
  /\ table' = CloseNumber(table, wrapper[w])
  /\ touched' = Touch(w)
  /\ \E r \in CloseResult(wrapper[w].fd) :
       /\ wrapper' = [wrapper EXCEPT ![w].eof = @ \/ r = "ok", ![w].closed = @ \/ r = "ok"]
       /\ lapsed' = (lapsed \/ wrapper[w].closed \/ r # "ok")
  /\ UNCHANGED <<opened, handle>>

CountWithoutWrapping(c, k) == c + k

\* register_read(), register_write(): counts wrap around.
Count(c, k) == (c + k) % CountMod

\* read(limit): bytes_read is 0, positive, or the call fails and throws
\* before anything else is done; nothing but EBADF comes from a number that
\* is not open.  The flag is set only if some bytes were asked for.
read(h, limit) ==
  LET w == handle[h]
      file == table[wrapper[w].fd] IN
  /\ Call(h)
  /\ touched' = Touch(w)
  /\ \/ UNCHANGED wrapper
     \/ /\ file # None
        /\ \E bytes_read \in 0..limit :
             wrapper' = [wrapper EXCEPT
               ![w].eof = @ \/ (limit > 0 /\ bytes_read = 0),
               ![w].read_count = Count(@, 1)]
  /\ UNCHANGED <<table, opened, handle>>

\* write(): each writev(2) that succeeds is counted, and the last may fail.
\* Module FdWrite is about its loop.
write(h) ==
  LET w == handle[h]
      file == table[wrapper[w].fd] IN
  /\ Call(h)
  /\ touched' = Touch(w)
  /\ \E k \in (IF file = None THEN {0} ELSE 0..MaxWritev) :
       wrapper' = [wrapper EXCEPT ![w].write_count = Count(@, k)]
  /\ UNCHANGED <<table, opened, handle>>

\* set_blocking(): fcntl(2) on the number, which may fail.  The flag only
\* decides which calls may fail, and that is left open here.
set_blocking(h) ==
  /\ Call(h)
  /\ touched' = Touch(handle[h])
  /\ UNCHANGED <<table, opened, handle, wrapper>>

Next ==
  \/ \E h \in Handle : \/ Construct(h) \/ TunTapFDThrows(h) \/ Drop(h) \/ close(h)
                       \/ write(h) \/ set_blocking(h)
                       \/ \E limit \in 0..1 : read(h, limit)
  \/ \E h, g \in Handle : duplicate(h, g) \/ Move(h, g) \/ Adopt(h, g)

Spec == Init /\ [][Next]_vars
-----------------------------------------------------------------------------
(***************************************************************************)
(* Properties.                                                             *)
(***************************************************************************)

\* The types of the kernel's and the program's state.
TypeOK ==
  /\ table \in [FdNum -> File \cup {None}]
  /\ opened \in 0..MaxFiles
  /\ handle \in [Handle -> Wrapper \cup {None}]
  /\ wrapper \in [Wrapper -> WrapperState]
  /\ touched \in [via : Wrapper \cup {None}, file : File \cup {None}]
  /\ lapsed \in BOOLEAN

\* A wrapper exists exactly as long as some FileDescriptor points to it:
\* copies and moves neither destroy it early nor forget it.
LiveWhileReferenced ==
  \A w \in Wrapper : wrapper[w].live <=> Points(w) # {}

\* No descriptor leaks: a file that is open belongs to a wrapper that exists
\* and is not closed, so that the last FileDescriptor to go will close it.
\* This holds whatever the caller does after close(), when close(2) fails,
\* and when the constructor of a Socket or a TunTapFD throws.
NoLeak ==
  \A w \in Wrapper : IsOpen(own(w)) =>
    wrapper[w].live /\ ~wrapper[w].closed /\ table[wrapper[w].fd] = own(w)

\* As long as no call has followed a close() and no close() has failed, the
\* number in a wrapper that is referred to and not closed stands for its own
\* file: no destructor of a copy, of a moved-from or of another FileDescriptor
\* has closed it, and the kernel has not given it to anybody else.
OpenWhileReferenced ==
  ~lapsed => \A w \in Wrapper :
    wrapper[w].live /\ ~wrapper[w].closed => table[wrapper[w].fd] = own(w)

\* As long as no call has followed a close() and no close() has failed, no
\* handle, copy or destructor reaches a file other than its own, or a number
\* that is not open.  (A close(2) that fails in a destructor is harmless:
\* nothing refers to the number any more.)
OwnFileOnly ==
  ~lapsed /\ touched.via # None => touched.file = own(touched.via)
=============================================================================
