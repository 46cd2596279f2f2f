---------------------------- MODULE MobileDevice ----------------------------
(***************************************************************************)
(* The mobile inventory of the central database (mobile.repo.ts): phones   *)
(* are registered with their IMEIs, a used one with the paperwork of its   *)
(* purchase under a voucher number, which the branch's row serialises when *)
(* the backend allocates it; devices change their status; sellers are      *)
(* created and updated. A registration is one transaction of many inserts, *)
(* each of which waits for whoever is inserting the same key and for the   *)
(* rows its foreign keys refer to. A transaction that fails for a reason   *)
(* of its own leaves as little behind as one that has not come yet, so     *)
(* that only refusals and the victims of a circle are modelled. Fields     *)
(* that are stored as they come are left out.                              *)
(***************************************************************************)
EXTENDS Integers, FiniteSets, Sequences, SequencesExt

CONSTANTS
    Request,      \* calls of the routes
    Kind,         \* see Kinds
    Branch, BranchOf,  \* the branch, or None: an update of a seller may name none
    Imei, ImeisOf,     \* imei1 and perhaps imei2 of a registration
    Voucher,      \* voucher numbers; those in Nat consist of digits
    VoucherOf,    \* the number an "explicit" registration brings, or None
    Seller, SellerOf,  \* the seller of a registration, or None; the seller that
                  \* is created or updated
    CnicOf,       \* of a seller, or None
    Active,       \* is_active in an update of a seller
    DeviceOf,     \* the device of a patch: the request that registers it
    StatusOf,     \* the status it asks for
    Existing,     \* registrations that have taken place before
    MaxBigint,    \* the largest BIGINT
    None

Registrations == {"new", "auto", "explicit"}
Kinds         == Registrations \cup {"patch", "create", "update"}

Of(kinds) == {r \in Request : Kind[r] \in kinds}

Device == Of(Registrations)

\* A request for another status is refused before it changes anything.
Statuses == {"IN_STOCK", "INSPECTION"}

ASSUME ConstantsAssumption ==
    /\ None \notin Request /\ None \notin Voucher /\ None \notin Seller /\ MaxBigint \in Nat
    /\ Kind \in [Request -> Kinds]
    /\ BranchOf \in [Request -> Branch \cup {None}] /\ None \notin Branch
    /\ ImeisOf \in [Device -> Seq(Imei)]
    /\ VoucherOf \in [Request -> Voucher \cup {None}]
    /\ SellerOf \in [Request -> Seller \cup {None}]
    /\ DeviceOf \in [Request -> Device \cup {None}]
    /\ Existing \subseteq Of({"new", "explicit"}) /\ IsFiniteSet(Existing)
    /\ \A r \in Of({"patch"}) : StatusOf[r] \in Statuses
    /\ \A r \in Request :
          /\ Kind[r] = "explicit" <=> VoucherOf[r] # None
          /\ Kind[r] = "patch" <=> DeviceOf[r] # None
          /\ Kind[r] \in {"create", "update"} => SellerOf[r] # None
          /\ Kind[r] = "new" => SellerOf[r] = None
          /\ Kind[r] \notin {"create", "update"} => BranchOf[r] # None
    /\ \A d \in Device : ImeisOf[d] # <<>> /\ IsInjective(ImeisOf[d])
    /\ \A d, e \in Existing : d # e =>
          /\ Range(ImeisOf[d]) \cap Range(ImeisOf[e]) = {}
          /\ BranchOf[d] = BranchOf[e] /\ VoucherOf[d] = VoucherOf[e] => VoucherOf[d] = None

VARIABLES
    step,      \* how far a request is on its path
    number,    \* its voucher number
    seen,      \* the status a patch has read
    answer,    \* "none", "done", "refused", "taken" (409 for its voucher) or "failed"
    applied,   \* requests whose transaction has committed
    status,    \* mobile_devices.status
    moves,     \* mobile_device_movements of a device, as <<from_status, to_status>>
    known,     \* sellers in the registry
    active     \* those with is_active = 1

request == <<step, number, seen, answer>>
central == <<applied, status, moves, known, active>>
vars    == <<request, central>>

Init ==
    /\ step = [r \in Request |-> 1]
    /\ number = [r \in Request |-> VoucherOf[r]]
    /\ seen = [r \in Request |-> "IN_STOCK"]
    /\ answer = [r \in Request |-> IF r \in Existing THEN "done" ELSE "none"]
    /\ applied = Existing
    /\ status = [d \in Device |-> "IN_STOCK"]
    /\ moves = [d \in Device |-> IF d \in Existing THEN <<<<None, "IN_STOCK">>>> ELSE <<>>]
    /\ known = {SellerOf[r] : r \in Request} \ ({SellerOf[r] : r \in Of({"create"})} \cup {None})
    /\ active = known

-----------------------------------------------------------------------------
(* The statements of a request, in their order.                            *)

Used(r) == Kind[r] \in {"auto", "explicit"}

Inserts(r) == [i \in DOMAIN ImeisOf[r] |-> "imei"]

Paperwork(r) ==
    IF ~Used(r) THEN <<>> ELSE IF SellerOf[r] = None THEN <<"paper">> ELSE <<"seller", "paper">>

\* FAULTY: the number is allocated after the device has been inserted.
LateAllocation ==
    [r \in Request |->
        CASE r \in Device ->
                <<"check", "device">> \o (IF Kind[r] = "auto" THEN <<"branch">> ELSE <<>>)
                    \o Inserts(r) \o Paperwork(r) \o <<"commit">>
          [] Kind[r] = "create" -> <<"create">>
          [] OTHER              -> <<"lock", "log", "commit">>]

Path ==
    [r \in Request |->
        CASE r \in Device ->
                <<"check">> \o (IF Kind[r] = "auto" THEN <<"branch">> ELSE <<>>)
                    \o <<"device">> \o Inserts(r) \o Paperwork(r) \o <<"commit">>
          [] Kind[r] = "create" -> <<"create">>
          [] OTHER              -> <<"lock", "log", "commit">>]

Statements == UNION {{Path[r][i] : i \in DOMAIN Path[r]} : r \in Request}

\* The first place of a statement on a path, or one after its end.
Place ==
    [r \in Request |-> [s \in Statements |->
        CHOOSE i \in 1..(Len(Path[r]) + 1) :
            /\ i <= Len(Path[r]) => Path[r][i] = s
            /\ \A n \in 1..(i - 1) : Path[r][n] # s]]

Running(r) == answer[r] = "none"

At(r, statement) == Running(r) /\ Path[r][step[r]] = statement

Passed(r, statement) == Running(r) /\ step[r] > Place[r][statement]

\* The IMEIs a request has inserted, and the one it inserts next.
InsertedImeis(r) ==
    {ImeisOf[r][i] : i \in {n \in DOMAIN ImeisOf[r] : Running(r) /\ step[r] >= Place[r]["imei"] + n}}

NextImei(r) == ImeisOf[r][step[r] - Place[r]["imei"] + 1]

-----------------------------------------------------------------------------
(* Who waits for whom.                                                     *)

\* SELECT id FROM branches ... FOR UPDATE.
HoldsBranch(r) == Kind[r] = "auto" /\ Passed(r, "branch")

\* FAULTY: mobile_devices.branch_id has no foreign key.
BranchUnshared(r) == FALSE

\* FOR KEY SHARE, by the foreign keys of mobile_devices.branch_id and of
\* change_log.branch_id; a movement of the device asks for the same.
SharesBranch(r) ==
    \/ r \in Device /\ Passed(r, "device")
    \/ Kind[r] \in {"patch", "update"} /\ Passed(r, "log")

\* FAULTY: a device is read without FOR UPDATE.
DeviceUnlocked(r) == FALSE

HoldsDevice(r) == Kind[r] = "patch" /\ Passed(r, "lock")

HoldsSeller(r) == Kind[r] = "update" /\ Passed(r, "lock")

SharesSeller(r) == r \in Device /\ SellerOf[r] # None /\ Passed(r, "paper")

SameBranch(r, q) == BranchOf[r] = BranchOf[q]

WaitsFor(r, q) ==
    /\ r # q
    /\ \/ At(r, "branch") /\ SameBranch(r, q) /\ (HoldsBranch(q) \/ SharesBranch(q))
       \/ At(r, "device") /\ SameBranch(r, q) /\ HoldsBranch(q)
       \/ At(r, "log") /\ SameBranch(r, q) /\ HoldsBranch(q)
       \/ At(r, "imei") /\ q \in Device /\ NextImei(r) \in InsertedImeis(q)
       \/ At(r, "paper") /\ SameBranch(r, q) /\ number[r] = number[q] /\ Passed(q, "paper")
       \/ At(r, "paper") /\ SellerOf[r] # None /\ SellerOf[q] = SellerOf[r] /\ HoldsSeller(q)
       \/ At(r, "lock") /\ Kind[r] = "patch" /\ DeviceOf[q] = DeviceOf[r] /\ HoldsDevice(q)
       \/ /\ At(r, "lock") /\ Kind[r] = "update" /\ SellerOf[q] = SellerOf[r]
          /\ HoldsSeller(q) \/ SharesSeller(q)

Free(r) == \A q \in Request : ~WaitsFor(r, q)

-----------------------------------------------------------------------------
(* What is committed.                                                      *)

Registered(imei) == \E d \in Device \cap applied : \E i \in DOMAIN ImeisOf[d] : ImeisOf[d][i] = imei

Filed(b) == {d \in Device \cap applied : Used(d) /\ BranchOf[d] = b}

Vouchers(b) == {number[d] : d \in Filed(b)}

ImeiClash(r) == Registered(NextImei(r))

VoucherClash(r) == number[r] \in Vouchers(BranchOf[r])

\* MAX over the numeric voucher numbers, with 0 for the others, or 1000.
Values(b)  == {IF v \in Nat THEN v ELSE 0 : v \in Vouchers(b)}
Largest(b) == IF Values(b) = {} THEN 1000 ELSE CHOOSE n \in Values(b) : \A m \in Values(b) : m <= n

-----------------------------------------------------------------------------
(* Steps.                                                                  *)

GoesOn(r) ==
    /\ step' = [step EXCEPT ![r] = @ + 1]
    /\ UNCHANGED <<answer, central>>

Ends(r, result) ==
    /\ step' = [step EXCEPT ![r] = 1]
    /\ seen' = [seen EXCEPT ![r] = "IN_STOCK"]
    /\ answer' = [answer EXCEPT ![r] = result]

\* ROLLBACK, and an error to the caller.
Failed(r, result) == Ends(r, result) /\ UNCHANGED <<number, central>>

\* The look-ups of a registration before it writes: its IMEIs, its voucher, the
\* supplier of a new phone, which may be unknown or inactive.
Check(r) ==
    /\ At(r, "check")
    /\ \/ /\ \E i \in DOMAIN ImeisOf[r] : Registered(ImeisOf[r][i])
          /\ Failed(r, "refused")
       \/ Kind[r] = "explicit" /\ VoucherClash(r) /\ Failed(r, "taken")
       \/ Kind[r] = "new" /\ Failed(r, "refused")
       \/ /\ \A i \in DOMAIN ImeisOf[r] : ~Registered(ImeisOf[r][i])
          /\ Kind[r] = "explicit" => ~VoucherClash(r)
          /\ GoesOn(r) /\ UNCHANGED <<number, seen>>

\* getNextVoucherNumber. A number beyond BIGINT makes the query fail.
AllocateVoucher(r) ==
    /\ At(r, "branch") /\ Free(r)
    /\ IF Largest(BranchOf[r]) < MaxBigint
       THEN /\ number' = [number EXCEPT ![r] = Largest(BranchOf[r]) + 1]
            /\ GoesOn(r) /\ UNCHANGED seen
       ELSE Failed(r, "failed")

InsertDevice(r) ==
    /\ At(r, "device") /\ Free(r)
    /\ GoesOn(r) /\ UNCHANGED <<number, seen>>

InsertImei(r) ==
    /\ At(r, "imei") /\ Free(r)
    /\ IF ImeiClash(r) THEN Failed(r, "refused")
       ELSE GoesOn(r) /\ UNCHANGED <<number, seen>>

\* The seller is looked up without a lock.
CheckSeller(r) ==
    /\ At(r, "seller")
    /\ IF SellerOf[r] \in known \cap active
       THEN GoesOn(r) /\ UNCHANGED <<number, seen>>
       ELSE Failed(r, "refused")

InsertPaperwork(r) ==
    /\ At(r, "paper") /\ Free(r)
    /\ IF VoucherClash(r) THEN Failed(r, "taken")
       ELSE GoesOn(r) /\ UNCHANGED <<number, seen>>

\* PERMITTED_STATUS_TRANSITIONS leads from each status to the other; SOLD is
\* not reached.
LockDevice(r) ==
    /\ Kind[r] = "patch" /\ At(r, "lock") /\ Free(r)
    /\ IF DeviceOf[r] \in applied
       THEN /\ seen' = [seen EXCEPT ![r] = status[DeviceOf[r]]]
            /\ GoesOn(r) /\ UNCHANGED number
       ELSE Failed(r, "refused")

LockSeller(r) ==
    /\ Kind[r] = "update" /\ At(r, "lock") /\ Free(r)
    /\ IF SellerOf[r] \in known THEN GoesOn(r) /\ UNCHANGED <<number, seen>>
       ELSE Failed(r, "refused")

\* writeChangeLogEntry, and the movement of a patch. An update without a branch
\* writes nothing here, and waits for nobody.
WriteLog(r) ==
    /\ At(r, "log") /\ Free(r)
    /\ GoesOn(r) /\ UNCHANGED <<number, seen>>

\* createSeller is a single INSERT; the CNIC is unique where there is one.
CreateSeller(r) ==
    /\ At(r, "create")
    /\ IF \E s \in known : CnicOf[s] = CnicOf[SellerOf[r]] /\ CnicOf[s] # None
       THEN Failed(r, "refused")
       ELSE /\ Ends(r, "done")
            /\ applied' = applied \cup {r}
            /\ known' = known \cup {SellerOf[r]}
            /\ active' = active \cup {SellerOf[r]}
            /\ UNCHANGED <<number, status, moves>>

Moved(d, from, to) == moves' = [moves EXCEPT ![d] = Append(@, <<from, to>>)]

Commit(r) ==
    /\ At(r, "commit")
    /\ Ends(r, "done")
    /\ applied' = applied \cup {r}
    /\ \/ r \in Device /\ Moved(r, None, "IN_STOCK") /\ UNCHANGED <<status, active>>
       \/ /\ Kind[r] = "patch"
          /\ status' = [status EXCEPT ![DeviceOf[r]] = StatusOf[r]]
          /\ IF StatusOf[r] = seen[r] THEN UNCHANGED moves
             ELSE Moved(DeviceOf[r], seen[r], StatusOf[r])
          /\ UNCHANGED active
       \/ /\ Kind[r] = "update"
          /\ active' = IF Active[r] THEN active \cup {SellerOf[r]} ELSE active \ {SellerOf[r]}
          /\ UNCHANGED <<status, moves>>
    /\ UNCHANGED <<number, known>>

\* A request that has done nothing yet is waited for by nobody.
InFlight == {r \in Request : Running(r) /\ step[r] > 1}

Waits == {w \in InFlight \X InFlight : WaitsFor(w[1], w[2])}

\* Every member of the set waits for another one, and is waited for.
Circles ==
    LET waits == Waits
    IN {S \in SUBSET ({w[1] : w \in waits} \cap {w[2] : w \in waits}) :
            /\ S # {}
            /\ \A r \in S : \E q, t \in S : <<r, q>> \in waits /\ <<t, r>> \in waits}

\* PostgreSQL fails a transaction of a circle.
BreakCircle == \E S \in Circles : \E r \in S : Failed(r, "failed")

Step(r) ==
    \/ Check(r) \/ AllocateVoucher(r) \/ InsertDevice(r) \/ InsertImei(r) \/ CheckSeller(r)
    \/ InsertPaperwork(r) \/ LockDevice(r) \/ LockSeller(r) \/ WriteLog(r) \/ CreateSeller(r)
    \/ Commit(r)

Next == BreakCircle \/ \E r \in Request : Step(r)

Spec == Init /\ [][Next]_vars

-----------------------------------------------------------------------------
(* Properties.                                                             *)

\* Every variable stays within its type; an allocated number is a BIGINT.
TypeOK ==
    /\ step \in [Request -> Nat \ {0}]
    /\ number \in [Request -> Voucher \cup 0..MaxBigint \cup {None}]
    /\ seen \in [Request -> Statuses]
    /\ answer \in [Request -> {"none", "done", "refused", "taken", "failed"}]
    /\ applied \in SUBSET Request
    /\ status \in [Device -> Statuses]
    /\ moves \in [Device -> Seq((Statuses \cup {None}) \X Statuses)]
    /\ known \in SUBSET Seller /\ active \in SUBSET known

\* Who leaves the voucher number to the backend is never told that it is in use,
\* whatever numbers others bring at the same time.
AllocatedVouchersAreFree == \A r \in Of({"auto"}) : answer[r] # "taken"

\* The movements of a device tell its history: each starts where the one before
\* it has ended, the first with the registration, and the last ends in the
\* status the device has.
MovementsTellTheStatus ==
    \A d \in Device \cap applied :
        /\ moves[d][1][1] = None
        /\ \A i \in 2..Len(moves[d]) :
              moves[d][i][1] = moves[d][i - 1][2] /\ moves[d][i][1] # moves[d][i][2]
        /\ moves[d][Len(moves[d])][2] = status[d]

\* Requests wait in a circle for two reasons only: registrations list the same
\* IMEIs in different orders; or an update of a seller, which keeps the paperwork
\* of a registration waiting, waits to write its change log for the branch of an
\* automatic registration. None closes around a device or a voucher number.
TwoKindsOfCircles ==
    \A S \in Circles :
        \/ \A r \in S : At(r, "imei") /\ Len(ImeisOf[r]) > 1
        \/ \E u, a, e \in S :
              /\ Kind[u] = "update" /\ WaitsFor(u, a) /\ Kind[a] = "auto"
              /\ At(e, "paper") /\ WaitsFor(e, u)
=============================================================================
