-------------------------- MODULE MobileDeviceProofs --------------------------
(***************************************************************************)
(* Proofs about MobileDevice, for any requests, branches, IMEIs, vouchers, *)
(* sellers and devices. First the paths: where each statement of a         *)
(* registration stands. Then what a request holds at its place, and why a  *)
(* circle of waiting requests needs an IMEI, or a registration with an     *)
(* allocated number that waits for the seller an update has locked. The    *)
(* invariant adds that an allocated number is nobody's in the branch as    *)
(* long as its row is locked, and that a locked device has the status that *)
(* was read.                                                               *)
(***************************************************************************)
EXTENDS MobileDevice, FiniteSetTheorems, SequenceTheorems, WellFoundedInduction, TLAPS

Words == {"check", "branch", "device", "imei", "seller", "paper", "commit"}

\* The places of a registration's statements.
Lead(r) == IF Kind[r] = "auto" THEN 3 ELSE 2
Size(r) == Len(ImeisOf[r])
Paper(r) == Lead(r) + Size(r) + (IF SellerOf[r] = None THEN 1 ELSE 2)
Final(r) == IF Used(r) THEN Paper(r) + 1 ELSE Lead(r) + Size(r) + 1

\* A request is of one of six kinds; three of them register a device.
LEMMA KindIs ==
    ASSUME ConstantsAssumption, NEW r \in Request
    PROVE  /\ Kind[r] \in {"new", "auto", "explicit", "patch", "create", "update"}
           /\ r \in Device <=> Kind[r] \in {"new", "auto", "explicit"}
  BY DEF ConstantsAssumption, Kinds, Registrations, Device, Of

\* The device stands third on the path of an automatic registration, else second.
LEMMA LeadIs ==
    ASSUME NEW r
    PROVE  /\ Lead(r) \in Nat /\ Lead(r) \in 2..3
           /\ Kind[r] = "auto" => Lead(r) = 3
           /\ Kind[r] # "auto" => Lead(r) = 2
<1>1. CASE Kind[r] = "auto"
  BY <1>1 DEF Lead
<1>2. CASE Kind[r] # "auto"
  BY <1>2 DEF Lead
<1> QED
  BY <1>1, <1>2

\* A registration lists at least one IMEI.
LEMMA SizeIs ==
    ASSUME ConstantsAssumption, NEW r \in Device
    PROVE  /\ r \in Request
           /\ ImeisOf[r] \in Seq(Imei) /\ Size(r) \in Nat /\ Size(r) > 0
           /\ DOMAIN ImeisOf[r] = 1..Size(r)
<1>1. r \in Request
  BY DEF Device, Of
<1>2. ImeisOf[r] \in Seq(Imei) /\ ImeisOf[r] # <<>>
  BY DEF ConstantsAssumption
<1>3. QED
  BY <1>1, <1>2, EmptySeq, LenProperties DEF Size

\* One list behind another.
LEMMA Joined ==
    ASSUME NEW S, NEW s \in Seq(S), NEW t \in Seq(S)
    PROVE  /\ Len(s) \in Nat /\ Len(t) \in Nat
           /\ s \o t \in Seq(S) /\ Len(s \o t) = Len(s) + Len(t)
           /\ \A i \in 1..Len(s) : (s \o t)[i] = s[i]
           /\ \A i \in 1..Len(t) : (s \o t)[Len(s) + i] = t[i]
<1>1. /\ s \o t \in Seq(S) /\ Len(s \o t) = Len(s) + Len(t)
      /\ \A i \in 1..(Len(s) + Len(t)) : (s \o t)[i] = IF i <= Len(s) THEN s[i] ELSE t[i - Len(s)]
  BY ConcatProperties
<1>2. PICK m \in Nat, n \in Nat : m = Len(s) /\ n = Len(t)
  BY LenProperties
<1>3. \A i \in 1..m : i \in 1..(m + n) /\ i <= m
  BY <1>2
<1>4. \A i \in 1..n : m + i \in 1..(m + n) /\ ~(m + i <= m) /\ (m + i) - m = i
  BY <1>2
<1> QED
  BY <1>1, <1>2, <1>3, <1>4

\* The second list begins where the first has ended.
LEMMA Behind ==
    ASSUME NEW S, NEW s \in Seq(S), NEW t \in Seq(S), NEW i \in 1..Len(t)
    PROVE  (s \o t)[Len(s) + i] = t[i]
  BY Joined

LEMMA Alone == ASSUME NEW S, NEW x \in S PROVE <<x>> \in Seq(S) /\ Len(<<x>>) = 1 /\ <<x>>[1] = x
  OBVIOUS

LEMMA Nothing == ASSUME NEW S PROVE <<>> \in Seq(S) /\ Len(<<>>) = 0
  OBVIOUS

\* What comes before the IMEIs.
Begin(r) ==
    <<"check">> \o (IF Kind[r] = "auto" THEN <<"branch">> ELSE <<>>) \o <<"device">>

\* A path begins with the look-ups, the branch if it is locked, and the device.
LEMMA BeginIs ==
    ASSUME NEW r
    PROVE  /\ Begin(r) \in Seq(Words) /\ Len(Begin(r)) = Lead(r)
           /\ Begin(r)[1] = "check" /\ Begin(r)[Lead(r)] = "device"
           /\ Kind[r] = "auto" => Begin(r)[2] = "branch"
<1>1. \A x \in {"check", "branch", "device"} :
         <<x>> \in Seq(Words) /\ Len(<<x>>) = 1 /\ <<x>>[1] = x
  <2>1. \A x \in {"check", "branch", "device"} : x \in Words
    BY DEF Words
  <2>2. QED
    BY <2>1, Alone
<1>2. CASE Kind[r] = "auto"
  <2> DEFINE A == <<"check">> \o <<"branch">>
  <2>1. A \in Seq(Words) /\ Len(A) = 2 /\ A[1] = "check" /\ A[2] = "branch"
    <3>1. 1 \in 1..1 /\ 1 + 1 = 2
      OBVIOUS
    <3>2. <<"check">> \in Seq(Words) /\ <<"branch">> \in Seq(Words)
      BY <1>1
    <3>3. QED
      BY <1>1, <3>1, <3>2, Joined
  <2> HIDE DEF A
  <2> DEFINE B == A \o <<"device">>
  <2>2. B \in Seq(Words) /\ Len(B) = 3 /\ B[1] = "check" /\ B[2] = "branch" /\ B[3] = "device"
    <3>1. 1 \in 1..1 /\ 1 \in 1..2 /\ 2 \in 1..2 /\ 2 + 1 = 3
      OBVIOUS
    <3>2. QED
      BY <1>1, <2>1, <3>1, Joined
  <2>3. Begin(r) = B /\ Lead(r) = 3
    BY <1>2 DEF Begin, Lead, A, B
  <2>4. QED
    BY <2>2, <2>3
<1>3. CASE Kind[r] # "auto"
  <2> DEFINE A == <<"check">> \o <<>>
  <2>1. A \in Seq(Words) /\ Len(A) = 1 /\ A[1] = "check"
    <3>1. 1 \in 1..1 /\ 1 + 0 = 1
      OBVIOUS
    <3>2. QED
      BY <1>1, <3>1, Joined, Nothing
  <2> HIDE DEF A
  <2> DEFINE B == A \o <<"device">>
  <2>2. B \in Seq(Words) /\ Len(B) = 2 /\ B[1] = "check" /\ B[2] = "device"
    <3>1. 1 \in 1..1 /\ 1 + 1 = 2
      OBVIOUS
    <3>2. QED
      BY <1>1, <2>1, <3>1, Joined
  <2>3. Begin(r) = B /\ Lead(r) = 2
    BY <1>3 DEF Begin, Lead, A, B
  <2>4. QED
    BY <1>3, <2>2, <2>3
<1> QED
  BY <1>2, <1>3

\* Paperwork is filed for used phones, after the seller has been looked up.
LEMMA PaperworkIs ==
    ASSUME NEW r
    PROVE  /\ Paperwork(r) \in Seq(Words)
           /\ ~Used(r) => Len(Paperwork(r)) = 0
           /\ Used(r) => /\ Len(Paperwork(r)) = (IF SellerOf[r] = None THEN 1 ELSE 2)
                         /\ Paperwork(r)[Len(Paperwork(r))] = "paper"
                         /\ SellerOf[r] # None => Paperwork(r)[1] = "seller"
<1>1. CASE ~Used(r)
  BY <1>1, Nothing DEF Paperwork
<1>2. CASE Used(r) /\ SellerOf[r] = None
  BY <1>2, Alone DEF Paperwork, Words
<1>3. CASE Used(r) /\ SellerOf[r] # None
  <2>1. Paperwork(r) = <<"seller", "paper">>
    BY <1>3 DEF Paperwork
  <2>2. Paperwork(r) \in Seq(Words) /\ Len(Paperwork(r)) = 2
    BY <2>1 DEF Words
  <2>3. Paperwork(r)[1] = "seller" /\ Paperwork(r)[2] = "paper"
    BY <2>1
  <2>4. QED
    BY <1>3, <2>2, <2>3
<1> QED
  BY <1>1, <1>2, <1>3

\* P is B, I, W, of lengths k, n and m, and the end of a path.
Spells(P, B, I, W, k, n, m) ==
    /\ Len(P) = k + n + m + 1 /\ DOMAIN P = 1..(k + n + m + 1)
    /\ \A i \in 1..k : P[i] = B[i]
    /\ \A i \in 1..n : P[k + i] = I[i]
    /\ \A i \in 1..m : P[k + n + i] = W[i]
    /\ P[k + n + m + 1] = "commit"

\* Three lists and the commit, one behind another.
LEMMA Lists ==
    ASSUME NEW B \in Seq(Words), NEW I \in Seq(Words), NEW W \in Seq(Words),
           NEW k \in Nat, NEW n \in Nat, NEW m \in Nat, Len(B) = k, Len(I) = n, Len(W) = m,
           NEW P, P = B \o I \o W \o <<"commit">>
    PROVE  Spells(P, B, I, W, k, n, m)
<1>1. PICK C : C = B \o I
  OBVIOUS
<1>2. C \in Seq(Words) /\ Len(C) = k + n
  BY <1>1, Joined
<1>3. (\A i \in 1..k : C[i] = B[i]) /\ \A i \in 1..n : C[k + i] = I[i]
  BY <1>1, Joined
<1>4. PICK D : D = C \o W
  OBVIOUS
<1>5. PICK l \in Nat : l = k + n
  OBVIOUS
<1>6. Len(C) = l
  BY <1>2, <1>5
<1>7. D \in Seq(Words) /\ Len(D) = l + m
  BY <1>2, <1>4, <1>6, Joined
<1>8. (\A i \in 1..l : D[i] = C[i]) /\ \A i \in 1..m : D[l + i] = W[i]
  <2>1. \A i \in 1..l : D[i] = C[i]
    BY <1>2, <1>4, <1>6, Joined
  <2>2. \A i \in 1..m : D[l + i] = W[i]
    <3>1. \A i \in 1..Len(W) : (C \o W)[Len(C) + i] = W[i]
      BY <1>2, Behind
    <3>2. QED
      BY <1>4, <1>6, <3>1
  <2>3. QED
    BY <2>1, <2>2
<1>9. PICK e \in Nat : e = k + n + m
  OBVIOUS
<1>10. Len(D) = e
  BY <1>5, <1>7, <1>9
<1>11. <<"commit">> \in Seq(Words) /\ Len(<<"commit">>) = 1 
       /\ <<"commit">>[1] = "commit" /\ 1 \in 1..1
  BY Alone DEF Words
<1>12. P = D \o <<"commit">>
  BY <1>1, <1>4
<1>13. P \in Seq(Words) /\ Len(P) = e + 1
  BY <1>7, <1>10, <1>11, <1>12, Joined
<1>14. (\A i \in 1..e : P[i] = D[i]) /\ P[e + 1] = "commit"
  <2>1. \A i \in 1..e : P[i] = D[i]
    BY <1>7, <1>10, <1>11, <1>12, Joined
  <2>2. P[e + 1] = <<"commit">>[1]
    <3>1. (D \o <<"commit">>)[Len(D) + 1] = <<"commit">>[1]
      BY <1>7, <1>11, Joined
    <3>2. QED
      BY <1>10, <1>12, <3>1
  <2>3. QED
    BY <1>11, <2>1, <2>2
<1>15. Len(P) = k + n + m + 1 /\ DOMAIN P = 1..(k + n + m + 1) /\ P[k + n + m + 1] = "commit"
  <2>1. DOMAIN P = 1..Len(P)
    BY <1>13, LenProperties
  <2>2. QED
    BY <1>9, <1>13, <1>14, <2>1
<1>16. \A i \in 1..k : P[i] = B[i]
  <2>1. \A i \in 1..k : i \in 1..l /\ i \in 1..e
    BY <1>5, <1>9
  <2>2. QED
    BY <1>3, <1>8, <1>14, <2>1
<1>17. \A i \in 1..n : P[k + i] = I[i]
  <2>1. \A i \in 1..n : k + i \in 1..l /\ k + i \in 1..e
    BY <1>5, <1>9
  <2>2. QED
    BY <1>3, <1>8, <1>14, <2>1
<1>18. \A i \in 1..m : P[k + n + i] = W[i]
  <2>1. \A i \in 1..m : l + i \in 1..e /\ k + n + i = l + i
    BY <1>5, <1>9
  <2>2. QED
    BY <1>8, <1>14, <2>1
<1> QED
  BY <1>15, <1>16, <1>17, <1>18 DEF Spells

\* The lengths of the parts.
LEMMA Measures ==
    ASSUME ConstantsAssumption, NEW r \in Device
    PROVE  \E k \in Nat, n \in Nat, m \in Nat :
             /\ k = Lead(r) /\ n = Size(r) /\ m = Len(Paperwork(r))
             /\ k \in 2..3 /\ n > 0 /\ Final(r) = k + n + m + 1
             /\ (~Used(r) => m = 0) /\ (Used(r) => m \in 1..2 /\ Paper(r) = k + n + m)
<1>1. PICK k \in Nat, n \in Nat : k = Lead(r) /\ n = Size(r) /\ k \in 2..3 /\ n > 0
  BY SizeIs, LeadIs
<1>2. CASE ~Used(r)
  <2>1. Len(Paperwork(r)) = 0 /\ Final(r) = k + n + 0 + 1
    BY <1>1, <1>2, PaperworkIs DEF Final
  <2>2. QED
    BY <1>1, <1>2, <2>1
<1>3. CASE Used(r) /\ SellerOf[r] = None
  <2>1. Len(Paperwork(r)) = 1 /\ Paper(r) = k + n + 1
    BY <1>1, <1>3, PaperworkIs DEF Paper
  <2>2. Final(r) = k + n + 1 + 1
    BY <1>3, <2>1 DEF Final
  <2>3. QED
    BY <1>1, <1>3, <2>1, <2>2
<1>4. CASE Used(r) /\ SellerOf[r] # None
  <2>1. Len(Paperwork(r)) = 2 /\ Paper(r) = k + n + 2
    BY <1>1, <1>4, PaperworkIs DEF Paper
  <2>2. Final(r) = k + n + 2 + 1
    BY <1>4, <2>1 DEF Final
  <2>3. QED
    BY <1>1, <1>4, <2>1, <2>2
<1> QED
  BY <1>2, <1>3, <1>4

\* The path of a registration, with its beginning as one list.
LEMMA PathIsList ==
    ASSUME ConstantsAssumption, NEW r \in Device
    PROVE  Path[r] = Begin(r) \o Inserts(r) \o Paperwork(r) \o <<"commit">>
<1>1. r \in Request
  BY DEF Device, Of
<1> DEFINE E == Inserts(r)
           W == Paperwork(r)
<1>2. Path[r] = <<"check">> \o (IF Kind[r] = "auto" THEN <<"branch">> ELSE <<>>)
                    \o <<"device">> \o E \o W \o <<"commit">>
  <2>1. Kind[r] # "create"
    BY KindIs, <1>1
  <2>2. QED
    BY <1>1, <2>1 DEF Path
<1> QED
  BY <1>2 DEF Begin

\* Where each statement of a registration stands.
LEMMA PathOfDevice ==
    ASSUME ConstantsAssumption, NEW r \in Device
    PROVE  /\ Lead(r) \in 2..3 /\ Final(r) \in Nat
           /\ Lead(r) + Size(r) < Final(r)
           /\ DOMAIN Path[r] = 1..Final(r) /\ Len(Path[r]) = Final(r)
           /\ Path[r][1] = "check"
           /\ Kind[r] = "auto" => Path[r][2] = "branch"
           /\ Path[r][Lead(r)] = "device"
           /\ \A i \in (Lead(r) + 1)..(Lead(r) + Size(r)) : Path[r][i] = "imei"
           /\ Used(r) => /\ Path[r][Paper(r)] = "paper" /\ Paper(r) + 1 = Final(r)
                         /\ Lead(r) + Size(r) < Paper(r)
                         /\ \A i \in (Lead(r) + Size(r) + 1)..(Paper(r) - 1) : Path[r][i] = "seller"
           /\ ~Used(r) => Final(r) = Lead(r) + Size(r) + 1
           /\ Path[r][Final(r)] = "commit"
<1>1. PICK k \in Nat, n \in Nat, m \in Nat :
             /\ k = Lead(r) /\ n = Size(r) /\ m = Len(Paperwork(r))
             /\ k \in 2..3 /\ n > 0 /\ Final(r) = k + n + m + 1
             /\ (~Used(r) => m = 0) /\ (Used(r) => m \in 1..2 /\ Paper(r) = k + n + m)
  BY Measures
<1>2. k = Lead(r) /\ n = Size(r) /\ Final(r) = k + n + m + 1
  BY <1>1, Zenon
<1>3. m = Len(Paperwork(r))
  BY <1>1, Zenon
<1>4. Used(r) => Paper(r) = k + n + m
  BY <1>1, Zenon
<1>5. k \in 2..3 /\ n > 0
  BY <1>1, Zenon
<1>6. (~Used(r) => m = 0) /\ (Used(r) => m \in 1..2)
  BY <1>1, Zenon
<1>7. PICK B, I, W : B = Begin(r) /\ I = Inserts(r) /\ W = Paperwork(r)
  OBVIOUS
<1>8. B \in Seq(Words) /\ Len(B) = k /\ B[1] = "check" /\ B[k] = "device"
      /\ (Kind[r] = "auto" => B[2] = "branch" /\ 2 < k)
  <2>1. Kind[r] = "auto" => 2 < k
    BY <1>2, LeadIs
  <2>2. QED
    BY <1>2, <1>7, <2>1, BeginIs
<1>9. I \in Seq(Words) /\ Len(I) = n /\ \A i \in 1..n : I[i] = "imei"
  <2>1. DOMAIN ImeisOf[r] = 1..n
    BY <1>2, SizeIs
  <2>2. I = [i \in 1..n |-> "imei"]
    BY <1>7, <2>1 DEF Inserts
  <2>3. QED
    BY <2>2 DEF Words
<1>10. /\ W \in Seq(Words) /\ Len(W) = m
       /\ Used(r) => W[m] = "paper" /\ (m = 2 => W[1] = "seller")
  <2>1. W \in Seq(Words) /\ Len(W) = m
    BY <1>3, <1>7, PaperworkIs
  <2>2. Used(r) => W[m] = "paper"
    BY <1>3, <1>7, PaperworkIs
  <2>3. Used(r) /\ m = 2 => W[1] = "seller"
    <3>1. Used(r) => m = (IF SellerOf[r] = None THEN 1 ELSE 2)
      BY <1>3, PaperworkIs
    <3>2. Used(r) /\ m = 2 => SellerOf[r] # None
      BY <3>1
    <3>3. QED
      BY <1>7, <3>2, PaperworkIs
  <2>4. QED
    BY <2>1, <2>2, <2>3
<1>11. PICK P : P = Path[r] /\ P = B \o I \o W \o <<"commit">>
  BY <1>7, PathIsList
<1>12. /\ Len(P) = k + n + m + 1 /\ DOMAIN P = 1..(k + n + m + 1)
       /\ \A i \in 1..k : P[i] = B[i]
       /\ \A i \in 1..n : P[k + i] = I[i]
       /\ \A i \in 1..m : P[k + n + i] = W[i]
       /\ P[k + n + m + 1] = "commit"
  <2>1. B \in Seq(Words) /\ I \in Seq(Words) /\ W \in Seq(Words)
    BY <1>8, <1>9, <1>10
  <2>2. Len(B) = k /\ Len(I) = n /\ Len(W) = m
    BY <1>8, <1>9, <1>10
  <2>3. P = B \o I \o W \o <<"commit">>
    BY <1>11
  <2>4. QED
    <3>1. Spells(P, B, I, W, k, n, m)
      BY <2>1, <2>2, <2>3, Lists
    <3>2. QED
      BY <3>1 DEF Spells
<1>13. P[1] = "check" /\ (Kind[r] = "auto" => P[2] = "branch") /\ P[k] = "device"
  <2>1. 1 \in 1..k /\ k \in 1..k /\ (2 < k => 2 \in 1..k)
    BY <1>5
  <2>2. QED
    BY <1>8, <1>12, <2>1
<1>14. \A i \in (k + 1)..(k + n) : P[i] = "imei"
  <2>1. TAKE i \in (k + 1)..(k + n)
  <2>2. PICK j \in 1..n : i = k + j
    <3>1. i - k \in 1..n /\ i = k + (i - k)
      OBVIOUS
    <3>2. QED
      BY <3>1
  <2>3. QED
    BY <1>9, <1>12, <2>2
<1>15. ASSUME Used(r)
       PROVE  /\ P[k + n + m] = "paper" /\ k + n + m + 1 = Final(r) /\ k + n < k + n + m
              /\ \A i \in (k + n + 1)..(k + n + m - 1) : P[i] = "seller"
  <2>1. m \in 1..m
    BY <1>6, <1>15
  <2>2. P[k + n + m] = "paper"
    BY <1>10, <1>12, <1>15, <2>1
  <2>3. ASSUME NEW i \in (k + n + 1)..(k + n + m - 1) PROVE P[i] = "seller"
    <3>1. m = 2 /\ i = k + n + 1 /\ 1 \in 1..m
      BY <1>6, <1>15, <2>3
    <3>2. QED
      BY <1>10, <1>12, <1>15, <3>1
  <2>4. k + n < k + n + m
    BY <1>6, <1>15
  <2>5. QED
    BY <1>2, <2>2, <2>3, <2>4
<1>16. k + n < Final(r) /\ (~Used(r) => Final(r) = k + n + 1)
  BY <1>2, <1>6
<1>17. DOMAIN P = 1..Final(r) /\ Len(P) = Final(r) /\ P[Final(r)] = "commit" /\ Final(r) \in Nat
  BY <1>2, <1>12
<1>18. Lead(r) \in 2..3 /\ Final(r) \in Nat /\ Lead(r) + Size(r) < Final(r)
       /\ (~Used(r) => Final(r) = Lead(r) + Size(r) + 1)
  BY <1>2, <1>5, <1>16, <1>17
<1>19. DOMAIN Path[r] = 1..Final(r) /\ Len(Path[r]) = Final(r)
       /\ Path[r][1] = "check" /\ (Kind[r] = "auto" => Path[r][2] = "branch")
       /\ Path[r][Lead(r)] = "device" /\ Path[r][Final(r)] = "commit"
  BY <1>2, <1>11, <1>13, <1>17, Zenon
<1>20. \A i \in (Lead(r) + 1)..(Lead(r) + Size(r)) : Path[r][i] = "imei"
  BY <1>2, <1>11, <1>14, Zenon
<1>21. Used(r) => /\ Path[r][Paper(r)] = "paper" /\ Paper(r) + 1 = Final(r)
                  /\ Lead(r) + Size(r) < Paper(r)
                  /\ \A i \in (Lead(r) + Size(r) + 1)..(Paper(r) - 1) : Path[r][i] = "seller"
  <2>1. ASSUME Used(r)
        PROVE  Path[r][Paper(r)] = "paper" /\ Paper(r) + 1 = Final(r)
               /\ Lead(r) + Size(r) < Paper(r)
    BY <2>1, <1>2, <1>4, <1>11, <1>15, Zenon
  <2>2. ASSUME Used(r)
        PROVE  \A i \in (Lead(r) + Size(r) + 1)..(Paper(r) - 1) : Path[r][i] = "seller"
    <3>1. Lead(r) + Size(r) + 1 = k + n + 1 /\ Paper(r) - 1 = k + n + m - 1
      BY <2>2, <1>2, <1>4
    <3>2. QED
      BY <2>2, <3>1, <1>11, <1>15, Zenon
  <2>3. QED
    BY <2>1, <2>2
<1> QED
  BY <1>18, <1>19, <1>20, <1>21, Zenon

\* Every other request locks, logs and commits, or creates a seller.
LEMMA PathOfOthers ==
    ASSUME ConstantsAssumption, NEW r \in Request, r \notin Device
    PROVE  /\ Kind[r] \in {"patch", "create", "update"}
           /\ Kind[r] = "create" => Path[r] = <<"create">>
           /\ Kind[r] # "create" => Path[r] = <<"lock", "log", "commit">>
<1>1. Kind[r] \in {"patch", "create", "update"}
  BY KindIs
<1>2. Path[r] = CASE Kind[r] = "create" -> <<"create">> [] OTHER -> <<"lock", "log", "commit">>
  BY DEF Path
<1> QED
  BY <1>1, <1>2

\* Of n statements s stands first at place i, or nowhere if i is behind them.
StandsFirst(r, s, n, i) ==
    /\ Len(Path[r]) = n /\ i \in 1..(n + 1)
    /\ i <= n => Path[r][i] = s
    /\ \A j \in 1..(i - 1) : Path[r][j] # s

\* A statement that stands first at a place has that place.
LEMMA PlaceIs ==
    ASSUME NEW r \in Request, NEW s \in Statements, NEW n \in Nat, NEW i \in Nat,
           StandsFirst(r, s, n, i)
    PROVE  Place[r][s] = i
<1> USE DEF StandsFirst
<1> DEFINE Fits(j) == /\ j <= Len(Path[r]) => Path[r][j] = s
                      /\ \A m \in 1..(j - 1) : Path[r][m] # s
<1>1. Place[r][s] = CHOOSE j \in 1..(n + 1) : Fits(j)
  BY DEF Place
<1>2. Fits(i)
  OBVIOUS
<1>3. ASSUME NEW j \in 1..(n + 1), Fits(j) PROVE j = i
  <2>1. CASE j < i
    <3>1. j <= n /\ j \in 1..(i - 1)
      BY <2>1
    <3>2. Path[r][j] = s
      BY <1>3, <3>1
    <3>3. QED
      BY <3>1, <3>2
  <2>2. CASE i < j
    <3>1. i <= n /\ i \in 1..(j - 1)
      BY <2>2
    <3>2. QED
      BY <1>3, <3>1
  <2>3. QED
    BY <2>1, <2>2
<1> HIDE DEF Fits
<1>4. QED
  BY <1>1, <1>2, <1>3

\* What stands on a path is a statement.
LEMMA SpokenIs ==
    ASSUME NEW r \in Request, NEW i \in DOMAIN Path[r]
    PROVE  Path[r][i] \in Statements
  BY DEF Statements

\* The place of the paperwork is a number.
LEMMA PaperIs ==
    ASSUME ConstantsAssumption, NEW r \in Device, Used(r)
    PROVE  Paper(r) \in Nat
<1>1. PICK k \in Nat, n \in Nat : k = Lead(r) /\ n = Size(r)
  BY LeadIs, SizeIs
<1>2. CASE SellerOf[r] = None
  BY <1>1, <1>2 DEF Paper
<1>3. CASE SellerOf[r] # None
  BY <1>1, <1>3 DEF Paper
<1> QED
  BY <1>2, <1>3

\* What stands at place i of a registration's path.
PlaceReads(r, i) ==
    \/ i = 1 /\ Path[r][i] = "check"
    \/ i = 2 /\ Kind[r] = "auto" /\ Path[r][i] = "branch"
    \/ i = Lead(r) /\ Path[r][i] = "device"
    \/ i \in (Lead(r) + 1)..(Lead(r) + Size(r)) /\ Path[r][i] = "imei"
    \/ Used(r) /\ i \in (Lead(r) + Size(r) + 1)..(Paper(r) - 1) /\ Path[r][i] = "seller"
    \/ Used(r) /\ i = Paper(r) /\ Path[r][i] = "paper"
    \/ i = Final(r) /\ Path[r][i] = "commit"

\* What stands at each place of the path of a registration.
LEMMA EachPlace ==
    ASSUME ConstantsAssumption, NEW r \in Device, NEW i \in 1..Final(r)
    PROVE  PlaceReads(r, i)
<1>1. PICK k \in Nat, n \in Nat, f \in Nat : k = Lead(r) /\ n = Size(r) /\ f = Final(r)
  BY LeadIs, SizeIs, PathOfDevice
<1>2. (Kind[r] = "auto" /\ k = 3) \/ (Kind[r] # "auto" /\ k = 2)
  BY <1>1, LeadIs
<1>3. i \in 1..f
  BY <1>1
<1>4. CASE i <= k
  <2>1. i = 1 \/ (i = 2 /\ Kind[r] = "auto") \/ i = k
    BY <1>2, <1>3, <1>4
  <2>2. CASE i = 1
    BY <2>2, PathOfDevice DEF PlaceReads
  <2>3. CASE i = 2 /\ Kind[r] = "auto"
    BY <2>3, PathOfDevice DEF PlaceReads
  <2>4. CASE i = k
    BY <1>1, <2>4, PathOfDevice DEF PlaceReads
  <2>5. QED
    BY <2>1, <2>2, <2>3, <2>4
<1>5. CASE k < i /\ i <= k + n
  <2>1. i \in (k + 1)..(k + n)
    BY <1>3, <1>5
  <2>2. QED
    BY <1>1, <2>1, PathOfDevice DEF PlaceReads
<1>6. CASE k + n < i /\ i = f
  BY <1>1, <1>6, PathOfDevice DEF PlaceReads
<1>7. CASE k + n < i /\ i # f
  <2>1. Used(r)
    <3>1. ~Used(r) => f = k + n + 1
      BY <1>1, PathOfDevice
    <3>2. QED
      BY <1>3, <1>7, <3>1
  <2>2. PICK p \in Nat : p = Paper(r) /\ p + 1 = f /\ k + n < p
    <3>1. Paper(r) + 1 = f /\ k + n < Paper(r)
      BY <1>1, <2>1, PathOfDevice
    <3>2. Paper(r) \in Nat
      BY <2>1, PaperIs
    <3>3. QED
      BY <3>1, <3>2
  <2>3. i = p \/ i \in (k + n + 1)..(p - 1)
    BY <1>3, <1>7, <2>2
  <2>4. QED
    <3>1. CASE i = p
      BY <2>1, <2>2, <3>1, PathOfDevice DEF PlaceReads
    <3>2. CASE i \in (k + n + 1)..(p - 1)
      <4>1. i \in (Lead(r) + Size(r) + 1)..(Paper(r) - 1)
        BY <1>1, <2>2, <3>2
      <4>2. Path[r][i] = "seller"
        BY <2>1, <4>1, PathOfDevice
      <4>3. QED
        BY <2>1, <4>1, <4>2 DEF PlaceReads
    <3>3. QED
      BY <2>3, <3>1, <3>2
<1> QED
  BY <1>1, <1>3, <1>4, <1>5, <1>6, <1>7

\* The statements of a registration are statements of the model.
LEMMA StatementsAre ==
    ASSUME ConstantsAssumption, NEW r \in Device
    PROVE  /\ "check" \in Statements /\ "device" \in Statements /\ "imei" \in Statements
           /\ "commit" \in Statements /\ (Kind[r] = "auto" => "branch" \in Statements)
           /\ Used(r) => "paper" \in Statements
<1>1. r \in Request
  BY SizeIs
<1>2. PICK k \in Nat, n \in Nat, f \in Nat :
           k = Lead(r) /\ n = Size(r) /\ f = Final(r) /\ k \in 2..3 /\ n > 0 /\ k + n < f
  BY LeadIs, SizeIs, PathOfDevice
<1>3. 1 \in 1..f /\ k \in 1..f /\ k + 1 \in 1..f /\ f \in 1..f /\ 2 \in 1..f
  BY <1>2
<1>4. k + 1 \in (k + 1)..(k + n)
  BY <1>2
<1>5. DOMAIN Path[r] = 1..f
  BY <1>2, PathOfDevice
<1>6. Path[r][1] = "check" /\ Path[r][k] = "device" 
      /\ Path[r][k + 1] = "imei" /\ Path[r][f] = "commit"
  BY <1>2, <1>4, PathOfDevice
<1>7. /\ "check" \in Statements /\ "device" \in Statements /\ "imei" \in Statements
      /\ "commit" \in Statements
  BY <1>1, <1>3, <1>5, <1>6, SpokenIs
<1>8. Kind[r] = "auto" => "branch" \in Statements
  <2>1. HAVE Kind[r] = "auto"
  <2>2. Path[r][2] = "branch"
    BY <2>1, PathOfDevice
  <2>3. QED
    BY <1>1, <1>3, <1>5, <2>2, SpokenIs
<1>9. ASSUME Used(r) PROVE "paper" \in Statements
  <2>1. PICK p \in Nat : p = Paper(r) /\ p + 1 = f /\ k + n < p
    BY <1>2, <1>9, PaperIs, PathOfDevice
  <2>2. p \in 1..f
    BY <1>2, <2>1
  <2>3. Path[r][p] = "paper"
    BY <1>9, <2>1, PathOfDevice
  <2>4. QED
    BY <1>1, <1>5, <2>2, <2>3, SpokenIs
<1> QED
  BY <1>7, <1>8, <1>9

\* The place of each lock of a registration.
LEMMA PlacesOfDevice ==
    ASSUME ConstantsAssumption, NEW r \in Device
    PROVE  /\ Place[r]["device"] = Lead(r)
           /\ Place[r]["imei"] = Lead(r) + 1
           /\ Kind[r] = "auto" => Place[r]["branch"] = 2
           /\ Used(r) => Place[r]["paper"] = Paper(r)
           /\ ~Used(r) /\ "paper" \in Statements => Place[r]["paper"] = Final(r) + 1
<1>1. r \in Request
  BY SizeIs
<1>2. PICK k \in Nat, n \in Nat, f \in Nat :
           k = Lead(r) /\ n = Size(r) /\ f = Final(r) /\ k \in 2..3 /\ n > 0 /\ k + n < f
  BY LeadIs, SizeIs, PathOfDevice
<1>3. Len(Path[r]) = f
  BY <1>2, PathOfDevice
<1>4. ASSUME NEW i \in 1..f
      PROVE  /\ i < k => Path[r][i] # "device" /\ Path[r][i] # "paper"
             /\ i <= k => Path[r][i] # "imei"
             /\ i < 2 => Path[r][i] # "branch"
             /\ i <= k + n => Path[r][i] # "paper"
             /\ Used(r) /\ i < Paper(r) => Path[r][i] # "paper"
             /\ ~Used(r) => Path[r][i] # "paper"
  <2>1. PlaceReads(r, i)
    BY <1>2, EachPlace
  <2>2. CASE i = 1 /\ Path[r][i] = "check"
    BY <2>2
  <2>3. CASE i = 2 /\ Kind[r] = "auto" /\ Path[r][i] = "branch"
    BY <2>3
  <2>4. CASE i = k /\ Path[r][i] = "device"
    BY <2>4
  <2>5. CASE i \in (k + 1)..(k + n) /\ Path[r][i] = "imei"
    BY <2>5
  <2>6. CASE Path[r][i] = "seller"
    BY <2>6
  <2>7. CASE Used(r) /\ i = Paper(r) /\ Path[r][i] = "paper"
    <3>1. PICK p \in Nat : p = Paper(r) /\ k + n < p
      BY <1>2, <2>7, PaperIs, PathOfDevice
    <3>2. QED
      BY <1>2, <2>7, <3>1
  <2>8. CASE Path[r][i] = "commit"
    BY <2>8
  <2>9. QED
    BY <1>2, <2>1, <2>2, <2>3, <2>4, <2>5, <2>6, <2>7, <2>8 DEF PlaceReads
<1>5. Place[r]["device"] = k
  <2>1. Path[r][k] = "device"
    BY <1>2, PathOfDevice
  <2>2. \A j \in 1..(k - 1) : Path[r][j] # "device"
    <3>1. \A j \in 1..(k - 1) : j \in 1..f /\ j < k
      BY <1>2
    <3>2. QED
      BY <1>4, <3>1
  <2>3. k \in 1..(f + 1)
    BY <1>2
  <2>4. StandsFirst(r, "device", f, k)
    BY <1>3, <2>1, <2>2, <2>3 DEF StandsFirst
  <2>5. QED
    BY <1>1, <2>4, StatementsAre, PlaceIs
<1>6. Place[r]["imei"] = k + 1
  <2>1. k + 1 \in 1..(f + 1) /\ k + 1 \in (k + 1)..(k + n) /\ (k + 1) - 1 = k
    BY <1>2
  <2>2. Path[r][k + 1] = "imei"
    BY <1>2, <2>1, PathOfDevice
  <2>3. \A j \in 1..((k + 1) - 1) : Path[r][j] # "imei"
    <3>1. \A j \in 1..((k + 1) - 1) : j \in 1..f /\ j <= k
      BY <1>2
    <3>2. QED
      BY <1>4, <3>1
  <2>4. StandsFirst(r, "imei", f, k + 1)
    BY <1>3, <2>1, <2>2, <2>3 DEF StandsFirst
  <2>5. k + 1 \in Nat
    OBVIOUS
  <2>6. QED
    BY <1>1, <2>4, <2>5, StatementsAre, PlaceIs
<1>7. ASSUME Kind[r] = "auto" PROVE Place[r]["branch"] = 2
  <2>1. Path[r][2] = "branch"
    BY <1>7, PathOfDevice
  <2>2. \A j \in 1..(2 - 1) : j \in 1..f /\ j < 2
    BY <1>2
  <2>3. \A j \in 1..(2 - 1) : Path[r][j] # "branch"
    BY <1>4, <2>2
  <2>4. 2 \in 1..(f + 1)
    BY <1>2
  <2>5. StandsFirst(r, "branch", f, 2)
    BY <1>3, <2>1, <2>3, <2>4 DEF StandsFirst
  <2>6. QED
    BY <1>1, <1>7, <2>5, StatementsAre, PlaceIs
<1>8. ASSUME Used(r) PROVE Place[r]["paper"] = Paper(r)
  <2>1. PICK p \in Nat : p = Paper(r) /\ p + 1 = f /\ k + n < p
    BY <1>2, <1>8, PaperIs, PathOfDevice
  <2>2. p \in 1..(f + 1)
    BY <1>2, <2>1
  <2>3. Path[r][p] = "paper"
    BY <1>8, <2>1, PathOfDevice
  <2>4. \A j \in 1..(p - 1) : j \in 1..f /\ j < p
    BY <2>1
  <2>5. \A j \in 1..(p - 1) : Path[r][j] # "paper"
    BY <1>4, <1>8, <2>1, <2>4
  <2>6. StandsFirst(r, "paper", f, p)
    BY <1>3, <2>2, <2>3, <2>5 DEF StandsFirst
  <2>7. QED
    BY <1>1, <1>8, <2>1, <2>6, StatementsAre, PlaceIs
<1>9. ASSUME ~Used(r), "paper" \in Statements PROVE Place[r]["paper"] = f + 1
  <2>1. f + 1 \in 1..(f + 1) /\ ~(f + 1 <= f) /\ (f + 1) - 1 = f
    BY <1>2
  <2>2. \A j \in 1..((f + 1) - 1) : Path[r][j] # "paper"
    BY <1>4, <1>9, <2>1
  <2>3. StandsFirst(r, "paper", f, f + 1)
    BY <1>3, <2>1, <2>2 DEF StandsFirst
  <2>4. f + 1 \in Nat
    OBVIOUS
  <2>5. QED
    BY <1>1, <1>9, <2>3, <2>4, PlaceIs
<1> QED
  BY <1>2, <1>5, <1>6, <1>7, <1>8, <1>9

\* The place of the lock of every other request, and of the paperwork it never files.
LEMMA PlacesOfOthers ==
    ASSUME ConstantsAssumption, NEW r \in Request, r \notin Device
    PROVE  /\ Kind[r] # "create" => /\ "lock" \in Statements /\ Place[r]["lock"] = 1
                                    /\ "log" \in Statements /\ Place[r]["log"] = 2
           /\ "paper" \in Statements => Place[r]["paper"] = Len(Path[r]) + 1
           /\ Len(Path[r]) \in 1..3 /\ DOMAIN Path[r] = 1..Len(Path[r])
<1>1. CASE Kind[r] = "create"
  <2>0. PICK P : P = Path[r] /\ P = <<"create">>
    BY <1>1, PathOfOthers
  <2>1. Len(Path[r]) = 1 /\ DOMAIN Path[r] = 1..1 /\ Path[r][1] = "create"
    BY <2>0
  <2>2. 2 \in 1..(1 + 1) /\ ~(2 <= 1) /\ \A j \in 1..(2 - 1) : j = 1
    OBVIOUS
  <2>3. \A j \in 1..(2 - 1) : Path[r][j] # "paper"
    BY <2>1, <2>2
  <2>4. "paper" \in Statements => Place[r]["paper"] = 2
    <3>1. StandsFirst(r, "paper", 1, 2)
      BY <2>1, <2>2, <2>3 DEF StandsFirst
    <3>2. QED
      BY <3>1, PlaceIs
  <2>5. QED
    BY <1>1, <2>1, <2>4
<1>2. CASE Kind[r] # "create"
  <2>0. PICK P : P = Path[r] /\ P = <<"lock", "log", "commit">>
    BY <1>2, PathOfOthers
  <2>1. /\ Len(Path[r]) = 3 /\ DOMAIN Path[r] = 1..3
        /\ Path[r][1] = "lock" /\ Path[r][2] = "log" /\ Path[r][3] = "commit"
    BY <2>0
  <2>2. 4 \in 1..(3 + 1) /\ ~(4 <= 3) /\ (\A j \in 1..(4 - 1) : j = 1 \/ j = 2 \/ j = 3)
        /\ 1 \in 1..(3 + 1) /\ (1..(1 - 1)) = {} /\ 1 \in 1..3
        /\ 2 \in 1..(3 + 1) /\ (\A j \in 1..(2 - 1) : j = 1) /\ 2 \in 1..3
    OBVIOUS
  <2>3. \A j \in 1..(4 - 1) : Path[r][j] # "paper"
    BY <2>1, <2>2
  <2>4. "paper" \in Statements => Place[r]["paper"] = 4
    <3>1. StandsFirst(r, "paper", 3, 4)
      BY <2>1, <2>2, <2>3 DEF StandsFirst
    <3>2. QED
      BY <3>1, PlaceIs
  <2>5. "lock" \in Statements /\ "log" \in Statements
    <3>1. 1 \in DOMAIN Path[r] /\ 2 \in DOMAIN Path[r]
      BY <2>1, <2>2
    <3>2. QED
      BY <2>1, <3>1, SpokenIs
  <2>6. Place[r]["lock"] = 1
    <3>1. StandsFirst(r, "lock", 3, 1)
      BY <2>1, <2>2 DEF StandsFirst
    <3>2. QED
      BY <2>5, <3>1, PlaceIs
  <2>7. Place[r]["log"] = 2
    <3>1. StandsFirst(r, "log", 3, 2)
      BY <2>1, <2>2 DEF StandsFirst
    <3>2. QED
      BY <2>5, <3>1, PlaceIs
  <2>8. QED
    BY <2>1, <2>4, <2>5, <2>6, <2>7
<1> QED
  BY <1>1, <1>2

-----------------------------------------------------------------------------
(* Where a request is.                                                     *)

OnPath(r) == step[r] \in Nat \ {0} /\ (Running(r) => step[r] \in DOMAIN Path[r])

\* A registration at a statement is at its place.
LEMMA DeviceIsAt ==
    ASSUME ConstantsAssumption, NEW r \in Device, Running(r), OnPath(r)
    PROVE  /\ step[r] \in 1..Final(r)
           /\ ~At(r, "lock") /\ ~At(r, "log") /\ ~At(r, "create")
           /\ At(r, "check") => step[r] = 1
           /\ At(r, "branch") => step[r] = 2 /\ Kind[r] = "auto"
           /\ At(r, "device") => step[r] = Lead(r)
           /\ At(r, "imei") => step[r] \in (Lead(r) + 1)..(Lead(r) + Size(r))
           /\ At(r, "seller") => Used(r) /\ step[r] \in (Lead(r) + Size(r) + 1)..(Paper(r) - 1)
           /\ At(r, "paper") => Used(r) /\ step[r] = Paper(r)
           /\ At(r, "commit") => step[r] = Final(r)
<1>1. step[r] \in 1..Final(r)
  BY PathOfDevice DEF OnPath
<1>2. PlaceReads(r, step[r])
  BY <1>1, EachPlace
<1>3. QED
  BY <1>1, <1>2 DEF PlaceReads, At

\* Every other request has its lock to take, its log to write, or its commit.
LEMMA OtherIsAt ==
    ASSUME ConstantsAssumption, NEW r \in Request, r \notin Device, Running(r), OnPath(r)
    PROVE  /\ \A s \in {"check", "branch", "device", "imei", "seller", "paper"} : ~At(r, s)
           /\ At(r, "lock") => step[r] = 1 /\ Kind[r] # "create"
           /\ At(r, "log") => step[r] = 2 /\ Kind[r] # "create"
           /\ At(r, "commit") => step[r] = 3 /\ Kind[r] # "create"
           /\ At(r, "create") => Kind[r] = "create" /\ step[r] = 1
           /\ Kind[r] # "create" => /\ step[r] \in 1..3
                                    /\ step[r] = 1 => At(r, "lock")
                                    /\ step[r] = 2 => At(r, "log")
                                    /\ step[r] = 3 => At(r, "commit")
<1>1. CASE Kind[r] = "create"
  <2>1. PICK P : P = Path[r] /\ P = <<"create">>
    BY <1>1, PathOfOthers
  <2>2. step[r] = 1 /\ Path[r][step[r]] = "create"
    BY <2>1 DEF OnPath
  <2>3. QED
    BY <1>1, <2>2 DEF At
<1>2. CASE Kind[r] # "create"
  <2>1. PICK P : P = Path[r] /\ P = <<"lock", "log", "commit">>
    BY <1>2, PathOfOthers
  <2>2. \/ step[r] = 1 /\ Path[r][step[r]] = "lock"
        \/ step[r] = 2 /\ Path[r][step[r]] = "log"
        \/ step[r] = 3 /\ Path[r][step[r]] = "commit"
    BY <2>1 DEF OnPath
  <2>3. QED
    BY <1>2, <2>2 DEF At
<1> QED
  BY <1>1, <1>2

\* What a registration holds, by its place.
LEMMA DeviceHolds ==
    ASSUME ConstantsAssumption, NEW r \in Device
    PROVE  /\ HoldsBranch(r) <=> Running(r) /\ Kind[r] = "auto" /\ step[r] > 2
           /\ SharesBranch(r) <=> Running(r) /\ step[r] > Lead(r)
           /\ ~HoldsDevice(r) /\ ~HoldsSeller(r)
           /\ Used(r) => (Passed(r, "paper") <=> Running(r) /\ step[r] > Paper(r))
           /\ OnPath(r) /\ ~Used(r) /\ "paper" \in Statements => ~Passed(r, "paper")
<1>1. /\ HoldsBranch(r) <=> Running(r) /\ Kind[r] = "auto" /\ step[r] > 2
      /\ SharesBranch(r) <=> Running(r) /\ step[r] > Lead(r)
      /\ Used(r) => (Passed(r, "paper") <=> Running(r) /\ step[r] > Paper(r))
  BY PlacesOfDevice, KindIs, SizeIs DEF HoldsBranch, SharesBranch, Passed
<1>2. ~HoldsDevice(r) /\ ~HoldsSeller(r)
  BY KindIs, SizeIs DEF HoldsDevice, HoldsSeller
<1>3. ASSUME OnPath(r), ~Used(r), "paper" \in Statements PROVE ~Passed(r, "paper")
  <2>1. Place[r]["paper"] = Final(r) + 1
    BY <1>3, PlacesOfDevice
  <2>2. Running(r) => step[r] \in 1..Final(r) /\ Final(r) \in Nat
    BY <1>3, PathOfDevice DEF OnPath
  <2>3. QED
    BY <2>1, <2>2 DEF Passed
<1> QED
  BY <1>1, <1>2, <1>3

\* What every other request holds, by its place.
LEMMA OtherHolds ==
    ASSUME ConstantsAssumption, NEW r \in Request, r \notin Device
    PROVE  /\ ~HoldsBranch(r) /\ ~SharesSeller(r)
           /\ SharesBranch(r) <=> Kind[r] # "create" /\ Running(r) /\ step[r] > 2
           /\ HoldsDevice(r) <=> Kind[r] = "patch" /\ Running(r) /\ step[r] > 1
           /\ HoldsSeller(r) <=> Kind[r] = "update" /\ Running(r) /\ step[r] > 1
           /\ OnPath(r) /\ "paper" \in Statements => ~Passed(r, "paper")
<1>1. ~HoldsBranch(r) /\ ~SharesSeller(r)
  BY KindIs DEF HoldsBranch, SharesSeller
<1>2. /\ HoldsDevice(r) <=> Kind[r] = "patch" /\ Running(r) /\ step[r] > 1
      /\ HoldsSeller(r) <=> Kind[r] = "update" /\ Running(r) /\ step[r] > 1
      /\ SharesBranch(r) <=> Kind[r] # "create" /\ Running(r) /\ step[r] > 2
  BY PlacesOfOthers, PathOfOthers DEF HoldsDevice, HoldsSeller, SharesBranch, Passed
<1>3. ASSUME OnPath(r), "paper" \in Statements PROVE ~Passed(r, "paper")
  <2>1. Place[r]["paper"] = Len(Path[r]) + 1
    BY <1>3, PlacesOfOthers
  <2>2. Running(r) => step[r] \in 1..Len(Path[r]) /\ Len(Path[r]) \in 1..3
    BY <1>3, PlacesOfOthers DEF OnPath
  <2>3. QED
    BY <2>1, <2>2 DEF Passed
<1> QED
  BY <1>1, <1>2, <1>3

-----------------------------------------------------------------------------
(* Circles.                                                                *)

\* While a number is allocated and until it is committed the branch is nobody else's.
BranchInv ==
    \A r, q \in Request :
        HoldsBranch(r) /\ (HoldsBranch(q) \/ SharesBranch(q)) /\ SameBranch(r, q) => r = q

\* A registration that has inserted an IMEI has inserted the device.
LEMMA HasInserted ==
    ASSUME ConstantsAssumption, NEW q \in Device, NEW x \in InsertedImeis(q)
    PROVE  Running(q) /\ \E n \in Nat : n > 0 /\ step[q] >= Lead(q) + 1 + n
<1>1. PICK i \in DOMAIN ImeisOf[q] : Running(q) /\ step[q] >= Place[q]["imei"] + i
  BY DEF InsertedImeis
<1>2. i \in Nat /\ i > 0
  BY SizeIs
<1>3. QED
  BY <1>1, <1>2, PlacesOfDevice

\* Who has begun and waits is a registration in one of four places, or writes its log.
LEMMA WhoWaits ==
    ASSUME ConstantsAssumption, NEW r \in Request, OnPath(r), Running(r), step[r] > 1,
           NEW q \in Request, WaitsFor(r, q)
    PROVE  \/ /\ r \in Device
              /\ At(r, "branch") \/ At(r, "device") \/ At(r, "imei") \/ At(r, "paper")
           \/ r \notin Device /\ At(r, "log") /\ HoldsBranch(q)
<1>1. ~At(r, "lock")
  <2>1. CASE r \in Device
    BY <2>1, DeviceIsAt
  <2>2. CASE r \notin Device
    <3>1. At(r, "lock") => step[r] = 1
      BY <2>2, OtherIsAt
    <3>2. step[r] # 1
      OBVIOUS
    <3>3. QED
      BY <3>1, <3>2
  <2>3. QED
    BY <2>1, <2>2
<1>2. \/ At(r, "branch") \/ At(r, "device") \/ At(r, "imei") \/ At(r, "paper")
      \/ At(r, "log") /\ HoldsBranch(q)
  BY <1>1 DEF WaitsFor
<1>3. CASE r \in Device
  BY <1>2, <1>3, DeviceIsAt
<1>4. CASE r \notin Device
  BY <1>2, <1>4, OtherIsAt
<1>5. QED
  BY <1>3, <1>4

\* Whoever writes its log keeps nobody waiting but the paperwork of its seller.
LEMMA BehindLog ==
    ASSUME ConstantsAssumption, NEW r \in Request, r \notin Device, OnPath(r), Running(r), At(r, "log"),
           NEW t \in Request, OnPath(t), Running(t), step[t] > 1, WaitsFor(t, r)
    PROVE  At(t, "paper") /\ Kind[r] = "update"
<1>1. step[r] = 2
  BY OtherIsAt
<1>2. ~HoldsBranch(r) /\ ~SharesBranch(r)
  <2>1. ~(step[r] > 2)
    BY <1>1
  <2>2. QED
    BY <2>1, OtherHolds
<1>3. ~Passed(r, "paper") \/ "paper" \notin Statements
  BY OtherHolds
<1>4. \/ t \in Device /\ (At(t, "branch") \/ At(t, "device") \/ At(t, "imei") \/ At(t, "paper"))
      \/ t \notin Device /\ At(t, "log") /\ HoldsBranch(r)
  BY WhoWaits
<1>5. At(t, "paper")
  BY <1>2, <1>4 DEF WaitsFor, At
<1>6. "paper" \in Statements
  <2>1. t \in Device
    BY <1>2, <1>4
  <2>2. Used(t)
    BY <1>5, <2>1, DeviceIsAt
  <2>3. QED
    BY <2>1, <2>2, StatementsAre
<1>7. HoldsSeller(r)
  BY <1>3, <1>5, <1>6 DEF WaitsFor, At
<1>8. QED
  BY <1>5, <1>7 DEF HoldsSeller

\* Whoever still waits is not waited for by one that files its paperwork.
LEMMA NoneFilesBehind ==
    ASSUME ConstantsAssumption, NEW r \in Device, OnPath(r), Running(r),
           At(r, "branch") \/ At(r, "device") \/ At(r, "imei") \/ At(r, "paper"),
           NEW t \in Device, OnPath(t), Running(t), WaitsFor(t, r)
    PROVE  ~At(t, "paper")
<1>1. SUFFICES ASSUME At(t, "paper") PROVE FALSE
  OBVIOUS
<1>2. "paper" \in Statements
  BY <1>1, DeviceIsAt, StatementsAre
<1>3. Passed(r, "paper")
  <2>1. ~At(t, "branch") /\ ~At(t, "device") /\ ~At(t, "imei") /\ ~At(t, "lock") /\ ~At(t, "log")
    BY <1>1 DEF At
  <2>2. ~HoldsSeller(r)
    BY DeviceHolds
  <2>3. QED
    BY <2>1, <2>2 DEF WaitsFor
<1>4. Used(r) /\ step[r] > Paper(r)
  BY <1>2, <1>3, DeviceHolds
<1>5. PICK k \in Nat, n \in Nat, p \in Nat :
         k = Lead(r) /\ n = Size(r) /\ p = Paper(r) /\ k + n < p
  BY <1>4, LeadIs, SizeIs, PaperIs, PathOfDevice
<1>6. step[r] \in Nat
      /\ (step[r] = 2 \/ step[r] = k \/ step[r] \in (k + 1)..(k + n) \/ step[r] = p)
  <2>1. step[r] \in Nat
    BY DEF OnPath
  <2>2. At(r, "branch") => step[r] = 2
    BY DeviceIsAt
  <2>3. At(r, "device") => step[r] = k
    BY <1>5, DeviceIsAt
  <2>4. At(r, "imei") => step[r] \in (k + 1)..(k + n)
    BY <1>5, DeviceIsAt
  <2>5. At(r, "paper") => step[r] = p
    BY <1>5, DeviceIsAt
  <2>6. QED
    BY <2>1, <2>2, <2>3, <2>4, <2>5
<1>7. step[r] > p /\ 1 < k
  <2>1. k \in 2..3
    BY <1>5, LeadIs
  <2>2. QED
    BY <1>4, <1>5, <2>1
<1>8. QED
  BY <1>5, <1>6, <1>7

\* Nobody waits for one that waits for the branch.
LEMMA NoneBehindAllocation ==
    ASSUME ConstantsAssumption, NEW r \in Device, OnPath(r), Running(r), At(r, "branch"),
           NEW t \in Device, OnPath(t), Running(t), WaitsFor(t, r)
    PROVE  FALSE
<1>1. step[r] = 2 /\ Kind[r] = "auto" /\ Lead(r) = 3
  BY DeviceIsAt, LeadIs
<1>2. ~HoldsBranch(r) /\ ~SharesBranch(r) /\ ~HoldsDevice(r) /\ ~HoldsSeller(r)
  <2>1. ~(step[r] > 2) /\ ~(step[r] > Lead(r))
    BY <1>1
  <2>2. QED
    BY <2>1, DeviceHolds
<1>3. InsertedImeis(r) = {}
  <2>1. \A n \in Nat : n > 0 => ~(step[r] >= Lead(r) + 1 + n)
    BY <1>1
  <2>2. QED
    BY <2>1, HasInserted
<1>4. At(t, "paper")
  <2>1. ~At(t, "lock") /\ ~At(t, "log")
    BY DeviceIsAt
  <2>2. QED
    BY <1>2, <1>3, <2>1 DEF WaitsFor
<1>5. QED
  BY <1>4, NoneFilesBehind

\* One that waits to insert its device is waited for by no such other one, because
\* both wait for the only request that holds the branch.
LEMMA DeviceStraight ==
    ASSUME ConstantsAssumption, BranchInv,
           NEW r \in Device, OnPath(r), Running(r), At(r, "device"),
           NEW q \in Request, WaitsFor(r, q),
           NEW t \in Device, OnPath(t), Running(t), WaitsFor(t, r),
           At(t, "device") \/ At(t, "imei")
    PROVE  FALSE
<1>1. r \in Request
  BY SizeIs
<1>2. step[r] = Lead(r)
  BY DeviceIsAt
<1>3. ~SharesBranch(r)
  <2>1. ~(step[r] > Lead(r))
    BY <1>2, LeadIs
  <2>2. QED
    BY <2>1, DeviceHolds
<1>4. InsertedImeis(r) = {}
  <2>1. \A n \in Nat : n > 0 => ~(step[r] >= Lead(r) + 1 + n)
    BY <1>2, LeadIs
  <2>2. QED
    BY <2>1, HasInserted
<1>5. At(t, "device") /\ ~At(t, "imei")
  <2>1. CASE At(t, "imei")
    BY <1>4, <2>1 DEF WaitsFor, At
  <2>2. QED
    BY <2>1
<1>6. HoldsBranch(r) /\ SameBranch(t, r)
  BY <1>5 DEF WaitsFor, At
<1>7. HoldsBranch(q) /\ SameBranch(r, q) /\ r # q
  BY DEF WaitsFor, At
<1>8. QED
  BY <1>1, <1>6, <1>7 DEF BranchInv

\* One that waits for an IMEI and has inserted another lists several.
LEMMA SeveralImeis ==
    ASSUME ConstantsAssumption, NEW r \in Device, OnPath(r), Running(r), At(r, "imei"),
           NEW t \in Device, At(t, "imei"), WaitsFor(t, r)
    PROVE  Len(ImeisOf[r]) > 1
<1>1. NextImei(t) \in InsertedImeis(r)
  BY DEF WaitsFor, At
<1>2. PICK m \in Nat : m > 0 /\ step[r] >= Lead(r) + 1 + m
  BY <1>1, HasInserted
<1>3. PICK k \in Nat, n \in Nat : k = Lead(r) /\ n = Size(r)
  BY LeadIs, SizeIs
<1>4. step[r] \in (k + 1)..(k + n)
  BY <1>3, DeviceIsAt
<1>5. n > 1
  BY <1>2, <1>3, <1>4
<1>6. QED
  BY <1>3, <1>5 DEF Size

\* A circle without an update of a seller is one of IMEIs.
LEMMA OnlyTwoKinds ==
    ASSUME ConstantsAssumption, BranchInv, \A r \in Request : OnPath(r)
    PROVE  TwoKindsOfCircles
<1> DEFINE OfSellers(S) ==
              \E u, a, e \in S :
                 /\ Kind[u] = "update" /\ WaitsFor(u, a) /\ Kind[a] = "auto"
                 /\ At(e, "paper") /\ WaitsFor(e, u)
<1>1. SUFFICES ASSUME NEW S \in Circles, ~OfSellers(S), NEW r \in S
               PROVE  At(r, "imei") /\ Len(ImeisOf[r]) > 1
  BY DEF TwoKindsOfCircles
<1>2. ASSUME NEW p \in S
      PROVE  /\ p \in Request /\ Running(p) /\ step[p] > 1
             /\ \E q \in S : q \in Request /\ WaitsFor(p, q)
             /\ \E t \in S : t \in Request /\ WaitsFor(t, p)
  <2>1. PICK q \in S, t \in S : <<p, q>> \in Waits /\ <<t, p>> \in Waits
    BY DEF Circles
  <2>2. <<p, q>> \in InFlight \X InFlight /\ WaitsFor(p, q)
    BY <2>1 DEF Waits
  <2>3. <<t, p>> \in InFlight \X InFlight /\ WaitsFor(t, p)
    BY <2>1 DEF Waits
  <2>4. QED
    BY <2>2, <2>3 DEF InFlight
<1>3. ASSUME NEW p \in S
      PROVE  /\ p \in Device
             /\ At(p, "branch") \/ At(p, "device") \/ At(p, "imei") \/ At(p, "paper")
  <2>1. PICK q \in S : q \in Request /\ WaitsFor(p, q)
    BY <1>2
  <2>2. PICK t \in S : t \in Request /\ WaitsFor(t, p)
    BY <1>2
  <2>3. ASSUME p \notin Device, At(p, "log"), HoldsBranch(q) PROVE FALSE
    <3>1. At(t, "paper") /\ Kind[p] = "update"
      BY <1>2, <2>2, <2>3, BehindLog
    <3>2. Kind[q] = "auto"
      BY <2>3 DEF HoldsBranch
    <3>3. QED
      BY <1>1, <2>1, <2>2, <3>1, <3>2
  <2>4. QED
    BY <1>2, <2>1, <2>3, WhoWaits
<1>4. ASSUME NEW p \in S PROVE At(p, "device") \/ At(p, "imei")
  <2>1. PICK q \in S, t \in S : WaitsFor(p, q) /\ WaitsFor(t, p)
    BY <1>2
  <2>2. ~At(p, "paper")
    BY <1>2, <1>3, <2>1, NoneFilesBehind
  <2>3. ~At(p, "branch")
    BY <1>2, <1>3, <2>1, NoneBehindAllocation
  <2>4. QED
    BY <1>3, <2>2, <2>3
<1>5. PICK q \in S, t \in S : q \in Request /\ WaitsFor(r, q) /\ WaitsFor(t, r)
  BY <1>2
<1>6. ~At(r, "device")
  BY <1>2, <1>3, <1>4, <1>5, DeviceStraight
<1>7. At(r, "imei")
  BY <1>4, <1>6
<1>8. At(t, "imei")
  <2>1. CASE At(t, "device")
    <3>1. PICK u \in S : WaitsFor(u, t)
      BY <1>2
    <3>2. QED
      BY <1>2, <1>3, <1>4, <1>5, <2>1, <3>1, DeviceStraight
  <2>2. QED
    BY <1>4, <2>1
<1>9. QED
  BY <1>2, <1>3, <1>5, <1>7, <1>8, SeveralImeis

-----------------------------------------------------------------------------
(* The inductive invariant.                                                *)

PathInv == \A r \in Request : OnPath(r)

\* What has committed is answered, and finitely much of it.
AppliedInv ==
    /\ applied \in SUBSET Request /\ IsFiniteSet(applied)
    /\ \A r \in applied : answer[r] = "done"

\* An allocated number is nobody's in the branch until it is committed.
FreshInv ==
    /\ \A r \in Request : HoldsBranch(r) => number[r] \notin Vouchers(BranchOf[r])
    /\ AllocatedVouchersAreFree

\* A locked device is there, is locked once, and has the status that was read.
LockInv ==
    \A r \in Request : HoldsDevice(r) =>
        /\ DeviceOf[r] \in applied /\ seen[r] = status[DeviceOf[r]]
        /\ \A q \in Request : HoldsDevice(q) /\ DeviceOf[q] = DeviceOf[r] => q = r

SellerInv == \A r \in Request : HoldsSeller(r) => SellerOf[r] \in known

\* The movements of a device, told one device at a time.
Tells(list, now) ==
    /\ list # <<>> /\ list[1][1] = None
    /\ \A i \in 2..Len(list) : list[i][1] = list[i - 1][2] /\ list[i][1] # list[i][2]
    /\ list[Len(list)][2] = now

MoveInv ==
    \A d \in Device :
        IF d \in applied THEN Tells(moves[d], status[d])
        ELSE moves[d] = <<>> /\ status[d] = "IN_STOCK"

DeskInv ==
    TypeOK /\ PathInv /\ AppliedInv /\ BranchInv /\ FreshInv /\ LockInv /\ SellerInv /\ MoveInv

-----------------------------------------------------------------------------
(* The steps, by what they do to the request that takes them.              *)

\* A request goes on without reading or writing anything.
Walks(p) ==
    /\ Running(p) /\ GoesOn(p) /\ UNCHANGED <<number, seen>>
    /\ ~At(p, "branch") /\ ~At(p, "commit") /\ ~At(p, "create")
    /\ At(p, "device") \/ At(p, "log") => Free(p)
    /\ At(p, "lock") => Kind[p] = "update" /\ SellerOf[p] \in known

Allocates(p) ==
    /\ At(p, "branch") /\ Free(p) /\ Largest(BranchOf[p]) < MaxBigint
    /\ number' = [number EXCEPT ![p] = Largest(BranchOf[p]) + 1]
    /\ GoesOn(p) /\ UNCHANGED seen

Locks(p) ==
    /\ Kind[p] = "patch" /\ At(p, "lock") /\ Free(p) /\ DeviceOf[p] \in applied
    /\ seen' = [seen EXCEPT ![p] = status[DeviceOf[p]]]
    /\ GoesOn(p) /\ UNCHANGED number

Creates(p) ==
    /\ At(p, "create") /\ Ends(p, "done")
    /\ applied' = applied \cup {p}
    /\ known' = known \cup {SellerOf[p]}
    /\ active' = active \cup {SellerOf[p]}
    /\ UNCHANGED <<number, status, moves>>

Fails(p) ==
    \E result \in {"refused", "taken", "failed"} :
        /\ Running(p) /\ Failed(p, result)
        /\ result = "taken" => Kind[p] = "explicit" \/ (At(p, "paper") /\ VoucherClash(p))

\* Each step of the model is one of six kinds.
LEMMA StepIs ==
    ASSUME Next
    PROVE  \E p \in Request :
              Walks(p) \/ Allocates(p) \/ Locks(p) \/ Creates(p) \/ Commit(p) \/ Fails(p)
<1>1. CASE BreakCircle
  <2>1. PICK S \in Circles : \E p \in S : Failed(p, "failed")
    BY <1>1 DEF BreakCircle
  <2>5. PICK p \in S : Failed(p, "failed")
    BY <2>1
  <2>2. p \in Request /\ Running(p)
    <3>1. PICK w \in Waits : p = w[1]
      BY DEF Circles
    <3>2. QED
      BY <3>1 DEF Waits, InFlight
  <2>3. Fails(p)
    BY <2>5, <2>2 DEF Fails
  <2>4. QED
    BY <2>2, <2>3
<1>2. ASSUME NEW p \in Request, Step(p)
      PROVE  Walks(p) \/ Allocates(p) \/ Locks(p) \/ Creates(p) \/ Commit(p) \/ Fails(p)
  <2>1. CASE Check(p)
    <3>1. Running(p) /\ ~At(p, "branch") /\ ~At(p, "commit") /\ ~At(p, "create")
          /\ ~At(p, "device") /\ ~At(p, "log") /\ ~At(p, "lock")
      BY <2>1 DEF Check, At
    <3>2. \/ Failed(p, "refused")
          \/ Kind[p] = "explicit" /\ Failed(p, "taken")
          \/ GoesOn(p) /\ UNCHANGED <<number, seen>>
      BY <2>1 DEF Check
    <3>3. QED
      BY <3>1, <3>2 DEF Walks, Fails
  <2>2. CASE AllocateVoucher(p)
    <3>1. At(p, "branch") /\ Free(p) /\ Running(p)
      BY <2>2 DEF AllocateVoucher, At
    <3>2. CASE Largest(BranchOf[p]) < MaxBigint
      BY <2>2, <3>1, <3>2 DEF AllocateVoucher, Allocates
    <3>3. CASE ~(Largest(BranchOf[p]) < MaxBigint)
      BY <2>2, <3>1, <3>3 DEF AllocateVoucher, Fails
    <3>4. QED
      BY <3>2, <3>3
  <2>3. CASE InsertDevice(p)
    <3>1. Running(p) /\ ~At(p, "branch") /\ ~At(p, "commit") /\ ~At(p, "create") /\ ~At(p, "lock")
      BY <2>3 DEF InsertDevice, At
    <3>2. QED
      BY <2>3, <3>1 DEF InsertDevice, Walks
  <2>4. CASE InsertImei(p)
    <3>1. Running(p) /\ ~At(p, "branch") /\ ~At(p, "commit") /\ ~At(p, "create")
          /\ ~At(p, "device") /\ ~At(p, "log") /\ ~At(p, "lock")
      BY <2>4 DEF InsertImei, At
    <3>2. QED
      BY <2>4, <3>1 DEF InsertImei, Walks, Fails
  <2>5. CASE CheckSeller(p)
    <3>1. Running(p) /\ ~At(p, "branch") /\ ~At(p, "commit") /\ ~At(p, "create")
          /\ ~At(p, "device") /\ ~At(p, "log") /\ ~At(p, "lock")
      BY <2>5 DEF CheckSeller, At
    <3>2. QED
      BY <2>5, <3>1 DEF CheckSeller, Walks, Fails
  <2>6. CASE InsertPaperwork(p)
    <3>1. Running(p) /\ ~At(p, "branch") /\ ~At(p, "commit") /\ ~At(p, "create")
          /\ ~At(p, "device") /\ ~At(p, "log") /\ ~At(p, "lock")
      BY <2>6 DEF InsertPaperwork, At
    <3>2. QED
      BY <2>6, <3>1 DEF InsertPaperwork, Walks, Fails
  <2>7. CASE LockDevice(p)
    <3>1. Running(p)
      BY <2>7 DEF LockDevice, At
    <3>2. QED
      BY <2>7, <3>1 DEF LockDevice, Locks, Fails
  <2>8. CASE LockSeller(p)
    <3>1. Running(p) /\ ~At(p, "branch") /\ ~At(p, "commit") /\ ~At(p, "create")
          /\ ~At(p, "device") /\ ~At(p, "log")
      BY <2>8 DEF LockSeller, At
    <3>2. QED
      BY <2>8, <3>1 DEF LockSeller, Walks, Fails
  <2>9. CASE CreateSeller(p)
    <3>1. Running(p)
      BY <2>9 DEF CreateSeller, At
    <3>2. QED
      BY <2>9, <3>1 DEF CreateSeller, Creates, Fails
  <2>10. CASE Commit(p)
    BY <2>10
  <2>11. CASE WriteLog(p)
    <3>1. Running(p) /\ ~At(p, "branch") /\ ~At(p, "commit") /\ ~At(p, "create") /\ ~At(p, "lock")
      BY <2>11 DEF WriteLog, At
    <3>2. QED
      BY <2>11, <3>1 DEF WriteLog, Walks
  <2>12. QED
    BY <1>2, <2>1, <2>2, <2>3, <2>4, <2>5, <2>6, <2>7, <2>8, <2>9, <2>10, <2>11 DEF Step
<1>3. QED
  BY <1>1, <1>2 DEF Next

-----------------------------------------------------------------------------
(* What requests hold after a step.                                        *)

\* The request that goes on.
Advances(p) == Running(p) /\ GoesOn(p) /\ ~At(p, "commit") /\ ~At(p, "create")

\* Going on, a request gains what stands at its place and nothing else.
Gains(p) ==
    \A q \in Request :
        /\ HoldsBranch(q)' => HoldsBranch(q) \/ (q = p /\ At(p, "branch"))
        /\ SharesBranch(q)' => SharesBranch(q) \/ (q = p /\ (At(p, "device") \/ At(p, "log")))
        /\ HoldsDevice(q)' => HoldsDevice(q) \/ (q = p /\ At(p, "lock"))
        /\ HoldsSeller(q)' => HoldsSeller(q) \/ (q = p /\ At(p, "lock"))

\* What ends lets go of everything.
LetsGo(p) ==
    \A q \in Request :
        /\ HoldsBranch(q)' => HoldsBranch(q) /\ q # p
        /\ SharesBranch(q)' => SharesBranch(q) /\ q # p
        /\ HoldsDevice(q)' => HoldsDevice(q) /\ q # p
        /\ HoldsSeller(q)' => HoldsSeller(q) /\ q # p

\* A request that goes on leaves the others where they are.
LEMMA Advanced ==
    ASSUME TypeOK, NEW p \in Request, Advances(p)
    PROVE  /\ step'[p] = step[p] + 1 /\ answer' = answer
           /\ \A q \in Request : q # p => step'[q] = step[q]
  BY DEF TypeOK, Advances, GoesOn

\* A request that ends leaves the others as they are.
LEMMA Ended ==
    ASSUME TypeOK, NEW p \in Request, NEW result, Ends(p, result)
    PROVE  /\ step'[p] = 1 /\ seen'[p] = "IN_STOCK" /\ answer'[p] = result
           /\ \A q \in Request : q # p =>
                 step'[q] = step[q] /\ seen'[q] = seen[q] /\ answer'[q] = answer[q]
  BY DEF TypeOK, Ends

\* Going on never leads off the path.
LEMMA AdvancedPath ==
    ASSUME ConstantsAssumption, TypeOK, PathInv, NEW p \in Request, Advances(p)
    PROVE  PathInv'
<1>1. SUFFICES ASSUME NEW q \in Request PROVE OnPath(q)'
  BY DEF PathInv
<1>2. OnPath(q) /\ OnPath(p) /\ Running(p)
  BY DEF PathInv, Advances
<1>3. CASE q # p
  BY <1>2, <1>3, Advanced DEF OnPath, Running
<1>4. CASE q = p /\ p \in Device
  <2>1. PICK f \in Nat : f = Final(p) /\ DOMAIN Path[p] = 1..f /\ Path[p][f] = "commit"
    <3>1. p \in Device
      BY <1>4
    <3>2. Final(p) \in Nat /\ DOMAIN Path[p] = 1..Final(p) /\ Path[p][Final(p)] = "commit"
      BY <3>1, PathOfDevice, Zenon
    <3>3. QED
      BY <3>2
  <2>2. step[p] \in 1..f /\ step[p] # f
    BY <1>2, <2>1 DEF OnPath, Advances, At
  <2>3. step[p] + 1 \in 1..f
    BY <2>2
  <2>4. QED
    BY <1>2, <1>4, <2>1, <2>3, Advanced DEF OnPath, Running
<1>5. CASE q = p /\ p \notin Device
  <2>1. Kind[p] # "create" /\ step[p] \in 1..2
    <3>1. ASSUME Kind[p] = "create" PROVE FALSE
      <4>1. PICK P : P = Path[p] /\ P = <<"create">>
        BY <1>5, <3>1, PathOfOthers
      <4>2. step[p] = 1
        BY <1>2, <4>1 DEF OnPath
      <4>3. QED
        BY <1>2, <4>1, <4>2 DEF Advances, At
    <3>2. Kind[p] # "create" => step[p] \in 1..3 /\ (step[p] = 3 => At(p, "commit"))
      BY <1>2, <1>5, OtherIsAt, Zenon
    <3>3. QED
      BY <3>1, <3>2 DEF Advances
  <2>2. PICK P : P = Path[p] /\ P = <<"lock", "log", "commit">>
    BY <1>5, <2>1, PathOfOthers
  <2>3. step'[p] \in DOMAIN Path[p] /\ step'[p] \in Nat \ {0}
    BY <2>1, <2>2, Advanced
  <2>4. QED
    BY <1>2, <1>5, <2>3 DEF OnPath
<1>6. QED
  BY <1>3, <1>4, <1>5

\* Nor does an end.
LEMMA EndedPath ==
    ASSUME TypeOK, PathInv, NEW p \in Request, NEW result, result # "none", Ends(p, result)
    PROVE  PathInv'
<1>1. SUFFICES ASSUME NEW q \in Request PROVE OnPath(q)'
  BY DEF PathInv
<1>2. OnPath(q)
  BY DEF PathInv
<1>3. CASE q = p
  BY <1>3, Ended DEF OnPath, Running
<1>4. CASE q # p
  BY <1>2, <1>4, Ended DEF OnPath, Running
<1>5. QED
  BY <1>3, <1>4

\* Going on, a request gains what stands at its place and nothing else.
LEMMA AdvancedGains ==
    ASSUME ConstantsAssumption, TypeOK, PathInv, NEW p \in Request, Advances(p)
    PROVE  Gains(p)
<1>1. SUFFICES ASSUME NEW q \in Request
      PROVE  /\ HoldsBranch(q)' => HoldsBranch(q) \/ (q = p /\ At(p, "branch"))
             /\ SharesBranch(q)' => SharesBranch(q) \/ (q = p /\ (At(p, "device") \/ At(p, "log")))
             /\ HoldsDevice(q)' => HoldsDevice(q) \/ (q = p /\ At(p, "lock"))
             /\ HoldsSeller(q)' => HoldsSeller(q) \/ (q = p /\ At(p, "lock"))
  BY DEF Gains
<1>2. answer' = answer /\ (q # p => step'[q] = step[q]) /\ step'[p] = step[p] + 1
  BY Advanced
<1>3. CASE q # p
  BY <1>2, <1>3 DEF HoldsBranch, SharesBranch, HoldsDevice, HoldsSeller, Passed, Running
<1>4. CASE q = p
  <2>1. step[p] \in Nat /\ Running(p) /\ step[p] > 0
    BY DEF PathInv, OnPath, Advances
  <2>2. HoldsBranch(p)' => HoldsBranch(p) \/ At(p, "branch")
    <3>1. SUFFICES ASSUME HoldsBranch(p)', ~HoldsBranch(p) PROVE At(p, "branch")
      OBVIOUS
    <3>2. Kind[p] = "auto" /\ p \in Device
      BY <3>1, KindIs DEF HoldsBranch
    <3>3. Place[p]["branch"] = 2 /\ Path[p][2] = "branch"
      BY <3>2, PlacesOfDevice, PathOfDevice
    <3>4. step'[p] > 2
      BY <3>1, <3>3 DEF HoldsBranch, Passed
    <3>5. ~(step[p] > 2)
      BY <2>1, <3>1, <3>2, <3>3 DEF HoldsBranch, Passed
    <3>6. step[p] = 2
      BY <1>2, <2>1, <3>4, <3>5
    <3>7. QED
      BY <2>1, <3>3, <3>6 DEF At
  <2>3. ASSUME p \in Device PROVE SharesBranch(p)' => SharesBranch(p) \/ At(p, "device")
    <3>1. SUFFICES ASSUME SharesBranch(p)', ~SharesBranch(p) PROVE At(p, "device")
      OBVIOUS
    <3>2. p \in Device /\ Kind[p] \notin {"patch", "update"}
      BY <2>3, KindIs
    <3>3. PICK k \in Nat : k = Lead(p) /\ Place[p]["device"] = k /\ Path[p][k] = "device"
      <4>1. Lead(p) \in Nat
        BY LeadIs
      <4>2. Place[p]["device"] = Lead(p) /\ Path[p][Lead(p)] = "device"
        BY <3>2, PlacesOfDevice, PathOfDevice, Zenon
      <4>3. QED
        BY <4>1, <4>2
    <3>4. step'[p] > k
      BY <3>1, <3>2, <3>3 DEF SharesBranch, Passed
    <3>5. ~(step[p] > k)
      BY <2>1, <3>1, <3>2, <3>3 DEF SharesBranch, Passed
    <3>6. step[p] = k
      BY <1>2, <2>1, <3>4, <3>5
    <3>7. QED
      BY <2>1, <3>3, <3>6 DEF At
  <2>8. ASSUME p \notin Device PROVE SharesBranch(p)' => SharesBranch(p) \/ At(p, "log")
    <3>1. SUFFICES ASSUME SharesBranch(p)', ~SharesBranch(p) PROVE At(p, "log")
      OBVIOUS
    <3>2. Kind[p] \in {"patch", "update"}
      BY <2>8, <3>1 DEF SharesBranch
    <3>3. Place[p]["log"] = 2
      BY <2>8, <3>2, PlacesOfOthers
    <3>4. step'[p] > 2
      BY <2>8, <3>1, <3>3 DEF SharesBranch, Passed
    <3>5. ~(step[p] > 2)
      BY <2>1, <3>1, <3>2, <3>3 DEF SharesBranch, Passed
    <3>6. step[p] = 2
      BY <1>2, <2>1, <3>4, <3>5
    <3>7. OnPath(p) /\ Kind[p] # "create"
      BY <3>2 DEF PathInv
    <3>8. QED
      BY <2>1, <2>8, <3>6, <3>7, OtherIsAt
  <2>4. ASSUME Kind[p] \in {"patch", "update"}, ~At(p, "lock") PROVE step[p] > Place[p]["lock"]
    <3>1. p \notin Device /\ Kind[p] # "create"
      BY <2>4, KindIs
    <3>2. step[p] > 1 /\ Place[p]["lock"] = 1
      <4>1. step[p] \in 1..3 /\ (step[p] = 1 => At(p, "lock"))
        BY <2>1, <3>1, OtherIsAt, Zenon DEF PathInv
      <4>2. Place[p]["lock"] = 1
        BY <3>1, PlacesOfOthers, Zenon
      <4>3. step[p] > 1
        BY <2>4, <4>1
      <4>4. QED
        BY <4>2, <4>3
    <3>3. QED
      BY <3>2
  <2>5. HoldsDevice(p)' => HoldsDevice(p) \/ At(p, "lock")
    BY <2>1, <2>4 DEF HoldsDevice, Passed
  <2>6. HoldsSeller(p)' => HoldsSeller(p) \/ At(p, "lock")
    BY <2>1, <2>4 DEF HoldsSeller, Passed
  <2>7. QED
    BY <1>4, <2>2, <2>3, <2>5, <2>6, <2>8
<1>5. QED
  BY <1>3, <1>4

\* A request that has ended holds nothing.
LEMMA EndedLetsGo ==
    ASSUME TypeOK, NEW p \in Request, NEW result, result # "none", Ends(p, result)
    PROVE  LetsGo(p)
<1>1. SUFFICES ASSUME NEW q \in Request
      PROVE  /\ HoldsBranch(q)' => HoldsBranch(q) /\ q # p
             /\ SharesBranch(q)' => SharesBranch(q) /\ q # p
             /\ HoldsDevice(q)' => HoldsDevice(q) /\ q # p
             /\ HoldsSeller(q)' => HoldsSeller(q) /\ q # p
  BY DEF LetsGo
<1>2. CASE q = p
  BY <1>2, Ended DEF HoldsBranch, SharesBranch, HoldsDevice, HoldsSeller, Passed, Running
<1>3. CASE q # p
  BY <1>3, Ended DEF HoldsBranch, SharesBranch, HoldsDevice, HoldsSeller, Passed, Running
<1>4. QED
  BY <1>2, <1>3

\* Steps that take the branch or share it only when it is free keep it one's own.
LEMMA BranchKept ==
    ASSUME BranchInv, NEW p \in Request,
           LetsGo(p) \/ (Gains(p) /\ (At(p, "branch") \/ At(p, "device") \/ At(p, "log") => Free(p)))
    PROVE  BranchInv'
<1>1. SUFFICES ASSUME NEW r \in Request, NEW q \in Request,
                      HoldsBranch(r)', HoldsBranch(q)' \/ SharesBranch(q)', SameBranch(r, q)
               PROVE  r = q
  BY DEF BranchInv, SameBranch
<1>2. CASE LetsGo(p)
  BY <1>1, <1>2 DEF LetsGo, BranchInv
<1>3. CASE Gains(p) /\ (At(p, "branch") \/ At(p, "device") \/ At(p, "log") => Free(p))
  <2>1. /\ HoldsBranch(r) \/ (r = p /\ At(p, "branch"))
        /\ HoldsBranch(q) \/ SharesBranch(q) \/ (q = p /\ (At(p, "branch") \/ At(p, "device") \/ At(p, "log")))
    BY <1>1, <1>3 DEF Gains
  <2>2. SUFFICES ASSUME r # q PROVE FALSE
    OBVIOUS
  <2>3. CASE r = p /\ At(p, "branch")
    <3>1. HoldsBranch(q) \/ SharesBranch(q)
      BY <2>1, <2>2, <2>3
    <3>2. WaitsFor(p, q)
      BY <1>1, <2>2, <2>3, <3>1 DEF WaitsFor
    <3>3. QED
      BY <1>3, <2>3, <3>2 DEF Free
  <2>4. CASE HoldsBranch(r) /\ q = p /\ (At(p, "branch") \/ At(p, "device") \/ At(p, "log"))
    <3>1. SameBranch(p, r)
      BY <1>1, <2>4 DEF SameBranch
    <3>2. WaitsFor(p, r)
      BY <2>2, <2>4, <3>1 DEF WaitsFor
    <3>3. QED
      BY <1>3, <2>4, <3>2 DEF Free
  <2>5. CASE HoldsBranch(r) /\ (HoldsBranch(q) \/ SharesBranch(q))
    BY <1>1, <2>2, <2>5 DEF BranchInv
  <2>6. QED
    BY <2>1, <2>3, <2>4, <2>5
<1>4. QED
  BY <1>2, <1>3

-----------------------------------------------------------------------------
(* The voucher numbers of a branch.                                        *)

\* The values of a function on a finite set are finitely many.
LEMMA FiniteImage ==
    ASSUME NEW S, IsFiniteSet(S), NEW f, DOMAIN f = S
    PROVE  IsFiniteSet({f[x] : x \in S})
<1>1. PICK T : T = {f[x] : x \in S}
  OBVIOUS
<1>2. PICK g \in [S -> T] : \A x \in S : g[x] = f[x]
  <2>1. [x \in S |-> f[x]] \in [S -> T]
    BY <1>1
  <2>2. QED
    BY <2>1
<1>3. g \in Surjection(S, T)
  BY <1>1, <1>2 DEF Surjection
<1>4. QED
  BY <1>1, <1>3, FS_Surjection

\* Induction on the numbers, for a set of them.
LEMMA SetInduction ==
    ASSUME NEW M, 0 \in M, \A n \in M \cap Nat : n + 1 \in M
    PROVE  Nat \subseteq M
<1>1. SUFFICES ASSUME Nat \ M # {}
               PROVE  FALSE
  OBVIOUS
<1>2. PICK n \in Nat \ M : \A m \in Nat \ M : <<m, n>> \notin OpToRel(<, Nat)
  BY <1>1, NatLessThanWellFounded, WFMin
<1>3. \A m \in Nat \ M : ~(m < n)
  BY <1>2 DEF OpToRel
<1>4. n \in Nat /\ n # 0 /\ n - 1 \in Nat /\ n - 1 \in M
  BY <1>3
<1>5. (n - 1) + 1 \in M
  BY <1>4
<1>6. QED
  BY <1>4, <1>5

HasGreatest(S) == \E n \in S : \A m \in S : m <= n

\* Finitely many numbers have a greatest one.
LEMMA Greatest ==
    ASSUME NEW S, IsFiniteSet(S), S \subseteq Nat, S # {}
    PROVE  HasGreatest(S)
<1> DEFINE M == {n \in Nat : \A T \in SUBSET S : Cardinality(T) = n /\ T # {} => HasGreatest(T)}
<1>1. 0 \in M
  <2>1. \A T \in SUBSET S : Cardinality(T) = 0 => T = {}
    BY FS_Subset, FS_EmptySet
  <2>2. QED
    BY <2>1
<1>2. ASSUME NEW n \in M \cap Nat PROVE n + 1 \in M
  <2>1. SUFFICES ASSUME NEW T \in SUBSET S, Cardinality(T) = n + 1, T # {} PROVE HasGreatest(T)
    OBVIOUS
  <2>2. PICK x \in T : TRUE
    BY <2>1
  <2>3. T \ {x} \in SUBSET S /\ Cardinality(T \ {x}) = n
    <3>1. IsFiniteSet(T) /\ Cardinality(T \ {x}) = Cardinality(T) - 1
      BY FS_Subset, FS_RemoveElement
    <3>2. QED
      BY <2>1, <3>1
  <2>4. CASE T \ {x} = {}
    <3>1. \A m \in T : m = x
      BY <2>4
    <3>2. x \in Nat /\ x <= x
      OBVIOUS
    <3>3. \A m \in T : m <= x
      BY <3>1, <3>2
    <3>4. QED
      BY <3>3 DEF HasGreatest
  <2>5. CASE T \ {x} # {}
    <3>1. PICK y \in T \ {x} : \A m \in T \ {x} : m <= y
      <4>1. HasGreatest(T \ {x})
        BY <2>3, <2>5
      <4>2. QED
        BY <4>1 DEF HasGreatest
    <3>2. x \in Nat /\ y \in Nat /\ \A m \in T : m \in Nat
      OBVIOUS
    <3>3. CASE x <= y
      BY <3>1, <3>3 DEF HasGreatest
    <3>4. CASE y <= x
      <4>1. \A m \in T : m <= x
        BY <3>1, <3>2, <3>4
      <4>2. QED
        BY <4>1 DEF HasGreatest
    <3>5. QED
      BY <3>2, <3>3, <3>4
  <2>6. QED
    BY <2>4, <2>5
<1>3. Cardinality(S) \in M
  <2>1. Nat \subseteq M
    <3> HIDE DEF M
    <3>1. QED
      BY <1>1, <1>2, SetInduction
  <2>2. QED
    BY <2>1, FS_CardinalityType
<1>4. QED
  BY <1>3

\* Largest is a number, and no voucher of the branch is above it.
LEMMA LargestIs ==
    ASSUME AppliedInv, NEW b
    PROVE  Largest(b) \in Nat /\ \A v \in Vouchers(b) : v \in Nat => v <= Largest(b)
<1>1. IsFiniteSet(Values(b)) /\ Values(b) \subseteq Nat
  <2>1. IsFiniteSet(Filed(b))
    BY FS_Subset DEF Filed, AppliedInv
  <2>2. IsFiniteSet(Vouchers(b))
    <3>1. PICK f : f = [d \in Filed(b) |-> number[d]]
      OBVIOUS
    <3>2. IsFiniteSet({f[d] : d \in Filed(b)}) /\ {f[d] : d \in Filed(b)} = Vouchers(b)
      BY <2>1, <3>1, FiniteImage DEF Vouchers
    <3>3. QED
      BY <3>2
  <2>3. IsFiniteSet(Values(b))
    <3>1. PICK f : f = [v \in Vouchers(b) |-> IF v \in Nat THEN v ELSE 0]
      OBVIOUS
    <3>2. IsFiniteSet({f[v] : v \in Vouchers(b)}) /\ {f[v] : v \in Vouchers(b)} = Values(b)
      BY <2>2, <3>1, FiniteImage DEF Values
    <3>3. QED
      BY <3>2
  <2>4. QED
    BY <2>3 DEF Values
<1>2. \A v \in Vouchers(b) : v \in Nat => v \in Values(b)
  BY DEF Values
<1>3. CASE Values(b) = {}
  BY <1>2, <1>3 DEF Largest
<1>4. CASE Values(b) # {}
  <2>1. \E n \in Values(b) : \A m \in Values(b) : m <= n
    BY <1>1, <1>4, Greatest DEF HasGreatest
  <2>2. Largest(b) \in Values(b) /\ \A m \in Values(b) : m <= Largest(b)
    BY <1>4, <2>1 DEF Largest
  <2>3. QED
    BY <1>1, <1>2, <2>2
<1>5. QED
  BY <1>3, <1>4

\* The number that is allocated is in use nowhere in the branch.
LEMMA NextIsFree ==
    ASSUME AppliedInv, NEW b
    PROVE  Largest(b) + 1 \notin Vouchers(b)
<1>1. Largest(b) \in Nat /\ Largest(b) + 1 \in Nat /\ ~(Largest(b) + 1 <= Largest(b))
  BY LargestIs
<1>2. QED
  BY <1>1, LargestIs

-----------------------------------------------------------------------------
(* Every step keeps the invariant.                                         *)

\* A request that goes on commits and answers nothing.
LEMMA AppliedSame ==
    ASSUME AppliedInv, answer' = answer, applied' = applied
    PROVE  AppliedInv'
  BY DEF AppliedInv

\* What commits is answered "done".
LEMMA AppliedMore ==
    ASSUME TypeOK, AppliedInv, NEW p \in Request, Ends(p, "done"), applied' = applied \cup {p}
    PROVE  AppliedInv'
<1>1. applied' \in SUBSET Request /\ IsFiniteSet(applied')
  BY FS_AddElement DEF AppliedInv
<1>2. \A r \in applied' : answer'[r] = "done"
  <2>1. TAKE r \in applied'
  <2>2. CASE r = p
    BY <2>2, Ended
  <2>3. CASE r # p
    BY <2>3, Ended DEF AppliedInv
  <2>4. QED
    BY <2>2, <2>3
<1>3. QED
  BY <1>1, <1>2 DEF AppliedInv

\* Its own answer shows that a request which runs has not committed.
LEMMA RunningIsNew ==
    ASSUME AppliedInv, NEW p, Running(p)
    PROVE  p \notin applied
  BY DEF AppliedInv, Running

\* What fails has not committed.
LEMMA AppliedFailed ==
    ASSUME TypeOK, AppliedInv, NEW p \in Request, NEW result, Running(p), Failed(p, result)
    PROVE  AppliedInv'
<1>1. applied' = applied /\ Ends(p, result) /\ p \notin applied
  BY RunningIsNew DEF Failed, central
<1>2. \A r \in applied : answer'[r] = "done"
  <2>1. \A r \in applied : r \in Request /\ r # p
    BY <1>1 DEF AppliedInv
  <2>2. QED
    BY <1>1, <2>1, Ended DEF AppliedInv
<1>3. QED
  BY <1>1, <1>2 DEF AppliedInv

\* Numbers of others stay, so that a branch has the vouchers it had.
LEMMA VouchersSame ==
    ASSUME AppliedInv, applied' = applied, \A r \in applied : number'[r] = number[r], NEW b
    PROVE  Vouchers(b)' = Vouchers(b)
  BY DEF Vouchers, Filed

\* A commit adds at most its own number, to its own branch.
LEMMA VouchersMore ==
    ASSUME number' = number, NEW p, applied' = applied \cup {p}, NEW b
    PROVE  /\ ~(p \in Device /\ Used(p) /\ BranchOf[p] = b) => Vouchers(b)' = Vouchers(b)
           /\ Vouchers(b)' \subseteq Vouchers(b) \cup {number[p]}
  BY DEF Vouchers, Filed

\* Numbers stay free while neither they nor what is committed changes.
LEMMA FreshSame ==
    ASSUME FreshInv, AppliedInv, number' = number, applied' = applied,
           \A r \in Request : HoldsBranch(r)' => HoldsBranch(r),
           \A r \in Of({"auto"}) : answer'[r] = answer[r] \/ answer'[r] # "taken"
    PROVE  FreshInv'
<1>1. ASSUME NEW r \in Request, HoldsBranch(r)' PROVE number'[r] \notin Vouchers(BranchOf[r])'
  <2>1. number[r] \notin Vouchers(BranchOf[r])
    BY <1>1 DEF FreshInv
  <2>2. Vouchers(BranchOf[r])' = Vouchers(BranchOf[r])
    BY VouchersSame
  <2>3. QED
    BY <2>1, <2>2
<1>2. AllocatedVouchersAreFree'
  BY DEF FreshInv, AllocatedVouchersAreFree, Of
<1>3. QED
  BY <1>1, <1>2 DEF FreshInv

\* The allocated number is free, and the numbers of others stay free.
LEMMA FreshAllocated ==
    ASSUME ConstantsAssumption, TypeOK, FreshInv, AppliedInv, NEW p \in Request,
           Allocates(p), Gains(p)
    PROVE  FreshInv'
<1>1. Running(p) /\ p \notin applied /\ answer' = answer /\ applied' = applied
  BY RunningIsNew DEF Allocates, At, GoesOn, central
<1>2. number' = [number EXCEPT ![p] = Largest(BranchOf[p]) + 1]
  BY DEF Allocates
<1>3. \A r \in applied : number'[r] = number[r]
  <2>1. \A r \in applied : r \in Request /\ r # p
    BY <1>1 DEF AppliedInv
  <2>2. QED
    BY <1>2, <2>1 DEF TypeOK
<1>4. ASSUME NEW r \in Request, HoldsBranch(r)' PROVE number'[r] \notin Vouchers(BranchOf[r])'
  <2>1. Vouchers(BranchOf[r])' = Vouchers(BranchOf[r])
    BY <1>1, <1>3, VouchersSame
  <2>2. CASE r = p
    <3>1. number'[p] = Largest(BranchOf[p]) + 1
      BY <1>2 DEF TypeOK
    <3>2. QED
      BY <2>1, <2>2, <3>1, NextIsFree
  <2>3. CASE r # p
    <3>1. HoldsBranch(r) /\ number'[r] = number[r]
      BY <1>2, <1>4, <2>3 DEF Gains, TypeOK
    <3>2. QED
      BY <2>1, <3>1 DEF FreshInv
  <2>4. QED
    BY <2>2, <2>3
<1>5. AllocatedVouchersAreFree'
  BY <1>1 DEF FreshInv, AllocatedVouchersAreFree
<1>6. QED
  BY <1>4, <1>5 DEF FreshInv

\* What commits without paperwork, or for another branch, is nobody's number;
\* in the branch that somebody holds nobody else is about to commit.
LEMMA FreshMore ==
    ASSUME ConstantsAssumption, TypeOK, BranchInv, FreshInv, AppliedInv, NEW p \in Request,
           number' = number, applied' = applied \cup {p}, Ends(p, "done"), LetsGo(p),
           p \in Device => SharesBranch(p)
    PROVE  FreshInv'
<1>1. ASSUME NEW r \in Request, HoldsBranch(r)' PROVE number'[r] \notin Vouchers(BranchOf[r])'
  <2>1. HoldsBranch(r) /\ r # p
    BY <1>1 DEF LetsGo
  <2>2. ~(p \in Device /\ BranchOf[p] = BranchOf[r])
    BY <2>1 DEF BranchInv, SameBranch
  <2>3. Vouchers(BranchOf[r])' = Vouchers(BranchOf[r])
    BY <2>2, VouchersMore
  <2>4. QED
    BY <2>1, <2>3 DEF FreshInv
<1>2. AllocatedVouchersAreFree'
  <2>1. SUFFICES ASSUME NEW r \in Of({"auto"}) PROVE answer'[r] # "taken"
    BY DEF AllocatedVouchersAreFree
  <2>2. r \in Request /\ answer[r] # "taken"
    BY DEF Of, FreshInv, AllocatedVouchersAreFree
  <2>3. CASE r = p
    BY <2>3, Ended
  <2>4. CASE r # p
    BY <2>2, <2>4, Ended
  <2>5. QED
    BY <2>3, <2>4
<1>3. QED
  BY <1>1, <1>2 DEF FreshInv

\* Only a number that was brought along, or one in use, is refused as taken.
LEMMA FreshFailed ==
    ASSUME ConstantsAssumption, TypeOK, PathInv, FreshInv, AppliedInv, NEW p \in Request,
           Fails(p), LetsGo(p)
    PROVE  FreshInv'
<1>1. PICK result \in {"refused", "taken", "failed"} :
        /\ Running(p) /\ Failed(p, result)
        /\ result = "taken" => Kind[p] = "explicit" \/ (At(p, "paper") /\ VoucherClash(p))
  BY DEF Fails
<1>2. number' = number /\ applied' = applied /\ Ends(p, result)
  BY <1>1 DEF Failed, central
<1>3. \A r \in Request : HoldsBranch(r)' => HoldsBranch(r)
  BY DEF LetsGo
<1>4. ASSUME NEW r \in Of({"auto"}) PROVE answer'[r] = answer[r] \/ answer'[r] # "taken"
  <2>1. r \in Request /\ Kind[r] = "auto"
    BY DEF Of
  <2>2. CASE r # p
    BY <1>2, <2>1, <2>2, Ended
  <2>3. CASE r = p
    <3>1. SUFFICES ASSUME result = "taken" PROVE FALSE
      BY <1>2, <2>3, Ended
    <3>2. At(p, "paper") /\ VoucherClash(p)
      BY <1>1, <2>1, <2>3, <3>1
    <3>3. p \in Device
      BY <2>1, <2>3, KindIs
    <3>4. HoldsBranch(p)
      <4>1. OnPath(p)
        BY DEF PathInv
      <4>2. Used(p) /\ step[p] = Paper(p)
        BY <1>1, <3>2, <3>3, <4>1, DeviceIsAt, Zenon
      <4>3. PICK k \in Nat, n \in Nat, q \in Nat : k = Lead(p) /\ n = Size(p) /\ q = Paper(p)
        BY <3>3, <4>2, LeadIs, SizeIs, PaperIs
      <4>4. k + n < q /\ k = 3
        <5>1. k + n < q
          BY <3>3, <4>2, <4>3, PathOfDevice
        <5>2. QED
          BY <2>1, <2>3, <4>3, <5>1, LeadIs
      <4>5. step[p] > 2
        BY <4>2, <4>3, <4>4
      <4>6. QED
        BY <1>1, <2>1, <2>3, <3>3, <4>5, DeviceHolds, Zenon
    <3>5. QED
      BY <3>2, <3>4 DEF FreshInv, VoucherClash
  <2>4. QED
    BY <2>2, <2>3
<1>5. QED
  BY <1>2, <1>3, <1>4, FreshSame

\* Locked devices keep the status that was read if nobody writes it.
LEMMA LockSame ==
    ASSUME LockInv, applied \subseteq applied',
           \A r \in Request : HoldsDevice(r)' =>
               /\ HoldsDevice(r) /\ seen'[r] = seen[r]
               /\ status'[DeviceOf[r]] = status[DeviceOf[r]]
    PROVE  LockInv'
  BY DEF LockInv

\* A device is locked for one request alone.
LEMMA LockTaken ==
    ASSUME TypeOK, LockInv, NEW p \in Request, Locks(p), Gains(p)
    PROVE  LockInv'
<1>1. /\ Kind[p] = "patch" /\ At(p, "lock") /\ Free(p) /\ DeviceOf[p] \in applied
      /\ applied' = applied /\ status' = status
      /\ seen'[p] = status[DeviceOf[p]] /\ \A q \in Request : q # p => seen'[q] = seen[q]
  BY DEF Locks, GoesOn, central, TypeOK
<1>2. \A q \in Request : HoldsDevice(q)' => HoldsDevice(q) \/ q = p
  BY DEF Gains
<1>3. \A q \in Request : HoldsDevice(q) /\ DeviceOf[q] = DeviceOf[p] => q = p
  <2>1. TAKE q \in Request
  <2>2. SUFFICES ASSUME HoldsDevice(q), DeviceOf[q] = DeviceOf[p], q # p PROVE FALSE
    OBVIOUS
  <2>3. WaitsFor(p, q)
    BY <1>1, <2>2 DEF WaitsFor
  <2>4. QED
    BY <1>1, <2>3 DEF Free
<1>4. SUFFICES ASSUME NEW r \in Request, HoldsDevice(r)'
      PROVE  /\ DeviceOf[r] \in applied' /\ seen'[r] = status'[DeviceOf[r]]
             /\ \A q \in Request : HoldsDevice(q)' /\ DeviceOf[q] = DeviceOf[r] => q = r
  BY DEF LockInv
<1>5. CASE r = p
  BY <1>1, <1>2, <1>3, <1>5
<1>6. CASE r # p
  <2>1. HoldsDevice(r) /\ DeviceOf[r] # DeviceOf[p]
    BY <1>2, <1>3, <1>4, <1>6
  <2>2. DeviceOf[r] \in applied /\ seen[r] = status[DeviceOf[r]]
        /\ \A q \in Request : HoldsDevice(q) /\ DeviceOf[q] = DeviceOf[r] => q = r
    BY <2>1 DEF LockInv
  <2>3. QED
    BY <1>1, <1>2, <1>6, <2>1, <2>2
<1>7. QED
  BY <1>5, <1>6

\* Sellers do not vanish from the registry.
LEMMA SellerSame ==
    ASSUME SellerInv, known \subseteq known',
           \A r \in Request : HoldsSeller(r)' => HoldsSeller(r) \/ SellerOf[r] \in known
    PROVE  SellerInv'
  BY DEF SellerInv

\* Movements stay true while nothing is moved.
LEMMA MoveSame ==
    ASSUME MoveInv, moves' = moves, status' = status,
           \A d \in Device : d \in applied' <=> d \in applied
    PROVE  MoveInv'
  BY DEF MoveInv

\* A list that goes on where it has ended.
LEMMA TellsOn ==
    ASSUME NEW S, NEW list \in Seq(S), NEW now, NEW then, Tells(list, now), now # then,
           <<now, then>> \in S
    PROVE  Tells(Append(list, <<now, then>>), then)
<1>1. PICK n \in Nat : n = Len(list) /\ n > 0
  <2>1. Len(list) \in Nat /\ list # <<>>
    BY DEF Tells
  <2>2. QED
    BY <2>1, EmptySeq, LenProperties
<1>2. PICK more : more = Append(list, <<now, then>>)
  OBVIOUS
<1>3. /\ more \in Seq(S) /\ Len(more) = n + 1
      /\ \A i \in 1..n : more[i] = list[i]
      /\ more[n + 1] = <<now, then>>
  BY <1>1, <1>2
<1>4. more # <<>> /\ more[1][1] = None
  <2>1. 1 \in 1..n /\ n + 1 > 0
    BY <1>1
  <2>2. more # <<>>
    BY <1>3, <2>1
  <2>3. QED
    BY <1>3, <2>1, <2>2 DEF Tells
<1>5. ASSUME NEW i \in 2..(n + 1)
      PROVE  more[i][1] = more[i - 1][2] /\ more[i][1] # more[i][2]
  <2>1. CASE i \in 2..n
    <3>1. i \in 1..n /\ i - 1 \in 1..n
      BY <2>1
    <3>2. list[i][1] = list[i - 1][2] /\ list[i][1] # list[i][2]
      BY <1>1, <2>1 DEF Tells
    <3>3. QED
      BY <1>3, <3>1, <3>2
  <2>2. CASE i = n + 1
    <3>1. n \in 1..n /\ i - 1 = n
      BY <1>1, <2>2
    <3>2. list[n][2] = now
      BY <1>1 DEF Tells
    <3>3. more[i][1] = now /\ more[i][2] = then
      BY <1>3, <2>2
    <3>4. more[i - 1] = list[n]
      BY <1>3, <3>1
    <3>5. QED
      BY <3>2, <3>3, <3>4
  <2>3. QED
    BY <2>1, <2>2
<1>6. more[n + 1][2] = then
  BY <1>3
<1>7. Tells(more, then)
  BY <1>3, <1>4, <1>5, <1>6 DEF Tells
<1>8. QED
  BY <1>2, <1>7

\* The facts of a commit, by its kind.
LEMMA CommitIs ==
    ASSUME ConstantsAssumption, TypeOK, PathInv, NEW p \in Request, Commit(p)
    PROVE  /\ Running(p) /\ Ends(p, "done") /\ applied' = applied \cup {p} /\ number' = number
           /\ known' = known
           /\ \/ p \in Device /\ SharesBranch(p) /\ UNCHANGED <<status, active>>
                 /\ Moved(p, None, "IN_STOCK")
              \/ Kind[p] = "patch" /\ p \notin Device /\ HoldsDevice(p) /\ UNCHANGED active
                 /\ DeviceOf[p] \in Device /\ StatusOf[p] \in Statuses
                 /\ status' = [status EXCEPT ![DeviceOf[p]] = StatusOf[p]]
                 /\ (StatusOf[p] = seen[p] => moves' = moves)
                 /\ (StatusOf[p] # seen[p] => Moved(DeviceOf[p], seen[p], StatusOf[p]))
              \/ Kind[p] = "update" /\ p \notin Device /\ HoldsSeller(p) /\ SellerOf[p] \in Seller
                 /\ UNCHANGED <<status, moves>>
                 /\ active' \subseteq active \cup {SellerOf[p]}
<1>1. /\ Running(p) /\ At(p, "commit") /\ Ends(p, "done") /\ applied' = applied \cup {p}
      /\ number' = number /\ known' = known
  BY DEF Commit, At
<1>2. OnPath(p)
  BY DEF PathInv
<1>3. ASSUME p \in Device PROVE SharesBranch(p)
  <2>1. step[p] = Final(p)
    BY <1>1, <1>2, <1>3, DeviceIsAt, Zenon
  <2>2. PICK k \in Nat, n \in Nat, f \in Nat :
           k = Lead(p) /\ n = Size(p) /\ f = Final(p) /\ k + n < f
    BY <1>3, LeadIs, SizeIs, PathOfDevice
  <2>3. step[p] > Lead(p)
    BY <2>1, <2>2
  <2>4. QED
    BY <1>1, <1>3, <2>3, DeviceHolds, Zenon
<1>4. ASSUME p \notin Device PROVE step[p] = 3
  BY <1>1, <1>2, <1>4, OtherIsAt, Zenon
<1>5. ASSUME Kind[p] = "patch"
      PROVE  p \notin Device /\ HoldsDevice(p)
             /\ DeviceOf[p] \in Device /\ StatusOf[p] \in Statuses
  <2>1. p \notin Device
    BY <1>5, KindIs
  <2>2. step[p] > 1
    BY <1>4, <2>1
  <2>3. HoldsDevice(p)
    BY <1>1, <1>5, <2>1, <2>2, OtherHolds, Zenon
  <2>4. DeviceOf[p] \in Device /\ StatusOf[p] \in Statuses
    BY <1>5 DEF ConstantsAssumption, Of
  <2>5. QED
    BY <2>1, <2>3, <2>4
<1>6. ASSUME Kind[p] = "update" PROVE p \notin Device /\ HoldsSeller(p) /\ SellerOf[p] \in Seller
  <2>1. p \notin Device
    BY <1>6, KindIs
  <2>2. step[p] > 1
    BY <1>4, <2>1
  <2>3. HoldsSeller(p)
    BY <1>1, <1>6, <2>1, <2>2, OtherHolds, Zenon
  <2>4. SellerOf[p] \in Seller
    BY <1>6 DEF ConstantsAssumption
  <2>5. QED
    BY <2>1, <2>3, <2>4
<1>7. \/ p \in Device /\ Moved(p, None, "IN_STOCK") /\ UNCHANGED <<status, active>>
      \/ /\ Kind[p] = "patch"
         /\ status' = [status EXCEPT ![DeviceOf[p]] = StatusOf[p]]
         /\ (StatusOf[p] = seen[p] => moves' = moves)
         /\ (StatusOf[p] # seen[p] => Moved(DeviceOf[p], seen[p], StatusOf[p]))
         /\ UNCHANGED active
      \/ /\ Kind[p] = "update"
         /\ active' \subseteq active \cup {SellerOf[p]}
         /\ UNCHANGED <<status, moves>>
  BY DEF Commit
<1>8. QED
  BY <1>1, <1>3, <1>5, <1>6, <1>7

\* A request commits with the lock on what it changes.
LEMMA LockCommitted ==
    ASSUME ConstantsAssumption, TypeOK, PathInv, LockInv, NEW p \in Request, Commit(p), LetsGo(p)
    PROVE  LockInv'
<1>1. Ends(p, "done") /\ applied' = applied \cup {p}
  BY CommitIs
<1>2. ASSUME NEW r \in Request, HoldsDevice(r)'
      PROVE  HoldsDevice(r) /\ seen'[r] = seen[r] /\ status'[DeviceOf[r]] = status[DeviceOf[r]]
  <2>1. HoldsDevice(r) /\ r # p
    BY <1>2 DEF LetsGo
  <2>2. seen'[r] = seen[r]
    BY <1>1, <2>1, Ended
  <2>3. CASE status' = status
    BY <2>1, <2>2, <2>3
  <2>4. CASE HoldsDevice(p) /\ status' = [status EXCEPT ![DeviceOf[p]] = StatusOf[p]]
    <3>1. DeviceOf[r] # DeviceOf[p]
      BY <2>1, <2>4 DEF LockInv
    <3>2. DeviceOf[r] \in Device
      BY <2>1 DEF HoldsDevice, ConstantsAssumption
    <3>3. QED
      BY <2>1, <2>2, <2>4, <3>1, <3>2 DEF TypeOK
  <2>5. QED
    BY <2>3, <2>4, CommitIs
<1>3. QED
  BY <1>1, <1>2, LockSame

\* A commit moves a device from the status it has.
LEMMA MoveCommitted ==
    ASSUME ConstantsAssumption, TypeOK, PathInv, AppliedInv, LockInv, MoveInv,
           NEW p \in Request, Commit(p)
    PROVE  MoveInv'
<1>1. applied' = applied \cup {p} /\ p \notin applied
  BY CommitIs, RunningIsNew
<1>2. CASE p \in Device /\ status' = status /\ Moved(p, None, "IN_STOCK")
  <2>1. moves[p] = <<>> /\ status[p] = "IN_STOCK"
    BY <1>1, <1>2 DEF MoveInv
  <2>2. moves'[p] = <<<<None, "IN_STOCK">>>>
    BY <1>2, <2>1 DEF Moved, TypeOK
  <2>3. Tells(<<<<None, "IN_STOCK">>>>, "IN_STOCK")
    BY DEF Tells
  <2>4. \A d \in Device : d # p => moves'[d] = moves[d]
    BY <1>2 DEF Moved, TypeOK
  <2>5. SUFFICES ASSUME NEW d \in Device
                 PROVE  IF d \in applied' THEN Tells(moves'[d], status'[d])
                        ELSE moves'[d] = <<>> /\ status'[d] = "IN_STOCK"
    BY DEF MoveInv, Tells
  <2>6. CASE d = p
    BY <1>1, <1>2, <2>1, <2>2, <2>3, <2>6
  <2>7. CASE d # p
    BY <1>1, <1>2, <2>4, <2>7 DEF MoveInv
  <2>8. QED
    BY <2>6, <2>7
<1>3. CASE /\ Kind[p] = "patch" /\ p \notin Device /\ HoldsDevice(p)
           /\ DeviceOf[p] \in Device /\ StatusOf[p] \in Statuses
           /\ status' = [status EXCEPT ![DeviceOf[p]] = StatusOf[p]]
           /\ (StatusOf[p] = seen[p] => moves' = moves)
           /\ (StatusOf[p] # seen[p] => Moved(DeviceOf[p], seen[p], StatusOf[p]))
  <2>1. PICK e \in Device : e = DeviceOf[p]
    BY <1>3
  <2>2. e \in applied /\ seen[p] = status[e] /\ Tells(moves[e], status[e])
    BY <1>3, <2>1 DEF LockInv, MoveInv
  <2>3. status'[e] = StatusOf[p] /\ \A d \in Device : d # e => status'[d] = status[d]
    BY <1>3, <2>1 DEF TypeOK
  <2>4. Tells(moves'[e], status'[e]) /\ \A d \in Device : d # e => moves'[d] = moves[d]
    <3>1. CASE StatusOf[p] = seen[p]
      BY <1>3, <2>2, <2>3, <3>1
    <3>2. CASE StatusOf[p] # seen[p]
      <4>1. moves' = [moves EXCEPT ![e] = Append(@, <<seen[p], StatusOf[p]>>)]
        BY <1>3, <2>1, <3>2 DEF Moved
      <4>2. moves'[e] = Append(moves[e], <<status[e], StatusOf[p]>>)
            /\ \A d \in Device : d # e => moves'[d] = moves[d]
        BY <2>2, <4>1 DEF TypeOK
      <4>3. moves[e] \in Seq((Statuses \cup {None}) \X Statuses) /\ status[e] \in Statuses
        BY DEF TypeOK
      <4>4. <<status[e], StatusOf[p]>> \in (Statuses \cup {None}) \X Statuses
        BY <1>3, <4>3
      <4>5. Tells(Append(moves[e], <<status[e], StatusOf[p]>>), StatusOf[p])
        BY <2>2, <3>2, <4>3, <4>4, TellsOn
      <4>6. QED
        BY <2>3, <4>2, <4>5
    <3>3. QED
      BY <3>1, <3>2
  <2>5. SUFFICES ASSUME NEW d \in Device
                 PROVE  IF d \in applied' THEN Tells(moves'[d], status'[d])
                        ELSE moves'[d] = <<>> /\ status'[d] = "IN_STOCK"
    BY DEF MoveInv, Tells
  <2>6. d \in applied' <=> d \in applied
    BY <1>1, <1>3
  <2>7. CASE d = e
    BY <2>2, <2>4, <2>6, <2>7
  <2>8. CASE d # e
    BY <2>3, <2>4, <2>6, <2>8 DEF MoveInv
  <2>9. QED
    BY <2>7, <2>8
<1>4. CASE p \notin Device /\ status' = status /\ moves' = moves
  <2>1. \A d \in Device : d \in applied' <=> d \in applied
    BY <1>1, <1>4
  <2>2. QED
    BY <1>4, <2>1, MoveSame
<1>5. QED
  BY <1>2, <1>3, <1>4, CommitIs

\* Going on keeps the types.
LEMMA TypeWalked ==
    ASSUME TypeOK, NEW p \in Request, GoesOn(p),
           number' \in [Request -> Voucher \cup 0..MaxBigint \cup {None}],
           seen' \in [Request -> Statuses]
    PROVE  TypeOK'
<1>1. step' \in [Request -> Nat \ {0}]
  BY DEF TypeOK, GoesOn
<1>2. answer' = answer /\ applied' = applied /\ status' = status /\ moves' = moves
      /\ known' = known /\ active' = active
  BY DEF GoesOn, central
<1>3. QED
  BY <1>1, <1>2 DEF TypeOK

\* Ending keeps the types.
LEMMA TypeEnded ==
    ASSUME TypeOK, NEW p \in Request, NEW result \in {"done", "refused", "taken", "failed"},
           Ends(p, result)
    PROVE  /\ step' \in [Request -> Nat \ {0}] /\ seen' \in [Request -> Statuses]
           /\ answer' \in [Request -> {"none", "done", "refused", "taken", "failed"}]
  BY DEF TypeOK, Ends, Statuses

\* Each of the six kinds of step keeps the types.
LEMMA TypeStep ==
    ASSUME ConstantsAssumption, DeskInv, NEW p \in Request,
           Walks(p) \/ Allocates(p) \/ Locks(p) \/ Creates(p) \/ Commit(p) \/ Fails(p)
    PROVE  TypeOK'
<1>1. TypeOK /\ PathInv /\ AppliedInv /\ SellerInv
  BY DEF DeskInv
<1>2. CASE Walks(p)
  <2>1. GoesOn(p) /\ number' = number /\ seen' = seen
    BY <1>2 DEF Walks
  <2>2. QED
    BY <1>1, <2>1, TypeWalked DEF TypeOK
<1>3. CASE Allocates(p)
  <2>1. Largest(BranchOf[p]) + 1 \in 0..MaxBigint
    <3>1. Largest(BranchOf[p]) \in Nat /\ MaxBigint \in Nat /\ Largest(BranchOf[p]) < MaxBigint
      BY <1>1, <1>3, LargestIs DEF Allocates, ConstantsAssumption
    <3>2. QED
      BY <3>1
  <2>2. number' \in [Request -> Voucher \cup 0..MaxBigint \cup {None}]
    BY <1>1, <1>3, <2>1 DEF Allocates, TypeOK
  <2>3. QED
    BY <1>1, <1>3, <2>2, TypeWalked DEF Allocates, TypeOK
<1>4. CASE Locks(p)
  <2>1. DeviceOf[p] \in Device
    BY <1>4 DEF Locks, ConstantsAssumption
  <2>2. seen' \in [Request -> Statuses]
    BY <1>1, <1>4, <2>1 DEF Locks, TypeOK
  <2>3. QED
    BY <1>1, <1>4, <2>2, TypeWalked DEF Locks, TypeOK
<1>5. CASE Creates(p)
  <2>1. SellerOf[p] \in Seller
    <3>1. Running(p) /\ OnPath(p) /\ At(p, "create")
      BY <1>1, <1>5 DEF Creates, At, PathInv
    <3>2. p \notin Device
      BY <3>1, DeviceIsAt
    <3>3. Kind[p] = "create"
      BY <3>1, <3>2, OtherIsAt, Zenon
    <3>4. QED
      BY <3>3 DEF ConstantsAssumption
  <2>2. /\ step' \in [Request -> Nat \ {0}] /\ seen' \in [Request -> Statuses]
        /\ answer' \in [Request -> {"none", "done", "refused", "taken", "failed"}]
    BY <1>1, <1>5, TypeEnded DEF Creates
  <2>3. QED
    BY <1>1, <1>5, <2>1, <2>2 DEF Creates, TypeOK
<1>6. CASE Commit(p)
  <2>1. /\ step' \in [Request -> Nat \ {0}] /\ seen' \in [Request -> Statuses]
        /\ answer' \in [Request -> {"none", "done", "refused", "taken", "failed"}]
    BY <1>1, <1>6, TypeEnded, CommitIs
  <2>2. applied' \in SUBSET Request /\ number' = number /\ known' = known
    <3>1. applied' = applied \cup {p} /\ number' = number /\ known' = known
      BY <1>1, <1>6, CommitIs, Zenon
    <3>2. applied \in SUBSET Request
      BY <1>1 DEF TypeOK
    <3>3. QED
      BY <3>1, <3>2
  <2>3. status' \in [Device -> Statuses]
    <3>1. \/ status' = status
          \/ /\ DeviceOf[p] \in Device /\ StatusOf[p] \in Statuses
             /\ status' = [status EXCEPT ![DeviceOf[p]] = StatusOf[p]]
      BY <1>1, <1>6, CommitIs, Zenon
    <3>2. status \in [Device -> Statuses]
      BY <1>1 DEF TypeOK
    <3>3. QED
      BY <3>1, <3>2
  <2>4. moves' \in [Device -> Seq((Statuses \cup {None}) \X Statuses)]
    <3>1. ASSUME NEW d \in Device, NEW from \in Statuses \cup {None}, NEW to \in Statuses,
                 Moved(d, from, to)
          PROVE  moves' \in [Device -> Seq((Statuses \cup {None}) \X Statuses)]
      <4>1. moves[d] \in Seq((Statuses \cup {None}) \X Statuses)
        BY <1>1 DEF TypeOK
      <4>2. Append(moves[d], <<from, to>>) \in Seq((Statuses \cup {None}) \X Statuses)
        BY <4>1
      <4>3. QED
        BY <1>1, <3>1, <4>2 DEF TypeOK, Moved
    <3>2. "IN_STOCK" \in Statuses /\ None \in Statuses \cup {None} /\ seen[p] \in Statuses
      BY <1>1 DEF Statuses, TypeOK
    <3>3. QED
      BY <1>1, <1>6, <3>1, <3>2, CommitIs DEF TypeOK
  <2>5. active' \in SUBSET known'
    <3>1. HoldsSeller(p) => SellerOf[p] \in known
      BY <1>1 DEF SellerInv
    <3>2. active \in SUBSET known
      BY <1>1 DEF TypeOK
    <3>3. active' = active \/ (HoldsSeller(p) /\ active' \subseteq active \cup {SellerOf[p]})
      BY <1>1, <1>6, CommitIs
    <3>4. QED
      BY <2>2, <3>1, <3>2, <3>3
  <2>6. QED
    BY <1>1, <2>1, <2>2, <2>3, <2>4, <2>5 DEF TypeOK
<1>7. CASE Fails(p)
  <2>1. PICK result \in {"refused", "taken", "failed"} : Failed(p, result)
    BY <1>7 DEF Fails
  <2>2. /\ step' \in [Request -> Nat \ {0}] /\ seen' \in [Request -> Statuses]
        /\ answer' \in [Request -> {"none", "done", "refused", "taken", "failed"}]
    BY <1>1, <2>1, TypeEnded DEF Failed
  <2>3. QED
    BY <1>1, <2>1, <2>2 DEF Failed, central, TypeOK
<1>8. QED
  BY <1>2, <1>3, <1>4, <1>5, <1>6, <1>7

\* The invariant holds before the first call.
LEMMA DeskInit ==
    ASSUME ConstantsAssumption, Init
    PROVE  DeskInv
<1>1. Existing \subseteq Device /\ Existing \subseteq Request
      /\ \A r \in Existing : Kind[r] \in {"new", "explicit"}
  BY DEF ConstantsAssumption, Of, Device, Registrations
<1>2. ASSUME NEW r \in Request PROVE OnPath(r) /\ step[r] = 1
  <2>1. step[r] = 1 /\ step[r] \in Nat \ {0}
    BY DEF Init
  <2>2. 1 \in DOMAIN Path[r]
    <3>1. CASE r \in Device
      <4>1. PICK k \in Nat, n \in Nat, f \in Nat :
               k = Lead(r) /\ n = Size(r) /\ f = Final(r) /\ k \in 2..3 /\ k + n < f
        BY <3>1, LeadIs, SizeIs, PathOfDevice
      <4>2. 1 \in 1..f
        BY <4>1
      <4>3. DOMAIN Path[r] = 1..f
        BY <3>1, <4>1, PathOfDevice
      <4>4. QED
        BY <4>2, <4>3
    <3>2. CASE r \notin Device
      <4>1. CASE Kind[r] = "create"
        <5>1. PICK P : P = Path[r] /\ P = <<"create">>
          BY <3>2, <4>1, PathOfOthers
        <5>2. QED
          BY <5>1
      <4>2. CASE Kind[r] # "create"
        <5>1. PICK P : P = Path[r] /\ P = <<"lock", "log", "commit">>
          BY <3>2, <4>2, PathOfOthers
        <5>2. QED
          BY <5>1
      <4>3. QED
        BY <4>1, <4>2
    <3>3. QED
      BY <3>1, <3>2
  <2>3. QED
    BY <2>1, <2>2 DEF OnPath
<1>3. ASSUME NEW r \in Request
      PROVE  ~HoldsBranch(r) /\ ~HoldsDevice(r) /\ ~HoldsSeller(r)
  <2>1. CASE r \in Device
    <3>1. ~(step[r] > 2)
      BY <1>2
    <3>2. QED
      BY <2>1, <3>1, DeviceHolds, Zenon
  <2>2. CASE r \notin Device
    <3>1. ~(step[r] > 1)
      BY <1>2
    <3>2. QED
      BY <2>2, <3>1, OtherHolds, Zenon
  <2>3. QED
    BY <2>1, <2>2
<1>4. TypeOK
  <2>1. /\ step \in [Request -> Nat \ {0}] /\ seen \in [Request -> Statuses]
        /\ answer \in [Request -> {"none", "done", "refused", "taken", "failed"}]
        /\ status \in [Device -> Statuses]
    BY DEF Init, Statuses
  <2>2. number \in [Request -> Voucher \cup 0..MaxBigint \cup {None}] /\ applied \in SUBSET Request
    BY <1>1 DEF Init, ConstantsAssumption
  <2>3. moves \in [Device -> Seq((Statuses \cup {None}) \X Statuses)]
    <3>1. <<<<None, "IN_STOCK">>>> \in Seq((Statuses \cup {None}) \X Statuses)
      BY DEF Statuses
    <3>2. <<>> \in Seq((Statuses \cup {None}) \X Statuses)
      OBVIOUS
    <3>3. QED
      BY <3>1, <3>2 DEF Init
  <2>4. known \in SUBSET Seller /\ active \in SUBSET known
    BY DEF Init, ConstantsAssumption
  <2>5. QED
    BY <2>1, <2>2, <2>3, <2>4 DEF TypeOK
<1>5. AppliedInv
  BY <1>1 DEF Init, AppliedInv, ConstantsAssumption
<1>6. FreshInv
  <2>1. AllocatedVouchersAreFree
    BY DEF Init, AllocatedVouchersAreFree, Of
  <2>2. QED
    BY <1>3, <2>1 DEF FreshInv
<1>7. MoveInv
  <2>1. Tells(<<<<None, "IN_STOCK">>>>, "IN_STOCK")
    BY DEF Tells
  <2>2. QED
    BY <2>1 DEF Init, MoveInv
<1>8. QED
  BY <1>2, <1>3, <1>4, <1>5, <1>6, <1>7 DEF DeskInv, PathInv, BranchInv, LockInv, SellerInv

\* Each step keeps the invariant.
LEMMA DeskStep ==
    ASSUME ConstantsAssumption, DeskInv, Next
    PROVE  DeskInv'
<1>1. PICK p \in Request :
         Walks(p) \/ Allocates(p) \/ Locks(p) \/ Creates(p) \/ Commit(p) \/ Fails(p)
  BY StepIs
<1>2. TypeOK'
  BY <1>1, TypeStep
<1>3. TypeOK /\ PathInv /\ AppliedInv /\ BranchInv /\ FreshInv /\ LockInv /\ SellerInv /\ MoveInv
  BY DEF DeskInv
<1>4. CASE Walks(p)
  <2>1. Advances(p) /\ number' = number /\ seen' = seen /\ applied' = applied /\ answer' = answer
        /\ status' = status /\ moves' = moves /\ known' = known
    BY <1>4 DEF Walks, Advances, GoesOn, central
  <2>2. PathInv' /\ Gains(p)
    BY <1>3, <2>1, AdvancedPath, AdvancedGains
  <2>3. BranchInv'
    <3>1. At(p, "branch") \/ At(p, "device") \/ At(p, "log") => Free(p)
      BY <1>4 DEF Walks
    <3>2. QED
      BY <1>3, <2>2, <3>1, BranchKept
  <2>4. \A r \in Request :
          (HoldsBranch(r)' => HoldsBranch(r)) /\ (HoldsDevice(r)' => HoldsDevice(r))
    <3>1. ~At(p, "branch")
      BY <1>4 DEF Walks
    <3>2. \A r \in Request : HoldsDevice(r)' => HoldsDevice(r) \/ (r = p /\ At(p, "lock"))
      BY <2>2 DEF Gains
    <3>3. At(p, "lock") => ~HoldsDevice(p)'
      BY <1>4 DEF Walks, HoldsDevice
    <3>4. QED
      BY <2>2, <3>1, <3>2, <3>3 DEF Gains
  <2>5. AppliedInv'
    BY <1>3, <2>1, AppliedSame
  <2>6. FreshInv'
    BY <1>3, <2>1, <2>4, FreshSame DEF Of
  <2>7. LockInv'
    BY <1>3, <2>1, <2>4, LockSame
  <2>8. SellerInv'
    <3>1. \A r \in Request : HoldsSeller(r)' => HoldsSeller(r) \/ SellerOf[r] \in known
      BY <1>4, <2>2 DEF Gains, Walks
    <3>2. QED
      BY <1>3, <2>1, <3>1, SellerSame
  <2>9. MoveInv'
    BY <1>3, <2>1, MoveSame
  <2>10. QED
    BY <1>2, <2>2, <2>3, <2>5, <2>6, <2>7, <2>8, <2>9 DEF DeskInv
<1>5. CASE Allocates(p)
  <2>1. Advances(p) /\ seen' = seen /\ applied' = applied /\ answer' = answer
        /\ status' = status /\ moves' = moves /\ known' = known
        /\ ~At(p, "lock") /\ Free(p)
    BY <1>5 DEF Allocates, Advances, GoesOn, central, At
  <2>2. PathInv' /\ Gains(p)
    BY <1>3, <2>1, AdvancedPath, AdvancedGains
  <2>3. BranchInv'
    BY <1>3, <2>1, <2>2, BranchKept
  <2>4. \A r \in Request :
          (HoldsDevice(r)' => HoldsDevice(r)) /\ (HoldsSeller(r)' => HoldsSeller(r))
    BY <2>1, <2>2 DEF Gains
  <2>5. AppliedInv'
    BY <1>3, <2>1, AppliedSame
  <2>6. FreshInv'
    BY <1>3, <1>5, <2>2, FreshAllocated
  <2>7. LockInv' /\ SellerInv' /\ MoveInv'
    BY <1>3, <2>1, <2>4, LockSame, SellerSame, MoveSame
  <2>8. QED
    BY <1>2, <2>2, <2>3, <2>5, <2>6, <2>7 DEF DeskInv
<1>6. CASE Locks(p)
  <2>1. Advances(p) /\ number' = number /\ applied' = applied /\ answer' = answer
        /\ status' = status /\ moves' = moves /\ known' = known
        /\ ~At(p, "branch") /\ Free(p) /\ Kind[p] = "patch"
    BY <1>6 DEF Locks, Advances, GoesOn, central, At
  <2>2. PathInv' /\ Gains(p)
    BY <1>3, <2>1, AdvancedPath, AdvancedGains
  <2>3. BranchInv'
    BY <1>3, <2>1, <2>2, BranchKept
  <2>4. \A r \in Request :
          (HoldsBranch(r)' => HoldsBranch(r)) /\ (HoldsSeller(r)' => HoldsSeller(r))
    <3>1. ~HoldsSeller(p)'
      BY <2>1 DEF HoldsSeller
    <3>2. QED
      BY <2>1, <2>2, <3>1 DEF Gains
  <2>5. AppliedInv'
    BY <1>3, <2>1, AppliedSame
  <2>6. FreshInv'
    BY <1>3, <2>1, <2>4, FreshSame DEF Of
  <2>7. LockInv'
    BY <1>3, <1>6, <2>2, LockTaken
  <2>8. SellerInv' /\ MoveInv'
    BY <1>3, <2>1, <2>4, SellerSame, MoveSame
  <2>9. QED
    BY <1>2, <2>2, <2>3, <2>5, <2>6, <2>7, <2>8 DEF DeskInv
<1>7. CASE Creates(p)
  <2>1. Ends(p, "done") /\ number' = number /\ applied' = applied \cup {p}
        /\ status' = status /\ moves' = moves /\ known \subseteq known'
    BY <1>7 DEF Creates
  <2>2. PathInv' /\ LetsGo(p)
    BY <1>3, <2>1, EndedPath, EndedLetsGo
  <2>3. p \notin Device
    <3>1. Running(p) /\ OnPath(p) /\ At(p, "create")
      BY <1>3, <1>7 DEF Creates, At, PathInv
    <3>2. QED
      BY <3>1, DeviceIsAt
  <2>4. BranchInv' /\ AppliedInv'
    BY <1>3, <2>1, <2>2, BranchKept, AppliedMore
  <2>5. FreshInv'
    BY <1>3, <2>1, <2>2, <2>3, FreshMore
  <2>6. LockInv'
    <3>1. \A r \in Request : HoldsDevice(r)' => HoldsDevice(r) /\ seen'[r] = seen[r]
      BY <1>3, <2>1, <2>2, Ended DEF LetsGo
    <3>2. QED
      BY <1>3, <2>1, <3>1, LockSame
  <2>7. SellerInv'
    BY <1>3, <2>1, <2>2, SellerSame DEF LetsGo
  <2>8. MoveInv'
    BY <1>3, <2>1, <2>3, MoveSame
  <2>9. QED
    BY <1>2, <2>2, <2>4, <2>5, <2>6, <2>7, <2>8 DEF DeskInv
<1>8. CASE Commit(p)
  <2>1. Ends(p, "done") /\ number' = number /\ applied' = applied \cup {p} /\ known' = known
        /\ (p \in Device => SharesBranch(p))
    BY <1>3, <1>8, CommitIs
  <2>2. PathInv' /\ LetsGo(p)
    BY <1>3, <2>1, EndedPath, EndedLetsGo
  <2>3. BranchInv' /\ AppliedInv'
    BY <1>3, <2>1, <2>2, BranchKept, AppliedMore
  <2>4. FreshInv'
    BY <1>3, <2>1, <2>2, FreshMore
  <2>5. LockInv' /\ MoveInv'
    BY <1>3, <1>8, <2>2, LockCommitted, MoveCommitted
  <2>6. SellerInv'
    BY <1>3, <2>1, <2>2, SellerSame DEF LetsGo
  <2>7. QED
    BY <1>2, <2>2, <2>3, <2>4, <2>5, <2>6 DEF DeskInv
<1>9. CASE Fails(p)
  <2>1. PICK result \in {"refused", "taken", "failed"} : Running(p) /\ Failed(p, result)
    BY <1>9 DEF Fails
  <2>2. Ends(p, result) /\ applied' = applied /\ status' = status /\ moves' = moves
        /\ known' = known /\ result # "none"
    BY <2>1 DEF Failed, central
  <2>3. PathInv' /\ LetsGo(p)
    BY <1>3, <2>2, EndedPath, EndedLetsGo
  <2>4. BranchInv' /\ AppliedInv'
    BY <1>3, <2>1, <2>3, BranchKept, AppliedFailed
  <2>5. FreshInv'
    BY <1>3, <1>9, <2>3, FreshFailed
  <2>6. LockInv'
    <3>1. \A r \in Request : HoldsDevice(r)' => HoldsDevice(r) /\ seen'[r] = seen[r]
      BY <1>3, <2>2, <2>3, Ended DEF LetsGo
    <3>2. QED
      BY <1>3, <2>2, <3>1, LockSame
  <2>7. SellerInv'
    BY <1>3, <2>2, <2>3, SellerSame DEF LetsGo
  <2>8. MoveInv'
    BY <1>3, <2>2, MoveSame
  <2>9. QED
    BY <1>2, <2>3, <2>4, <2>5, <2>6, <2>7, <2>8 DEF DeskInv
<1>10. QED
  BY <1>1, <1>4, <1>5, <1>6, <1>7, <1>8, <1>9

\* So does a step that changes nothing.
LEMMA DeskStutter ==
    ASSUME DeskInv, UNCHANGED vars
    PROVE  DeskInv'
<1>1. /\ step' = step /\ number' = number /\ seen' = seen /\ answer' = answer
      /\ applied' = applied /\ status' = status /\ moves' = moves /\ known' = known
      /\ active' = active
  BY DEF vars, request, central
<1>2. TypeOK /\ PathInv /\ AppliedInv /\ BranchInv /\ FreshInv /\ LockInv /\ SellerInv /\ MoveInv
  BY DEF DeskInv
<1>3. TypeOK' /\ PathInv' /\ AppliedInv' /\ MoveInv'
  BY <1>1, <1>2 DEF TypeOK, PathInv, OnPath, Running, AppliedInv, MoveInv
<1>4. \A r \in Request :
        /\ HoldsBranch(r)' <=> HoldsBranch(r)
        /\ SharesBranch(r)' <=> SharesBranch(r)
        /\ HoldsDevice(r)' <=> HoldsDevice(r)
        /\ HoldsSeller(r)' <=> HoldsSeller(r)
  BY <1>1 DEF HoldsBranch, SharesBranch, HoldsDevice, HoldsSeller, Passed, Running
<1>5. BranchInv' /\ LockInv' /\ SellerInv'
  BY <1>1, <1>2, <1>4 DEF BranchInv, SameBranch, LockInv, SellerInv
<1>6. FreshInv'
  BY <1>1, <1>2, <1>4, FreshSame DEF Of
<1>7. QED
  BY <1>3, <1>5, <1>6 DEF DeskInv

\* The conjunction of what paths, locks, vouchers and movements keep true together.
THEOREM DeskInvariant ==
    ASSUME ConstantsAssumption
    PROVE  Spec => []DeskInv
<1>1. Init => DeskInv
  BY DeskInit
<1>2. DeskInv /\ [Next]_vars => DeskInv'
  BY DeskStep, DeskStutter
<1>3. QED
  BY <1>1, <1>2, PTL DEF Spec

\* The lock of the branch's row from getNextVoucherNumber to the commit keeps the
\* number free: whoever leaves it to the backend is never told that it is in use.
THEOREM VouchersFree == ASSUME ConstantsAssumption PROVE Spec => []AllocatedVouchersAreFree
<1>1. DeskInv => AllocatedVouchersAreFree
  BY DEF DeskInv, FreshInv
<1>2. QED
  BY <1>1, DeskInvariant, PTL

\* patchMobileDevice reads the status under the lock it writes under, so that the
\* movements of a device are a history without a break.
THEOREM MovementsTell == ASSUME ConstantsAssumption PROVE Spec => []MovementsTellTheStatus
<1>1. DeskInv => MovementsTellTheStatus
  <2>1. SUFFICES ASSUME MoveInv, NEW d \in Device, d \in applied PROVE Tells(moves[d], status[d])
    BY DEF DeskInv, MovementsTellTheStatus, Tells
  <2>2. QED
    BY <2>1 DEF MoveInv
<1>2. QED
  BY <1>1, DeskInvariant, PTL

\* The branch is locked before the device and the paperwork is filed after the
\* IMEIs, so that only IMEIs listed in different orders can close a circle, or an
\* update of a seller that is about to write change_log for a locked branch.
THEOREM CirclesOfTwoKinds == ASSUME ConstantsAssumption PROVE Spec => []TwoKindsOfCircles
<1>1. DeskInv => TwoKindsOfCircles
  BY OnlyTwoKinds DEF DeskInv, PathInv
<1>2. QED
  BY <1>1, DeskInvariant, PTL
===============================================================================
