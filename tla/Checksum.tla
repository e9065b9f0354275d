------------------------------ MODULE Checksum ------------------------------
(***************************************************************************)
(* The Internet checksum as SCONE computes and verifies it (or_ip.c,         *)
(* or_icmp.c) and as its TCP stack computes it (lwtcp/inet.c).               *)
(* A byte is a digit in base B and a 16-bit word two of them; the code has   *)
(* B = 256.  uint32_t words wrap at M^2.                                     *)
(***************************************************************************)
EXTENDS Integers, Sequences

CONSTANT B      \* the values of a byte are 0 .. B - 1

ASSUME ByteAssumption == B \in Nat /\ B >= 2

Byte == 0 .. B - 1
M == B * B                      \* 2^16
Word == 0 .. M - 1

ntohs(w) == (w % B) * B + (w \div B)
Not16(w) == M - 1 - w

(* sum = (sum >> 16) + (sum & 0xFFFF)                                       *)
Fold1(sum) == (sum \div M) + (sum % M)

Total(words) ==
    LET T[n \in 0 .. Len(words)] == IF n = 0 THEN 0 ELSE T[n - 1] + words[n]
    IN  T[Len(words)]

-----------------------------------------------------------------------------
(* or_ip.c, or_icmp.c: sum is that of the words in host order.  The two      *)
(* folds are written out.                                                    *)
compute_checksum[sum \in Nat] ==
    LET once == Fold1(sum)
    IN  Not16((once + (once \div M)) % M)

(* Whether the sum is that of a good header, for which the code returns 0.   *)
(* One fold is enough: a multiple of 2^16 - 1 has its two halves add up to   *)
(* 2^16 - 1.                                                                 *)
verify_checksum(sum) == Fold1(sum) % M = M - 1

Shorts(bytes) == [i \in 1 .. (Len(bytes) \div 2) |->
                    ntohs(bytes[2 * i - 1] + B * bytes[2 * i])]

(* A message of n bytes is summed over n / 2 words, so an odd last byte is   *)
(* left out, and so is the second word, the checksum.                        *)
compute_icmp_checksum(bytes) ==
    compute_checksum[Total([i \in DOMAIN Shorts(bytes) |->
                              IF i = 2 THEN 0 ELSE Shorts(bytes)[i]])]

-----------------------------------------------------------------------------
(* lwtcp/inet.c works on the words as they lie in memory, the first byte     *)
(* being the low one, and folds until no carry is left.                      *)
chksum(bytes) ==
    Total([i \in DOMAIN bytes |-> IF i % 2 = 1 THEN bytes[i] ELSE B * bytes[i]])

Carry[acc \in Nat] == IF acc \div M = 0 THEN acc ELSE Carry[Fold1(acc)]

\* Mutant: the bytes of the sum are not exchanged after an odd buffer.
PseudoStep_straight(a, q) ==
    [acc     |-> Carry[a.acc + chksum(q)],
     swapped |-> IF Len(q) % 2 # 0 THEN ~a.swapped ELSE a.swapped]

(* One turn of the loop over the pbuf chain.                                 *)
PseudoStep(a, q) ==
    LET acc == Carry[a.acc + chksum(q)]
    IN  IF Len(q) % 2 # 0
        THEN [acc |-> ntohs(acc), swapped |-> ~a.swapped]
        ELSE [acc |-> acc, swapped |-> a.swapped]

(* header: the words of the pseudo header (addresses, protocol, length).     *)
inet_chksum_pseudo(chain, header) ==
    LET ChainSum[n \in 0 .. Len(chain)] ==
            IF n = 0 THEN [acc |-> 0, swapped |-> FALSE]
                     ELSE PseudoStep(ChainSum[n - 1], chain[n])
        end == ChainSum[Len(chain)]
        acc == IF end.swapped THEN ntohs(end.acc) ELSE end.acc
    IN  Not16(Carry[acc + Total(header)])

inet_chksum(bytes) == Not16(Carry[chksum(bytes)])

-----------------------------------------------------------------------------
(* The reference: a one's complement sum is the sum modulo 2^16 - 1, and it   *)
(* is zero only for a message of zeros.                                      *)
OnesSum(n) == IF n = 0 THEN 0 ELSE ((n - 1) % (M - 1)) + 1
=============================================================================
