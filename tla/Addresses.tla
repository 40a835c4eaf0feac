------------------------------ MODULE Addresses ------------------------------
(***************************************************************************)
(* The addresses of PORT and PASV.                                         *)
(*                                                                         *)
(* An address is four octets as it is written.  Its s_addr is a word of 32 *)
(* bits whose lowest byte is the first octet: the bytes are in the order   *)
(* of the network and the processors Windows runs on are little-endian.    *)
(***************************************************************************)
EXTENDS Integers, TLAPS

Octet == 0 .. 255
Addresses == Octet \X Octet \X Octet \X Octet
PortNumbers == 0 .. 65535

\* The s_addr of address x.
SAddr(x) == x[1] + 256 * x[2] + 65536 * x[3] + 16777216 * x[4]

\* The six numbers of the reply to PASV.
Reply227(word, port) ==
  << word % 256, (word \div 256) % 256, (word \div 65536) % 256, (word \div 16777216) % 256,
     port \div 256, port % 256 >>

\* What PORT makes of its six numbers.
PortWord(n) == n[1] * 16777216 + n[2] * 65536 + n[3] * 256 + n[4]
PortNumber(n) == n[5] * 256 + n[6]

\* A word as the set of its bits, for the operators of C on them.
Word == SUBSET (0 .. 31)
And(v, w) == v \cap w
Truth(b) == IF b THEN {0} ELSE {}

\* The mask of a network of `len' bits: the highest ones.
Lengths == {8, 12, 16}
Mask(len) == (32 - len) .. 31

\* is_private_ip: == binds tighter than &, so what is masked is the answer.
IsPrivate(networks, word) ==
  \E len \in Lengths : \E net \in networks[len] : And(Truth(net = word), Mask(len)) # {}

\* get_local_ip: the first of the addresses the host's name has.
LocalIp(hosts) == hosts[1]

\* The address the reply to PASV names.
PasvAddress(networks, client, extip, hosts) ==
  IF IsPrivate(networks, client) THEN extip ELSE LocalIp(hosts)

-----------------------------------------------------------------------------
\* A client that reads "227 Entering Passive Mode (a,b,c,d,p,q)" as it is meant
\* finds the address and the port the channel listens on.
THEOREM PasvNamesChannel ==
  ASSUME NEW a \in Octet, NEW b \in Octet, NEW c \in Octet, NEW d \in Octet,
         NEW port \in PortNumbers
  PROVE  LET reply == Reply227(SAddr(<<a, b, c, d>>), port)
         IN /\ <<reply[1], reply[2], reply[3], reply[4]>> = <<a, b, c, d>>
            /\ reply[5] \in Octet /\ reply[6] \in Octet
            /\ PortNumber(reply) = port
<1> DEFINE w == SAddr(<<a, b, c, d>>)
<1>1. w = a + 256 * b + 65536 * c + 16777216 * d /\ w \in Int
  BY DEF SAddr, Octet
<1>2. w % 256 = a
  BY <1>1 DEF Octet
<1>3. (w \div 256) % 256 = b
  <2>1. w \div 256 = b + 256 * c + 65536 * d
    BY <1>1 DEF Octet
  <2> QED BY <2>1 DEF Octet
<1>4. (w \div 65536) % 256 = c
  <2>1. w \div 65536 = c + 256 * d
    BY <1>1 DEF Octet
  <2> QED BY <2>1 DEF Octet
<1>5. (w \div 16777216) % 256 = d
  <2>1. w \div 16777216 = d
    BY <1>1 DEF Octet
  <2> QED BY <2>1 DEF Octet
<1>6. port \div 256 \in Octet /\ port % 256 \in Octet /\ (port \div 256) * 256 + (port % 256) = port
  BY DEF PortNumbers, Octet
<1> HIDE DEF w
<1> QED BY <1>2, <1>3, <1>4, <1>5, <1>6 DEF Reply227, PortNumber, w

\* PORT puts the octets together in the order of the host: the address it keeps
\* is the one written backwards, the client's own only if it reads the same.
THEOREM PortReverses ==
  ASSUME NEW a \in Octet, NEW b \in Octet, NEW c \in Octet, NEW d \in Octet,
         NEW p \in Octet, NEW q \in Octet
  PROVE  LET word == PortWord(<<a, b, c, d, p, q>>)
         IN /\ word = SAddr(<<d, c, b, a>>)
            /\ word = SAddr(<<a, b, c, d>>) <=> a = d /\ b = c
<1>1. PortWord(<<a, b, c, d, p, q>>) = a * 16777216 + b * 65536 + c * 256 + d
  BY DEF PortWord
<1>2. /\ SAddr(<<d, c, b, a>>) = d + 256 * c + 65536 * b + 16777216 * a
      /\ SAddr(<<a, b, c, d>>) = a + 256 * b + 65536 * c + 16777216 * d
  BY DEF SAddr
<1> QED BY <1>1, <1>2 DEF Octet

\* No client is ever taken for one of a private network, whatever the networks
\* are: the address given to ftpd_start_server is never in a reply to PASV, and
\* every client, whatever network it came from, is sent to the host's first one.
THEOREM ExtipUnused ==
  ASSUME NEW networks \in [Lengths -> SUBSET Word], NEW client \in Word,
         NEW extip, NEW hosts
  PROVE  PasvAddress(networks, client, extip, hosts) = LocalIp(hosts)
<1>1. ASSUME NEW len \in Lengths PROVE 0 \notin Mask(len)
  BY DEF Mask, Lengths
<1>2. ~IsPrivate(networks, client)
  BY <1>1 DEF IsPrivate, And, Truth
<1> QED BY <1>2 DEF PasvAddress
=============================================================================
