---------------------------- MODULE IpWhitelist ----------------------------
(***************************************************************************)
(* The ranges of the IP whitelist (shared/guards/ip-whitelist.guard.ts):   *)
(* CIDR blocks compared with the shifts of JavaScript, on words of Width   *)
(* bits in place of 32.                                                    *)
(***************************************************************************)
EXTENDS Naturals

CONSTANTS Width, Entries  \* Entries: bound on the length of ALLOWED_IPS

\* Asserted by the module that instantiates this one.
WhitelistAssumption == Width \in Nat \ {0} /\ Entries \in Nat

VARIABLES
  ip,       \* the normalized address of the client
  allowed   \* ALLOWED_IPS: blocks, a single address being one of Width bits; none stand for "*"

whitelistVars == <<ip, allowed>>

Address == 0..(2^Width - 1)
Block == [network : Address, prefix : 0..Width]
Loopback == 0

\* The list is read once; an empty one allows every address.
Init ==
  /\ ip \in Address
  /\ \E n \in 0..Entries : \E f \in [1..n -> Block] : allowed = {f[i] : i \in 1..n}

\* Mutant: one bit too many.
MaskNum_Off(prefix) == ((2^Width - 1) * 2^((Width - prefix + 1) % Width)) % 2^Width

\* (0xffffffff << (32 - mask)) >>> 0: a shift counts modulo the width.
MaskNum(prefix) == ((2^Width - 1) * 2^((Width - prefix) % Width)) % 2^Width

\* A word by the positions of its ones, for the & of isIpInCidr().
Ones(x) == {i \in 0..(Width - 1) : (x \div 2^i) % 2 = 1}

\* isIpInCidr()
IsIpInCidr(b) ==
  LET mask == Ones(MaskNum(b.prefix)) IN Ones(ip) \cap mask = Ones(b.network) \cap mask

\* A request from another address.
Next ==
  /\ \E a \in Address : ip' = a
  /\ UNCHANGED allowed

\* canActivate(), for a route that is not public.
CanActivate ==
  \/ allowed = {}
  \/ ip = Loopback
  \/ \E b \in allowed : IsIpInCidr(b)

-----------------------------------------------------------------------------
\* The leading bits of the network and of the address.
Leading(a, prefix) == a \div 2^(Width - prefix)
Covers(b) == Leading(ip, b.prefix) = Leading(b.network, b.prefix)

\* An address is let in exactly if it is the loopback or a block covers it, for every list whose
\* blocks have a prefix; a block of prefix 0 covers everything and lets in its network only.
AllowsExactlyTheBlocks ==
  allowed # {} =>
    (CanActivate <=> ip = Loopback \/ \E b \in allowed :
                       IF b.prefix = 0 THEN ip = b.network ELSE Covers(b))
=============================================================================
