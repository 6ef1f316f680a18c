\* A lock that checks no CRC is refused and named a CRC mismatch.
CONSTANTS
  c1 = c1
  c2 = c2
  Clis = {c1, c2}
  Offered <- MCOffered
  Secrets = {s1, s2, s3, s4, s5, s6, s7, s8, s9}
  Nil = nil
SPECIFICATION Spec
INVARIANT MismatchOnlyOfConfig
