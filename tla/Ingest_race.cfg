CONSTANTS
    s1 = s1  s2 = s2  c1 = c1  c2 = c2
    f1 = f1  f2 = f2  f3 = f3  f4 = f4
    k1 = k1  k2 = k2  h1 = h1  h2 = h2
    p1 = p1  p2 = p2  p3 = p3
    None = None
    Slots = {s1, s2}
    Cards = {c1, c2}
    Files = {f1, f2}
    Contents = {k1, k2}
    Hashes = {h1, h2}
    Paths = {p1, p2}
    Hash <- MCHash
    CardOf <- RaceCardOf
    Content <- RaceContent
    DestPaths <- RaceDestPaths
    Kept = {f1, f2}
    EraseIngested = TRUE
    EraseSkipped = FALSE
SPECIFICATION Spec
INVARIANTS
    DestVerified
    IndexLanded
PROPERTIES
    TransferIsSafe
