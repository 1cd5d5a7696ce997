CONSTANTS
  url = url
  other = other
  alias = alias
  author = author
  p1 = p1
  p2 = p2
  t1 = t1
  t2 = t2
  Nil = Nil
  Projects <- OneProject
  Threads <- TwoThreads
  Spellings <- ThreeSpellings
  Urls <- TwoUrls
  Normal <- NormalOf
  Authors <- OneAuthor
  AuthorOf <- AuthorOfAll
  Strays = {0}
  MaxBegun = 3
SPECIFICATION Spec
INVARIANTS OncePerProject
CHECK_DEADLOCK FALSE
