\* Two servers, three requests of which one is sent with two texts, and a
\* reader.
SPECIFICATION Spec
CONSTANTS
    p1 = p1  p2 = p2  p3 = p3  p4 = p4  s1 = s1  s2 = s2  u1 = u1
    Servers = {s1, s2}
    Users = {u1}
    Posts = {p1, p2, p3, p4}
    NoPost = NoPost
    KeyOf <- MCKeyOf
    MentionsOf <- MCMentionsOf
    Limits = {1, 2}
    MaxLate = 1
SYMMETRY MCSymmetry
INVARIANTS PostedOnce MentionsAgree HistoryWhole PagesAgree
