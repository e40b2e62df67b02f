\* The same small instance as MCPictures, for one address that a lost EXPIRE
\* locks out.
SPECIFICATION FairSpec
CONSTANTS
    Host = {h1}
    Limit = 2
    Window = 2
    Request = {r1, r2}
    Digest = {d1, d2}
    None = None
PROPERTY NeverLockedOut
