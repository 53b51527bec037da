SPECIFICATION Spec
CONSTANTS
    Tokens = {r1, r2}
    Tabs = {t1, t2}
    Calls = {c1, c2}
    Null = Null
PROPERTY
    TwoTabsStaySignedIn
