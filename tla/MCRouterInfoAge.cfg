CONSTANTS
    CostBits <- MCCostBits
    Costs <- MCCosts
    RouterIds <- MCRouterIds
    LinkQualities <- MCLinkQualities
    TickMs <- MCTickMs
    MaxElapsed <- MCMaxElapsed

SPECIFICATION Spec
INVARIANT AgeTracksLastHeard
