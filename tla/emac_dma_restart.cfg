CONSTANTS
  MaxFlaps <- MCMaxFlaps
  MaxDmaErrs <- MCMaxDmaErrs
SPECIFICATION FairSpec
PROPERTY StackLinkTracked
